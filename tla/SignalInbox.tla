----------------------------- MODULE SignalInbox -----------------------------
(***************************************************************************)
(* messaging/conn.go: how signals received over the messaging transport    *)
(* reach the listener.  The service may deliver an ICE candidate before    *)
(* the offer or answer it belongs to, so candidates are kept in a          *)
(* pendingStore until that description has come.                           *)
(*                                                                         *)
(* jrpc2 runs the callback of every message on a goroutine of its own, so  *)
(* trySend, which takes no lock, is modelled read by read and write by     *)
(* write: a handler that reads the flag or the buffer may act on it after  *)
(* another has changed it.  The history variable overlapped says whether   *)
(* callbacks ever did run at the same time.                                *)
(*                                                                         *)
(* One connection ID is modelled; others have stores of their own.  Stores *)
(* are numbered in the order they are made: one that has been idle for 30  *)
(* seconds is dropped from the map, though a handler may still hold it.    *)
(***************************************************************************)
EXTENDS Naturals, Sequences

CONSTANTS
    Candidates,   \* ICE candidates the service delivers
    Offers,       \* offers it delivers: we are the listener
    Answers,      \* answers it delivers: we are the dialer
    Others,       \* signals of any other type
    MaxStores     \* bound: stores ever made

ASSUME InboxAssumption ==
    /\ MaxStores \in Nat \ {0}
    /\ Candidates \cap (Offers \cup Answers \cup Others) = {}
    /\ Others \cap (Offers \cup Answers) = {}

Descriptions == Offers \cup Answers
Signals == Candidates \cup Descriptions \cup Others
\* Store 0 stands for none and is never used.
Stores == 0..MaxStores

VARIABLES
    handler,    \* handler[s]: where the callback of signal s is
    held,       \* held[s]: the store it has looked up, 0 for none
    snap,       \* snap[s]: what it has read of the store's buffer
    overlapped, \* history: a callback started before another had returned
    current,    \* the store in the map, 0 for none
    made,       \* number of stores made
    described,  \* described[t]: hasReceivedDescription of store t
    buffer,     \* buffer[t]: pendingSignals of store t
    idle,       \* idle[t]: no activity on store t for 30 seconds
    swept,      \* history: a store was dropped
    reading,    \* the goroutine of Notify still reads signals
    delivered   \* the signals it has read, in order

storeVars == <<current, made, described, buffer, idle, swept>>
vars == <<handler, held, snap, overlapped, storeVars, reading, delivered>>

Steps == {"unsent", "checking", "sending", "describing", "ranging", "flushing",
          "loading", "appending", "done"}

HandlersOK ==
    /\ handler \in [Signals -> Steps] /\ held \in [Signals -> Stores]
    /\ snap \in [Signals -> Seq(Signals)] /\ delivered \in Seq(Signals)

StoresOK ==
    /\ current \in Stores /\ made \in Stores
    /\ described \in [Stores -> BOOLEAN] /\ idle \in [Stores -> BOOLEAN]
    /\ buffer \in [Stores -> Seq(Signals)]

TypeOK ==
    /\ {swept, reading, overlapped} \subseteq BOOLEAN
    /\ HandlersOK /\ StoresOK

Init ==
    /\ handler = [s \in Signals |-> "unsent"]
    /\ held = [s \in Signals |-> 0]
    /\ snap = [s \in Signals |-> <<>>]
    /\ overlapped = FALSE
    /\ current = 0 /\ made = 0
    /\ described = [t \in Stores |-> FALSE]
    /\ buffer = [t \in Stores |-> <<>>]
    /\ idle = [t \in Stores |-> FALSE]
    /\ swept = FALSE
    /\ reading = TRUE
    /\ delivered = <<>>

Active(s) == handler[s] \notin {"unsent", "done"}

Goto(s, step) == handler' = [handler EXCEPT ![s] = step]

-----------------------------------------------------------------------------
(* handleCallback.                                                         *)

Received(s) ==
    /\ handler[s] = "unsent"
    /\ overlapped' = (overlapped \/ \E r \in Signals : Active(r))

\* A candidate or a description: the store is looked up, or made, under
\* pendingStoreMu.
LookUp(s) ==
    /\ s \in Candidates \cup Descriptions
    /\ Received(s)
    /\ \/ current # 0 /\ UNCHANGED <<current, made>>
       \/ current = 0 /\ made < MaxStores /\ made' = made + 1 /\ current' = made + 1
    /\ held' = [held EXCEPT ![s] = current']
    /\ Goto(s, "checking")
    /\ UNCHANGED <<snap, described, buffer, idle, swept, reading, delivered>>

\* Any other signal goes straight to the channel.
Pass(s) ==
    /\ s \in Others
    /\ Received(s)
    /\ Goto(s, "sending")
    /\ UNCHANGED <<held, snap, storeVars, reading, delivered>>

-----------------------------------------------------------------------------
(* trySend.                                                                *)

\* Mutant of Describes: only an offer does, as in the code before it dialed.
DescribesOfferOnly(s) == s \in Offers

\* Is this the remote description candidates wait for?
Describes(s) == s \in Descriptions

\* Mutant of Check: the flag is set before the description is passed on.
CheckDescribed(s) ==
    /\ handler[s] = "checking"
    /\ idle' = [idle EXCEPT ![held[s]] = FALSE]
    /\ described' = [described EXCEPT ![held[s]] = @ \/ Describes(s)]
    /\ Goto(s, IF Describes(s) \/ described[held[s]] \/ s \notin Candidates
               THEN "sending" ELSE "loading")
    /\ UNCHANGED <<held, overlapped, snap, current, made, buffer, swept,
                   reading, delivered>>

\* The activity is noted, and the signal's type and the flag are looked at.
Check(s) ==
    /\ handler[s] = "checking"
    /\ idle' = [idle EXCEPT ![held[s]] = FALSE]
    /\ Goto(s, IF Describes(s) \/ described[held[s]] \/ s \notin Candidates
               THEN "sending" ELSE "loading")
    /\ UNCHANGED <<held, overlapped, snap, current, made, described, buffer,
                   swept, reading, delivered>>

\* p.c.signals <- s: the channel has no buffer, so this waits for the reader.
Send(s) ==
    /\ handler[s] = "sending" /\ reading
    /\ delivered' = Append(delivered, s)
    /\ Goto(s, IF Describes(s) THEN "describing" ELSE "done")
    /\ UNCHANGED <<held, overlapped, snap, storeVars, reading>>

Describe(s) ==
    /\ handler[s] = "describing"
    /\ described' = [described EXCEPT ![held[s]] = TRUE]
    /\ Goto(s, "ranging")
    /\ UNCHANGED <<held, overlapped, snap, current, made, buffer, idle, swept,
                   reading, delivered>>

\* The loop over pendingSignals ranges over the slice as it is now.
RangeOver(s) ==
    /\ handler[s] = "ranging"
    /\ snap' = [snap EXCEPT ![s] = buffer[held[s]]]
    /\ Goto(s, "flushing")
    /\ UNCHANGED <<held, overlapped, storeVars, reading, delivered>>

Flush(s) ==
    /\ handler[s] = "flushing" /\ reading
    /\ snap[s] # <<>>
    /\ delivered' = Append(delivered, Head(snap[s]))
    /\ snap' = [snap EXCEPT ![s] = Tail(@)]
    /\ UNCHANGED <<handler, held, overlapped, storeVars, reading>>

\* Mutant of Clear: the candidates passed on stay in the buffer.
ClearKeeps(s) ==
    /\ handler[s] = "flushing" /\ snap[s] = <<>>
    /\ Goto(s, "done")
    /\ UNCHANGED <<held, overlapped, snap, storeVars, reading, delivered>>

Clear(s) ==
    /\ handler[s] = "flushing" /\ snap[s] = <<>>
    /\ buffer' = [buffer EXCEPT ![held[s]] = <<>>]
    /\ Goto(s, "done")
    /\ UNCHANGED <<held, overlapped, snap, current, made, described, idle,
                   swept, reading, delivered>>

\* append, first its read of the slice and then its write.
Load(s) ==
    /\ handler[s] = "loading"
    /\ snap' = [snap EXCEPT ![s] = buffer[held[s]]]
    /\ Goto(s, "appending")
    /\ UNCHANGED <<held, overlapped, storeVars, reading, delivered>>

AppendPending(s) ==
    /\ handler[s] = "appending"
    /\ buffer' = [buffer EXCEPT ![held[s]] = Append(snap[s], s)]
    /\ Goto(s, "done")
    /\ UNCHANGED <<held, overlapped, snap, current, made, described, idle,
                   swept, reading, delivered>>

-----------------------------------------------------------------------------
(* pendingStoreTicker, time and the end of the connection.                 *)

GoesIdle(t) ==
    /\ t \in 1..made /\ ~idle[t]
    /\ idle' = [idle EXCEPT ![t] = TRUE]
    /\ UNCHANGED <<handler, held, overlapped, snap, current, made, described,
                   buffer, swept, reading, delivered>>

Sweep ==
    /\ current # 0 /\ idle[current] /\ reading
    /\ current' = 0 /\ swept' = TRUE
    /\ UNCHANGED <<handler, held, overlapped, snap, made, described, buffer,
                   idle, reading, delivered>>

\* The context ends: the reader and the ticker return, and whoever is sending
\* on the channel waits for good.
Ends ==
    /\ reading
    /\ reading' = FALSE
    /\ UNCHANGED <<handler, held, overlapped, snap, storeVars, delivered>>

-----------------------------------------------------------------------------
Handle(s) == Check(s) \/ Send(s) \/ Describe(s) \/ RangeOver(s) \/ Flush(s)
             \/ Clear(s) \/ Load(s) \/ AppendPending(s)

Next ==
    \/ \E s \in Signals : LookUp(s) \/ Pass(s) \/ Handle(s)
    \/ \E t \in Stores : GoesIdle(t)
    \/ Sweep \/ Ends

Spec == Init /\ [][Next]_vars

-----------------------------------------------------------------------------
(* Properties.                                                             *)

\* No candidate reaches the listener before a description: pion "has nothing to
\* attach them to before a remote description is set" (conn.go:60-61).
CandidatesAfterDescription ==
    \A i \in 1..Len(delivered) :
       delivered[i] \in Candidates =>
          \E j \in 1..(i - 1) : delivered[j] \in Descriptions

\* As long as no two callbacks overlapped, no signal is passed on twice, even
\* when the description is repeated (conn.go:90-93).
NoneTwice ==
    ~overlapped =>
       \A i, j \in 1..Len(delivered) : delivered[i] = delivered[j] => i = j

\* Candidate c was received and its callback has returned, but it was not passed
\* on and its store was not dropped for being idle.
LeftBehind(c) ==
    handler[c] = "done" /\ ~swept /\ \A i \in 1..Len(delivered) : delivered[i] # c

\* Every callback has returned, one for a description among them.
Settled ==
    /\ \A s \in Signals : ~Active(s)
    /\ \E d \in Descriptions : handler[d] = "done"

\* "Candidates that race ahead of that description over this unordered signaling
\* channel are buffered here until it arrives" (conn.go:58-60): once a
\* description and everything received with it was handled, no candidate is
\* left behind, as long as no two callbacks overlapped.
NoneStranded == Settled /\ ~overlapped => \A c \in Candidates : ~LeftBehind(c)

\* Every signal is passed on exactly once, as long as no two callbacks overlapped.
DeliveredOnce == NoneTwice /\ NoneStranded

\* NoneStranded without the condition, as the comment has it.  Violated: jrpc2 runs
\* callbacks concurrently and trySend takes no lock, so a candidate that read
\* the flag before the description set it is buffered after the buffer was
\* emptied.
NeverStranded == Settled => \A c \in Candidates : ~LeftBehind(c)
=============================================================================
