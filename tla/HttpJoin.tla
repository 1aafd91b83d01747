------------------------------- MODULE HttpJoin -------------------------------
(***************************************************************************)
(* bridge/nnserver.go, bridge/nnendpoint.go and bridge/directip.go: a join *)
(* over HTTP signaling.  The dialing side posts its offer, the serving     *)
(* side hands it to the nethernet.Listener and holds the request until the *)
(* listener calls Signal with the answer, which is the response.           *)
(*                                                                         *)
(* One identity j stands for one join through all its parts: the dial, the *)
(* HTTP request, the goroutine of handleOffer and the connection the       *)
(* listener (external) makes for it.  The connection ID negotiate draws at *)
(* random is taken to be new.  SDP bodies are abstracted to the join they  *)
(* belong to.                                                              *)
(***************************************************************************)
EXTENDS Naturals

CONSTANTS
    Joins,     \* joins attempted
    Clients    \* the clients' own network IDs, in the path of the request

VARIABLES
    client,    \* client[j]: the network ID the dialer of j uses
    dial,      \* dial[j]: the dial
    step,      \* step[j]: where handleOffer is
    status,    \* status[j]: the response it has written
    due,       \* due[j]: negotiationTimeout is over
    pending,   \* pending[k]: the request whose channel is under key k, or {}
    ch,        \* ch[j]: what is in the channel of request j
    conn,      \* conn[j]: the listener's connection
    sig,       \* sig[j]: a call of Signal on its behalf
    notifier,  \* a listener is registered and accepts offers
    missed     \* history: joins whose answer found no request waiting

serverVars == <<step, status, due, pending, ch>>
listenerVars == <<conn, sig, notifier, missed>>
vars == <<client, dial, serverVars, listenerVars>>

Keys == Joins \cup Clients

\* What Signal is called with: the answer or the error of join j's connection.
Result == [type : {"answer", "error"}, of : Joins]
NoResult == [type |-> "none", of |-> {}]
\* A call of Signal: what it carries, and the request whose channel it found.
NoCall == [result |-> NoResult, to |-> {}]

Waiting == {"notify", "waiting", "abandon"}

TypeOK ==
    /\ client \in [Joins -> Clients]
    /\ dial \in [Joins -> {"idle", "posting", "answered", "failed"}]
    /\ step \in [Joins -> {"none", "reading", "lookup", "register", "return", "done"}
                           \cup Waiting]
    /\ status \in [Joins -> {"none", "ok", "refused", "unavailable", "timeout", "error"}]
    /\ due \in [Joins -> BOOLEAN]
    /\ pending \in [Keys -> {{}} \cup {{j} : j \in Joins}]
    /\ ch \in [Joins -> Result \cup {NoResult}]
    /\ conn \in [Joins -> {"none", "negotiating", "answered", "open", "gone"}]
    /\ sig \in [Joins -> [result : Result, to : {{r} : r \in Joins}] \cup {NoCall}]
    /\ notifier \in BOOLEAN /\ missed \subseteq Joins

Init ==
    /\ client \in [Joins -> Clients]
    /\ dial = [j \in Joins |-> "idle"]
    /\ step = [j \in Joins |-> "none"] /\ status = [j \in Joins |-> "none"]
    /\ due = [j \in Joins |-> FALSE]
    /\ pending = [k \in Keys |-> {}]
    /\ ch = [j \in Joins |-> NoResult]
    /\ conn = [j \in Joins |-> "none"] /\ sig = [j \in Joins |-> NoCall]
    /\ notifier = TRUE /\ missed = {}

Goto(j, s) == step' = [step EXCEPT ![j] = s]

-----------------------------------------------------------------------------
(* The dialing side: DialNetherNetBackend, httpSignaling.Signal.           *)

Dial(j) ==
    /\ dial[j] = "idle"
    /\ dial' = [dial EXCEPT ![j] = "posting"]
    /\ Goto(j, "reading")
    /\ UNCHANGED <<client, status, due, pending, ch, listenerVars>>

\* The dial's context ends, and with it the request's.
DialGivesUp(j) ==
    /\ dial[j] = "posting"
    /\ dial' = [dial EXCEPT ![j] = "failed"]
    /\ UNCHANGED <<client, serverVars, listenerVars>>

\* postSDPOffer returns: the answer is in a 200, anything else fails the dial.
Response(j) ==
    /\ dial[j] = "posting" /\ step[j] = "done"
    /\ dial' = [dial EXCEPT ![j] = IF status[j] = "ok" THEN "answered" ELSE "failed"]
    /\ UNCHANGED <<client, serverVars, listenerVars>>

-----------------------------------------------------------------------------
(* handleOffer and negotiate.                                              *)

Answer(j, st) == status' = [status EXCEPT ![j] = st]

ReadOffer(j) ==
    /\ step[j] = "reading"
    /\ Goto(j, "lookup")
    /\ UNCHANGED <<client, dial, status, due, pending, ch, listenerVars>>

\* The network ID is no uint64, or the offer empty, too large or cut off.
RefuseOffer(j) ==
    /\ step[j] = "reading"
    /\ Answer(j, "refused") /\ Goto(j, "done")
    /\ UNCHANGED <<client, dial, due, pending, ch, listenerVars>>

LookUpNotifier(j) ==
    /\ step[j] = "lookup"
    /\ IF notifier THEN Goto(j, "register") /\ UNCHANGED status
       ELSE Goto(j, "done") /\ Answer(j, "unavailable")
    /\ UNCHANGED <<client, dial, due, pending, ch, listenerVars>>

\* Mutant of KeyOf: the connection ID is left out of the key.
KeyOfClient(j) == client[j]

\* connectionKey is the client's network ID and the connection ID, which is new:
\* no two joins have the same.
KeyOf(j) == j

Register(j) ==
    /\ step[j] = "register"
    /\ pending' = [pending EXCEPT ![KeyOf(j)] = {j}]
    /\ Goto(j, "notify")
    /\ UNCHANGED <<client, dial, status, due, ch, listenerVars>>

\* NotifySignal: the listener begins to negotiate ...
OfferTaken(j) ==
    /\ step[j] = "notify" /\ notifier
    /\ conn' = [conn EXCEPT ![j] = "negotiating"]
    /\ Goto(j, "waiting")
    /\ UNCHANGED <<client, dial, status, due, pending, ch, sig, notifier, missed>>

\* ... or is closed, or at its limit, and declines.
OfferDeclined(j) ==
    /\ step[j] = "notify"
    /\ Answer(j, "unavailable") /\ Goto(j, "return")
    /\ UNCHANGED <<client, dial, due, pending, ch, listenerVars>>

TakeResult(j) ==
    /\ step[j] = "waiting" /\ ch[j] # NoResult
    /\ ch' = [ch EXCEPT ![j] = NoResult]
    /\ Answer(j, IF ch[j].type = "answer" THEN "ok" ELSE "error")
    /\ Goto(j, "return")
    /\ UNCHANGED <<client, dial, due, pending, listenerVars>>

\* Mutant of ContextDone: only the channel is watched.
ContextDoneNever(j) == FALSE

\* Time is up, or the client has closed its connection.
ContextDone(j) == due[j] \/ dial[j] # "posting"

ContextEnds(j) ==
    /\ step[j] = "waiting" /\ ContextDone(j)
    /\ Goto(j, "abandon")
    /\ UNCHANGED <<client, dial, status, due, pending, ch, listenerVars>>

\* Mutant of Abandon: the listener is not told.
AbandonSilently(j) ==
    /\ step[j] = "abandon"
    /\ Answer(j, IF due[j] THEN "timeout" ELSE "error") /\ Goto(j, "return")
    /\ UNCHANGED <<client, dial, due, pending, ch, listenerVars>>

\* An error signal has the listener give the connection up.
Abandon(j) ==
    /\ step[j] = "abandon"
    /\ conn' = [conn EXCEPT ![j] = "gone"]
    /\ Answer(j, IF due[j] THEN "timeout" ELSE "error") /\ Goto(j, "return")
    /\ UNCHANGED <<client, dial, due, pending, ch, sig, notifier, missed>>

\* The deferred delete, and the response is written.
Return(j) ==
    /\ step[j] = "return"
    /\ pending' = [pending EXCEPT ![KeyOf(j)] = {}]
    /\ Goto(j, "done")
    /\ UNCHANGED <<client, dial, status, due, ch, listenerVars>>

\* 15 seconds are over.
TimePasses(j) ==
    /\ step[j] \in Waiting /\ ~due[j]
    /\ due' = [due EXCEPT ![j] = TRUE]
    /\ UNCHANGED <<client, dial, step, status, pending, ch, listenerVars>>

-----------------------------------------------------------------------------
(* httpSignalingServer.Signal, called by the listener (external) with the  *)
(* answer, or with an error once a connection has failed.                  *)

\* The channel is looked up under pendingMu; the key may not be there any more.
Signal(j, type) ==
    /\ sig[j] = NoCall
    /\ \/ type = "answer" /\ conn[j] = "negotiating"
       \/ type = "error" /\ conn[j] \in {"negotiating", "answered"}
    /\ LET to == pending[KeyOf(j)]
           failed == type = "error" \/ to = {}
       IN  /\ sig' = [sig EXCEPT ![j] =
                        IF to = {} THEN NoCall
                        ELSE [result |-> [type |-> type, of |-> j], to |-> to]]
           /\ missed' = missed \cup
                          (IF to = {} /\ step[j] = "waiting" THEN {j} ELSE {})
           /\ conn' = [conn EXCEPT ![j] = IF failed THEN "gone" ELSE "answered"]
    /\ UNCHANGED <<client, dial, serverVars, notifier>>

\* ch <- signal: there is room for one.
SignalSent(j) ==
    /\ \E r \in sig[j].to : /\ ch[r] = NoResult
                            /\ ch' = [ch EXCEPT ![r] = sig[j].result]
    /\ sig' = [sig EXCEPT ![j] = NoCall]
    /\ UNCHANGED <<client, dial, step, status, due, pending, conn, notifier, missed>>

\* Its context ends while the channel is full.
SignalFails(j) ==
    /\ \E r \in sig[j].to : ch[r] # NoResult
    /\ sig' = [sig EXCEPT ![j] = NoCall]
    /\ conn' = [conn EXCEPT ![j] = "gone"]
    /\ UNCHANGED <<client, dial, serverVars, notifier, missed>>

\* ICE succeeds once the dialer has the answer: Accept returns the connection,
\* which goes to HandleConn.
Accepted(j) ==
    /\ conn[j] = "answered" /\ dial[j] = "answered"
    /\ conn' = [conn EXCEPT ![j] = "open"]
    /\ UNCHANGED <<client, dial, serverVars, sig, notifier, missed>>

\* The context of StartDirectIP ends: the HTTP server is closed, which ends
\* every request's context, and the listener.
Shutdown ==
    /\ notifier
    /\ notifier' = FALSE
    /\ dial' = [j \in Joins |-> IF dial[j] = "posting" THEN "failed" ELSE dial[j]]
    /\ conn' = [j \in Joins |-> IF conn[j] = "none" THEN "none" ELSE "gone"]
    /\ UNCHANGED <<client, serverVars, sig, missed>>

-----------------------------------------------------------------------------
HandleOffer(j) == \/ ReadOffer(j) \/ RefuseOffer(j) \/ LookUpNotifier(j)
                  \/ Register(j) \/ OfferTaken(j) \/ OfferDeclined(j)
                  \/ TakeResult(j) \/ ContextEnds(j) \/ Abandon(j) \/ Return(j)

Listener(j) == Signal(j, "answer") \/ Signal(j, "error") \/ SignalSent(j)
               \/ SignalFails(j) \/ Accepted(j)

Next ==
    \/ \E j \in Joins : \/ Dial(j) \/ DialGivesUp(j) \/ Response(j)
                        \/ HandleOffer(j) \/ TimePasses(j) \/ Listener(j)
    \/ Shutdown

\* The goroutine of a request runs, its time limit passes and a response that
\* was written arrives.  Nothing is assumed of the listener.
Fairness ==
    \A j \in Joins : /\ WF_vars(HandleOffer(j)) /\ WF_vars(TimePasses(j))
                     /\ WF_vars(Response(j))

Spec == Init /\ [][Next]_vars

FairSpec == Spec /\ Fairness

-----------------------------------------------------------------------------
(* Properties.                                                             *)

\* Signal "routes that answer to the parked channel" (nnserver.go:57-59): a
\* request is only ever given the result of its own connection, and no result
\* comes too early or finds the entry taken by another request of that client.
AnswersArrive ==
    /\ missed = {}
    /\ \A j \in Joins : ch[j] # NoResult => ch[j].of = j

\* "Tell the Listener to abandon the half-negotiated connection rather than
\* leaving it holding transports for a client that is no longer waiting"
\* (nnserver.go:229-230): a request that ended without an answer leaves no
\* connection behind, also when the answer arrives as the time runs out.
NoneHalfOpen ==
    \A j \in Joins : step[j] = "done" /\ status[j] \notin {"none", "ok"}
                        => conn[j] \in {"none", "gone"}

\* Every dial comes to an end, with an answer or an error, though the listener
\* may never produce anything (nnserver.go:40-42).
EveryJoinEnds ==
    \A j \in Joins : []<>(dial[j] # "posting")
=============================================================================
