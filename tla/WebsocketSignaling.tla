------------------------- MODULE WebsocketSignaling -------------------------
(***************************************************************************)
(* The websocket signaling transport (signaling/dial.go, signaling/conn.go)*)
(* from the moment bridge.Listen dials it to the end of its goroutines:    *)
(* DialContext itself, the reader, the pinger, and the one goroutine that  *)
(* Notify starts.  The reader hands each signal over an unbuffered channel *)
(* and waits there without watching any context.                           *)
(*                                                                         *)
(* The signaling server is external.  It sends the credentials at most     *)
(* once on a connection (read would close the ready channel twice if it    *)
(* sent them again), and signals numbered from 1 in the order it sent them.*)
(* A message that read only logs and skips, because it is of no known type,*)
(* does not decode, or is credentials not from "Server", is "skipped".     *)
(***************************************************************************)
EXTENDS Naturals, Sequences

CONSTANTS
    MaxSignals,  \* bound: signals the server sends
    MaxSkipped,  \* bound: messages that are skipped
    MaxInbox     \* bound: messages on the wire at a time

VARIABLES
    ctx,        \* the context DialContext was given, the process's, is alive
    dialer,     \* bridge.Listen's goroutine and what became of the Conn
    sock,       \* the websocket
    inbox,      \* messages sent and not read yet
    sent,       \* sent[k]: how many messages of kind k the server has sent
    stored,     \* the credentials are stored
    ready,      \* the ready channel is closed
    connCtx,    \* Conn.ctx is alive
    reader,     \* the goroutine of read
    holding,    \* the signal it is handing over, 0 for none
    notifier,   \* the goroutine of Notify
    pinger,     \* the goroutine of ping
    notified    \* the signals NotifySignal was called with, in order

dialVars == <<ctx, dialer, sock>>
wireVars == <<inbox, sent>>
connVars == <<stored, ready, connCtx>>
wsVars == <<dialVars, wireVars, connVars, reader, holding, notifier, pinger,
            notified>>

Kinds == {"credentials", "skipped", "signal"}
\* id is the number of a signal, 0 for the other kinds.
Messages == [kind : Kinds, id : 0..MaxSignals]

TypeOK ==
    /\ {ctx, stored, ready, connCtx} \subseteq BOOLEAN
    /\ dialer \in {"start", "waiting", "conn", "served", "stopped", "dropped",
                   "failed"}
    /\ sock \in {"none", "open", "dead"}
    /\ inbox \in Seq(Messages) /\ sent \in [Kinds -> Nat]
    /\ reader \in {"off", "reading", "storing", "announcing", "handing", "done"}
    /\ notifier \in {"off", "receiving", "notifying", "done"}
    /\ pinger \in {"off", "on", "done"}
    /\ holding \in 0..MaxSignals /\ notified \in Seq(1..MaxSignals)

Init ==
    /\ ctx = TRUE /\ dialer = "start" /\ sock = "none"
    /\ inbox = <<>> /\ sent = [k \in Kinds |-> 0]
    /\ stored = FALSE /\ ready = FALSE /\ connCtx = TRUE
    /\ reader = "off" /\ holding = 0 /\ notifier = "off" /\ pinger = "off"
    /\ notified = <<>>

-----------------------------------------------------------------------------
(* DialContext and its caller.                                             *)

\* Discovery, the environment and websocket.Dial succeed; the reader and the
\* pinger are started before anything has come over the websocket.
DialOk ==
    /\ dialer = "start" /\ ctx
    /\ dialer' = "waiting" /\ sock' = "open"
    /\ reader' = "reading" /\ pinger' = "on"
    /\ UNCHANGED <<ctx, wireVars, connVars, holding, notifier, notified>>

DialFails ==
    /\ dialer = "start"
    /\ dialer' = "failed"
    /\ UNCHANGED <<ctx, sock, wireVars, connVars, reader, holding, notifier,
                   pinger, notified>>

\* The select at the end of DialContext.  It does not look at Conn.ctx; when it
\* is the caller's context that ends, the websocket is left open.
DialReady ==
    /\ dialer = "waiting" /\ ready
    /\ dialer' = "conn"
    /\ UNCHANGED <<ctx, sock, wireVars, connVars, reader, holding, notifier,
                   pinger, notified>>

DialCancelled ==
    /\ dialer = "waiting" /\ ~ctx
    /\ dialer' = "failed"
    /\ UNCHANGED <<ctx, sock, wireVars, connVars, reader, holding, notifier,
                   pinger, notified>>

\* Serve runs on the connection: Notify starts its goroutine.
Notify ==
    /\ dialer = "conn"
    /\ dialer' = "served" /\ notifier' = "receiving"
    /\ UNCHANGED <<ctx, sock, wireVars, connVars, reader, holding, pinger,
                   notified>>

\* Nothing is served on it: attach fails, or runSession returns before Serve.
Drop ==
    /\ dialer = "conn"
    /\ dialer' = "dropped"
    /\ UNCHANGED <<ctx, sock, wireVars, connVars, reader, holding, notifier,
                   pinger, notified>>

\* The session is over, or the broker saw Conn.ctx end: the function Notify has
\* returned closes the websocket, and nothing else.
StopNotify ==
    /\ dialer = "served"
    /\ dialer' = "stopped" /\ sock' = "dead"
    /\ UNCHANGED <<ctx, wireVars, connVars, reader, holding, notifier, pinger,
                   notified>>

Shutdown ==
    /\ ctx
    /\ ctx' = FALSE
    /\ UNCHANGED <<dialer, sock, wireVars, connVars, reader, holding, notifier,
                   pinger, notified>>

-----------------------------------------------------------------------------
(* The server and the network.                                             *)

Send(kind, id) ==
    /\ sock = "open" /\ Len(inbox) < MaxInbox
    /\ inbox' = Append(inbox, [kind |-> kind, id |-> id])
    /\ sent' = [sent EXCEPT ![kind] = @ + 1]
    /\ UNCHANGED <<dialVars, connVars, reader, holding, notifier, pinger,
                   notified>>

SendCredentials == sent["credentials"] = 0 /\ Send("credentials", 0)

SendSkipped == sent["skipped"] < MaxSkipped /\ Send("skipped", 0)

SendSignal == sent["signal"] < MaxSignals /\ Send("signal", sent["signal"] + 1)

\* The connection breaks, or the server closes it.
Break ==
    /\ sock = "open"
    /\ sock' = "dead"
    /\ UNCHANGED <<ctx, dialer, wireVars, connVars, reader, holding, notifier,
                   pinger, notified>>

-----------------------------------------------------------------------------
(* read.                                                                   *)

\* Mutant of AfterRead: credentials that do not decode are announced all the same.
AfterReadUndecoded(kind) ==
    CASE kind = "credentials" -> "storing"
      [] kind = "skipped" -> "announcing"
      [] kind = "signal" -> "handing"

\* What the reader does next with a message of that kind.
AfterRead(kind) ==
    CASE kind = "credentials" -> "storing"
      [] kind = "skipped" -> "reading"
      [] kind = "signal" -> "handing"

\* What has arrived before the end may still be read.
ReadMessage ==
    /\ reader = "reading" /\ inbox # <<>>
    /\ inbox' = Tail(inbox)
    /\ reader' = AfterRead(Head(inbox).kind)
    /\ holding' = Head(inbox).id
    /\ UNCHANGED <<dialVars, sent, connVars, notifier, pinger, notified>>

StoreCredentials ==
    /\ reader = "storing"
    /\ stored' = TRUE
    /\ reader' = "announcing"
    /\ UNCHANGED <<dialVars, wireVars, ready, connCtx, holding, notifier,
                   pinger, notified>>

CloseReady ==
    /\ reader = "announcing"
    /\ ready' = TRUE
    /\ reader' = "reading"
    /\ UNCHANGED <<dialVars, wireVars, stored, connCtx, holding, notifier,
                   pinger, notified>>

\* Mutant of HandOver: a signal nobody is ready to receive is dropped.
HandOverOrDrop ==
    /\ reader = "handing"
    /\ reader' = "reading" /\ holding' = 0
    /\ IF notifier = "receiving"
       THEN notifier' = "notifying" /\ notified' = Append(notified, holding)
       ELSE UNCHANGED <<notifier, notified>>
    /\ UNCHANGED <<dialVars, wireVars, connVars, pinger>>

\* c.signals <- s meets ReadSignal, and Notify's goroutine calls NotifySignal.
HandOver ==
    /\ reader = "handing" /\ notifier = "receiving"
    /\ reader' = "reading" /\ holding' = 0
    /\ notifier' = "notifying" /\ notified' = Append(notified, holding)
    /\ UNCHANGED <<dialVars, wireVars, connVars, pinger>>

\* Mutant of ReadFails: the reader returns without cancelling Conn.ctx.
ReadFailsQuietly ==
    /\ reader = "reading" /\ sock = "dead"
    /\ reader' = "done"
    /\ UNCHANGED <<dialVars, wireVars, connVars, holding, notifier, pinger,
                   notified>>

ReadFails ==
    /\ reader = "reading" /\ sock = "dead"
    /\ reader' = "done" /\ connCtx' = FALSE
    /\ UNCHANGED <<dialVars, wireVars, stored, ready, holding, notifier, pinger,
                   notified>>

-----------------------------------------------------------------------------
(* Notify's goroutine and ping.                                            *)

NotifySignalReturns ==
    /\ notifier = "notifying"
    /\ notifier' = "receiving"
    /\ UNCHANGED <<dialVars, wireVars, connVars, reader, holding, pinger,
                   notified>>

NotifyEnds ==
    /\ notifier = "receiving" /\ ~connCtx
    /\ notifier' = "done"
    /\ UNCHANGED <<dialVars, wireVars, connVars, reader, holding, pinger,
                   notified>>

\* A ping that cannot be written is only logged, so that the pinger, too, ends
\* with Conn.ctx alone.
PingEnds ==
    /\ pinger = "on" /\ ~connCtx
    /\ pinger' = "done"
    /\ UNCHANGED <<dialVars, wireVars, connVars, reader, holding, notifier,
                   notified>>

-----------------------------------------------------------------------------
Dialer == DialReady \/ DialCancelled
Reader == ReadMessage \/ StoreCredentials \/ CloseReady \/ HandOver \/ ReadFails
Notifier == NotifySignalReturns \/ NotifyEnds
Server == SendCredentials \/ SendSkipped \/ SendSignal

Next == DialOk \/ DialFails \/ Dialer \/ Notify \/ Drop \/ StopNotify \/ Shutdown
        \/ Server \/ Break \/ Reader \/ Notifier \/ PingEnds

Spec == Init /\ [][Next]_wsVars

\* Each goroutine takes the steps it can take; nothing is assumed of the server,
\* of the network or of whoever ends the session.
Fairness ==
    /\ WF_wsVars(Dialer) /\ WF_wsVars(Reader)
    /\ WF_wsVars(Notifier) /\ WF_wsVars(PingEnds)

FairSpec == Spec /\ Fairness

-----------------------------------------------------------------------------
(* Properties.                                                             *)

\* The signals the listener is notified of are the ones the server sent, from
\* the first on, in order and each once: candidates never overtake their offer
\* on this transport, whether the listener is slow or not there yet
\* (conn.go:78-115, 133-147).
SignalsInOrder ==
    \A i \in 1..Len(notified) : notified[i] = i

\* A connection that DialContext has handed out has its credentials, so that
\* Credentials never returns nil without an error (conn.go:49-56, 88-96).
ReadyWithCredentials == dialer \in {"conn", "served", "stopped"} => stored

\* Once the websocket under a served connection is gone, whoever closed it, the
\* reader, the pinger and the goroutine of Notify all end: one that stayed would
\* pile up with every rebuild (conn.go:58-84, 117-143).
GoroutinesEnd ==
    []<>(dialer \in {"served", "stopped"} /\ sock = "dead"
         => reader = "done" /\ pinger = "done" /\ notifier = "done")

\* "If one transport fails to start the other is still used" (bridge/listener.go:
\* 47-48): a dial whose websocket died before the credentials came returns, so
\* that the other transport can be tried.  Violated: nothing but the credentials
\* and the process's context ends the wait (dial.go:76-81).
DialReturns == (dialer = "waiting" /\ ~connCtx) ~> dialer # "waiting"
=============================================================================
