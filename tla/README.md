# Verification of nether2rak

TLA+ models of nether2rak, the program that broadcasts a Bedrock server as a
joinable Xbox Live world and carries joining players to it. Each module is
translated from the Go source under `src/`; `PROJECT.json` maps every definition
to the lines it stands for. TLC checks the modules on small instances, TLAPS
proves the most important invariants for every value of the constants.

## 1. The system

nether2rak is one Go process. Per account it runs a *broadcast*: a loop that keeps
an Xbox Live session (the Friends-tab world) alive, listens for join signaling on
two transports, and either relays accepted players to a backend server or, in the
no-relay mode, only brokers the negotiation. Around that sit invitations,
friend management, status endpoints and a set of command-line tools.

| component | source | state it keeps | operations |
|---|---|---|---|
| broadcast loop | `broadcasts.go`, `main.go` (`runSession`) | backoff, failure count, session ID, NetherNet ID, renewal timer | start, rebuild, renew, count a failure, stop |
| RTA websocket | `xbl/rta.go` | connection ID, staleness, callbacks | connect, handle, force a reconnect |
| session document | `xbl/session.go` | world info, connection ID, nonces per member | create, update, refresh nonces |
| presence | `xbl/presence.go` | heartbeat goroutine | first post, heartbeat |
| token cache | `session/session.go` | Xbox Live, PlayFab and Minecraft tokens behind one mutex | get, renew, force a refresh |
| signaling listener | `bridge/listener.go` | transports or brokers of one session | listen, serve |
| no-relay broker | `bridge/norelay.go`, `norelay_identity.go` | pending offers, timers, slots in flight | offer, candidate, error, forward |
| messaging transport | `messaging/` | candidates that raced ahead of a description | receive, flush, tick, credentials |
| websocket transport | `signaling/` | credentials, signal channel | read, ping, notify |
| relay | `bridge/relay.go`, `proxy/` | registered players, both ends of a connection | accept, log in, copy packets, unregister |
| direct-IP listener | `bridge/directip.go`, `nnserver.go`, `nnendpoint.go` | pending HTTP negotiations, the cached server-list entry | offer, answer, time out, list |
| ping server | `bridge/pingserver.go` | latency per player | register, read, unregister |
| invitations | `invitewatcher.go`, `control.go`, `xbl/invite.go` | invite loop, its progress file | start, stop, resume, send |
| invite lists | `invitequeue/` | the queue, sent and accepted files | record, append, prune |
| friend manager | `xbl/friends.go`, `xbl/friendactivity`, `friendadder.go`, `friendsinviter.go` | friend list, last joins, queue of checks | accept, add, remove, invite |
| player-count drift | `drift.go` | the advertised count, when it last moved | read, which first moves it by the time passed |
| scraper | `cmd/scraper`, `xbl/join.go` | the player file, membership in the session it visits | visit worlds, record players, prune |
| tools | `cmd/*` | files of their own | friend and skin tools |

**How the parts interact.** `runBroadcast` starts the RTA goroutine, which lives
for the whole process and calls back into whatever session is current;
`runSession` builds a session, its listener, its presence heartbeat, an update
ticker and a renewal timer, and ends when any of them cancels the session's
context. The transports' goroutines call `NotifySignal` of the broker or of the
NetherNet listener. Accepted players outlive the session that accepted them. The
control HTTP server outlives sessions too and is pointed at the current session's
invite controller. Files (invite queue, invite state, friend activity, token) are
shared with the command-line tools.

**What is hard.** Reconnects of the RTA websocket at any moment of a rebuild; whole
documents written by three goroutines; timers that have fired and wait for a lock;
a key that is forgotten while its negotiation is still under way; slots that must
be released once on every path; candidates that overtake their description on an
unordered channel; HTTP requests aimed at an invite loop of a session that is being
replaced; several processes that rewrite one file through one temporary name; a
mutex held across a request to a remote service; goroutines that hand over on an
unbuffered channel to somebody who may have gone. `PROJECT.json` lists these as
hazards, at the line where they bite.

**What makes each part correct.** The broker gives back every slot it takes, once, and
holds no offer longer than `maxGather`. A session that serves has the RTA connection
that is alive, and shows it unless an older write lands late. The loop does not change
the advertised ID without need, does not renew in circles, and comes back after every
fault. The document ends up showing the current state. No
ICE candidate overtakes its description. There is one invite loop, and a stop stops
it. Friend requests are all answered, and no friendship is given up over an accept or
a repeat of it that was answered. A relayed player is in the registry exactly while
connected, and both ends of a relay end together. An HTTP join gets its own answer or
an error, and a failed one leaves nothing behind. What several processes record in one
file stays there, and only what may be dropped is. A token is renewed once, and kept
when it cannot be. The count shown is one a player can join at, and in the end the
real one. The scraper leaves every session it has joined.

## 2. Plan

Modelled, in this order: the broker (slots and timers), the broadcast loop
(staying alive) and the session document (what players see), because everything
depends on them; then what feeds them (both signaling transports, the token cache,
the player count), what runs beside them (invite loop, friend requests, friend
adder, friends inviter, the start of several broadcasts), what carries a player
(login, relay, HTTP join, server-list entry), and the files and sessions outside the
process (scraper, friend activity, invite lists). Theorems are in `...Proofs`
modules: of a component (SignalBroker, SignalInbox, InviteLoop), or of an MC module and
the components put together there (Loop, Session, Friends, Relay, Files).

Every safety invariant and every action property of the runs has a theorem. Next:

1. *State abstractly*: a "last writer wins" register for the session document and an
   "at most one holder" specification for the two invite loops, beside
   NegotiationSlots, and prove the steps of the refinements.
2. *Prove* type correctness of the modules whose proofs carry only part of it.
3. *Model*: `cmd/scraper`'s visit of a server by address, should it come to keep
   state of its own.

## 3. Modules

| module | code | its state | its actions |
|---|---|---|---|
| SignalBroker | `bridge/norelay.go` | `pending`, timers and deadlines, phase and outcome of each offer, `inFlight` | an offer refused or accepted, a candidate, a client's error, a timer firing and its goroutine taking the mutex, one action per network call of `forward`, the transport dying, a tick |
| NegotiationSlots | (abstract) | which offers hold a slot | refuse, take, release |
| SessionLoop | `broadcasts.go`, `main.go`, `xbl/rta.go`, `xbl/presence.go`, `xbl/session.go`, `session/session.go`, `bridge/listener.go` | step of the loop, backoff, failure count, RTA connection and its callbacks, document's connection, writes of it under way and given up on, NetherNet IDs, token age, timers | one per step of `runBroadcast` and `runSession`, the RTA goroutine's, the ticker's, a write landing, failing, or landing after its sender has given up, the timers', shutdown |
| SessionDocument | `xbl/session.go`, `xbl/rta.go`, `main.go` | local nonces, connection and version, the request of each of three goroutines, the document, members | build and send, land, fail, join, leave, event, drop |
| SignalInbox | `messaging/conn.go` | stores, their buffers and flags, where each callback is | every read and write of `handleCallback` and `trySend`, idling, the sweep, the reader's end |
| InviteLoop | `invitewatcher.go`, `control.go`, `main.go` | controllers, loops, state file, routed requests | install, resume (read, start), end, route, start, stop, an invite, its record, restart |
| FriendRequests | `xbl/friends.go` | timer, trigger, queue, rate limit, scans, worker, Xbox Live's lists | push, wake, scan, queue, accept, clear |
| FriendAdder | `friendadder.go` | the run of each account, `.added_friends`, requests made | start, stop, each step of `run`, restart |
| LoginLink | `proxy/proxy_conn.go`, `proxy/dial.go`, `bridge/relay.go` | four ends, their codecs, batches under way | ReadLoop's handlers in either role, ForwardIdentity, the pumps, the two outer peers |
| PlayerRelay | `bridge/relay.go`, `bridge/pingserver.go` | step of each HandleConn, its pumps, the registry | accept, log in, register, dial, pump, unregister |
| HttpJoin | `bridge/nnserver.go`, `nnendpoint.go`, `directip.go` | dials, requests, `pending`, listener's connections | dial, offer, negotiate, Signal, time out, respond, shut down |
| PlayerFile | `cmd/scraper` | both files, both handles, the prune's progress | discover, append (two writes), each step of `pruneExpired`, restart |
| WebsocketSignaling | `signaling/conn.go`, `dial.go` | the dial, the reader with the signal it holds, pinger, notifier, what is on the wire | dial and its outcomes, read, store credentials, hand over, notify, close, break |
| TokenCache | `session/session.go` | each token with its age, the mutex, where each caller is | every method under the mutex, every request with its outcomes |
| Broadcasts | `broadcasts.go`, `main.go` | the extra broadcasts configured, where each one is, owners of accounts | resolve, start, progress or fail, claim an XUID, end |
| PlayerCount | `drift.go`, `main.go`, `bridge/directip.go` | the drifting count and its clock, the real count shared, updates under way | read, move, poll, swap, update, land, fail |
| ServerList | `bridge/directip.go` | the cached entry and its age, the mutex, requests | lock, hit, miss, fetch, serve, a requester gone |
| FriendsInviter | `friendsinviter.go` | controllers of successive sessions, loops, their lists and positions | start, stop, rebuild, list, invite, skip, end |
| FriendActivity | `xbl/friendactivity`, `cmd/friends/pruneinactive` | the file, the temporary file, the map in each process, the tool's list | open, record, merge, write a line, rename, fail, crash, remove a friend, forget |
| InviteRecords | `invitequeue/` | queue, sent and accepted files, what each process remembers, invites about to be recorded, joins and prunes under way | send an invite (to be recorded or not), read the file, record the invite or fail to, a join in its steps, a prune in its steps, restart |
| ScrapeVisit | `cmd/scraper`, `xbl/join.go` | round and world, stage of the visit, what is open, membership | list, join, wait for the nonce, dial, spawn, record, close, leave |

Five MC modules put components together, for TLC and for the proofs. Each EXTENDS the
module of one component, INSTANCEs those of its neighbours, and passes their constants
on to the cfg, so that the theorems hold for every value of them. `MCSafe` is the
specification without its fairness (in MCFiles, which has none, `MCSpec` is). The parts
put together share no state:
`focus` says which of them a behaviour is about, that one takes all the steps and
the others stay in an initial state, so the run explores the sum of the state spaces
and no product. Nothing is lost by it: interleaving steps of parts that share nothing
adds no behaviour to any of them. Fairness is each part's own, with `focus` in its
guard. A property of an instance holds of it at rest as well, or says `focus` itself.
Where parts do meet, one module has both: SessionLoop the token as the loop uses it,
PlayerCount the updates of the document, PlayerRelay the outcomes of the login.

Conventions. What a handler does under one lock is one action; a network call, a
lock given up, a read that another goroutine may overtake separates actions. A
remote call is an action with every outcome the code tells apart. History
variables are commented `history:` and no guard reads them. Definitions that end
in the description of a defect (`...Denies`, `...Unarmed`, and so on) are
plausible mistakes, listed as mutants in `PROJECT.json`: put in the place of the
definition named there, each makes TLC find the property violated.

## 4. What the runs check

| run | asks | bounds, and why they are enough |
|---|---|---|
| broker | JoinsAndReplies, Bookkeeping (PendingCoherent and InFlightExact), SlotsReleased; ImplementsSlots: the broker implements NegotiationSlots | 2 offers, 2 keys (so they share a key or not), 1 slot (so one is refused), 1 candidate, gather limit 3 with a quiet time of 2 (so the limit cuts the quiet time short), verifier and allow list on |
| loop | SessionLoop: ServingConnectionLive, StableIDWithoutFailure, NoRenewalLoop; Broadcasts: BroadcastsApart; TokenCache: TokensSpared, CallsReturn; ServesUntilStopped of the first two | loop: 1 RTA drop (a second connection for the writes of the first to meet), 1 time that a token is seen to have aged (renewable or past its time at once), backoff cap 2 (reached, and stayed at), forced refresh after 2 failures. Start: two extra broadcasts in six configurations, well formed and not, 2 accounts (so that some share one), 1 fault. Tokens: 2 callers, lives of 2 ticks in 3, 2 failures (one to lose a token, one after it) |
| session | SessionDocument: NoncesCurrent, NoncesReachDoc, DocumentSettles; PlayerCount: AdvertisedCount, RealCountShown; ScrapeVisit: NothingLeftBehind, EveryWorldTried | document: 1 member with 3 connections (join, rejoin, and one in the middle of a refresh), 1 change of the local state, 1 RTA drop. Count: 2 broadcasts, six settings (real, fixed, drifting, and at odds with themselves or max_players), 1 change of the backend. Visit: 2 worlds, 2 rounds, 2 faults |
| inbox | CandidatesAfterDescription, DeliveredOnce | 2 candidates, offer, answer, other signal, 2 stores (one dropped while held) |
| invites | OneLoop, StopHonoured, EveryoneHasTurns | 2 players, 1 list edited once, 2 controllers and 2 loops whose identities are used again (an old and a new of each, and rebuilds go on for ever), 1 request under way at a time |
| friends | FriendRequests: WakeupKept, FriendsKept, EveryoneAnswered; FriendAdder: AdderExact; FriendsInviter: OneInviter; RunsComplete of the last two | requests: 2 people, queue of 1 (so it is full), 2 requests, 1 answer 429, any number of errors and lost answers; `Direct` is off, as EveryoneAnswered is about the scan loop doing without the second scanner of `cmd/scraper`; the theorems hold with it too. Adder: 1 account, itself and 2 players, 2 runs, 2 failures (its limit), 1 answer 429, 1 restart. Inviter: 2 friends, 2 sessions, 2 starts, 1 failure |
| relay | PlayerRelay: RegistryCurrent, GoneIsDone; LoginLink: LoginSound, JoinsOrIsTold; HttpJoin and WebsocketSignaling: SignalingDelivers, NothingLingers; ServerList: ShowsBackend | relay: 2 connections, 2 players of whom 1 is allowed: also two connections of one player. Login: 2 packets up, 4 down with the status packet in between, every way to batch packets of the game, encryption on or off on each side. HTTP: 2 joins of one client, as no action tells clients apart (that keys could do so wrongly is a mutant). List: 2 requests, TTL 2, counts 0 and 1 and a failure. Websocket: 3 signals, 1 message to skip, 2 on the wire |
| files | PlayerFile: PlayersKept; FriendActivity: JoinsKept; InviteRecords: AcceptedRight; DropsJustified, of the last two | players: 2, one expiring while the other is appended; unlimited prunes and restarts. Activity: 2 relays and the tool, 2 friends, 2 joins, 1 crash, a window of 1 in 3 ticks. Invites: 2 relays that die at any step, 2 players, 2 invites (of one player or of two, recorded or not), 1 join and 1 prune at a time, expiry after 1 tick |
| inbox_stranded | NeverStranded, which fails | 2 candidates, 1 offer, 1 store |
| dial_hangs | DialReturns, which fails | as websocket in relay |
| activity_truncated | NeverTruncated, which fails | as activity in files, without crashes |
| token_panics | NeverPanics, which fails | as tokens in loop |

Each property has a comment in its module that states it and names the code. A
property of an MC module is the conjunction of the properties of its parts it names,
and has a mutant for each of them. `TypeOK` of a module documents the shape of its
state; that of SignalBroker, SessionLoop and SessionDocument is proved, and the other
proofs carry the part they need, often with finer types. Symmetry is used in files
alone (`Alike`): its relays and its invited players are model values that no definition
tells apart, and its properties are invariants and an action property. Deadlock is not
checked: counters are bounded, and the systems may really end (shutdown, the player
gone, all joins answered, a part at rest).

**Fairness** is assumed of what the Go runtime or a timeout guarantees, and of
remote services only "not for ever":

- broker: the clock, every timer and its goroutine, every network call of `forward`
  (each bounded by `negotiationTimeout`). Nothing of clients.
- loop: the RTA goroutine and the loop's own steps, the end of their writes among
  them, Serve's return once its context is cancelled, the renewal timer, and presence
  reaching Xbox Live. Nothing of when the ticker ticks or its writes end, nor of a
  transport that dies. Faults are bounded by MaxDrops, MaxAges, and by the premise of
  ServesUntilStopped that they cease; one of them is a write that was given up on and
  replaces a newer one. A dial that hangs is exempt (see `dial_hangs`). The start:
  setting up, starting the extras, and every broadcast's own steps. Tokens: every
  request of a caller ends, and strong fairness for the mutex, which Go hands to a
  waiter in the end. Requests go through `http.DefaultClient`, which has no time
  limit: that Xbox Live answers, if only with an error, is an assumption on Xbox Live,
  and CallsReturn rests on it.
- session: the document's goroutines and the end of each request; strong fairness
  that one of the ticker's requests lands: it sends again at every tick. The count:
  the steps of one broadcast's ticker and strong fairness for its polls and updates
  to get through; nothing of the other broadcast. The visit: its steps, each bounded
  by a timeout in the code or by the context.
- invites: installing, resuming, serving a routed request, the loop; strong fairness
  for a cancelled loop to see that it is, since `select` may prefer its timer a
  few times. Nothing of requests or of rebuilds.
- friends: timers, worker, scan; strong fairness that the list of requests is
  answered and each person's accept or clear gets through. Nothing of pushes:
  polling alone must do. Adder and inviter: the run; strong fairness for a cancelled
  loop to see that it is.
- relay: HandleConn, except while it waits for the login of a client who has not
  closed, and pumps seeing a closed connection. Login: all four ends. HTTP:
  handleOffer, the time limit and the response; nothing of the listener. List: the
  clock, the holder of the mutex (the fetch has a time limit), strong fairness for
  the mutex. Websocket: dialer, reader, notifier and pinger; nothing of the server.
- inbox and files check safety only, without fairness.

## 5. What is proved

TLAPS checks the theorems listed in `PROJECT.json` for every value of the constants.
The bounds on counters stay in the guards, and the theorems hold for every bound.
The only assumptions are the named ASSUMEs: bounds are natural numbers (positive
where a capacity or a cap), sets that are counted are finite, streams of packets have
a length, and a null value is not a member of the set beside it. Each invariant of a
run is a consequence of an inductive one, which a step of every action is shown to
keep; what follows says what that one adds, and why it is needed.

- **SignalBroker.** `TypeOK` alone does not keep an offer within its deadline. The
  inductive step is PendingCoherent: `pending` maps exactly the gathering offers, and
  each has a timer armed before its deadline or a goroutine waiting for the mutex;
  GatherDeadline is a consequence, and with InFlightExact it makes Bookkeeping.
  JoinsAndReplies needs ForwardProgress (what is
  known at each step of `forward`). For InFlightExact a lemma says what any step does
  to the set of offers that hold a slot (none, one in, one out) and cardinality
  theorems turn that into the counter. The refinement of NegotiationSlots follows
  from the same lemma.
- **SessionLoop.** TypeOK in three parts (flags, loop, connections). A serving session
  has the connection that is alive, and its document shows it unless a write built
  before that connection was taken over has landed since (`overtaken`): the code
  cannot call such a write back, so ServingConnectionLive says no more. The invariant
  has two parts. Dated: no write under way or given up on shows a connection newer
  than the session's, and one that shows another was overtaken. Reconciled: an
  uncancelled session has its callback registered, a write of that callback shows the
  RTA's own connection, and from the landing of Create's write on the document is the
  session's or an overtaken write's, but while the callback is at it. So a callback
  that returns leaves no write of its own behind but one that landed, or a session
  cancelled. IDKept says the same of the NetherNet ID at every step of the loop as
  long as websocket signaling has not failed; RenewedIsFresh ties the renewal to the
  token.
- **Broadcasts.** KeptApart: what has been resolved so far has a token file and no two
  of it share a name. Claimed: a broadcast past `claimXUID` owns the account of its
  token, so two that share one cannot both be past it.
- **TokenCache.** OneRenews: whoever is in what the mutex guards holds it, and a token
  found past its time is past it until it is exchanged. That is why the second of two
  callers exchanges nothing: it looks again under the mutex.
- **SessionDocument.** Owed: a nonce that differs from the member's connection is
  owed by a notification still to be handled, by a fetch under way, or by a snapshot
  to be applied that has the current connection, unless the event was lost.
- **PlayerCount.** CountInv: a drifting count is in the range of its settings, whatever
  they are and however much time has passed at once; what a broadcast is writing is
  joinable; there was at most one move per interval up to the last one.
- **ScrapeVisit.** VisitInv says of each stage of a visit what is open and in which
  sessions the account is: until the join and after the return only where it went
  astray.
- **SignalInbox.** For the order, Known: a store flagged as described, and a callback
  about to send, imply that a description has been passed on. No lock is needed for it.
  That nothing is passed on twice or left behind does need one callback at a time
  (Alone), and ties what is buffered to what is passed on: a candidate waits in one
  buffer, once, and is not passed on yet (Waiting), except while a description is being
  flushed, when this holds of the rest of the buffer (Flushing); without a sweep there
  is one store, and every candidate handled is passed on or in it (Kept).
- **InviteLoop.** Linked: a loop that runs and is not cancelled is the one its
  controller would cancel. With it, starting a loop ends the one before it.
  StopHonoured is about requests that raced neither a rebuild nor each other: then a
  request finds the session it was routed to, the file says "running" only while the
  controller has a loop to cancel, and a session that resumes one still should
  (Orderly); after a stop nothing runs and no start is under way (Quiet).
  PositionOnItsList needs only the file's shape.
- **FriendRequests.** WakeupInv adds that a push during a scan is still in the
  trigger; KeptInv that a deny under way is of somebody never accepted, or of
  somebody a PUT for whom was answered with an error or not at all (`unsure`), the PUT
  of a second entry in the queue included.
- **FriendAdder.** An account has one run, the one Stop would cancel (OneRun). Whom
  an account has reached is in the file, about to be written down, or the answer was
  lost (WrittenDown); what a run still has to do has none of them but whom it is
  just writing down (Worklist); whoever is in the file was reached by some account
  (FileTrue).
- **FriendsInviter.** InviterInv: a loop that is not cancelled is the one its
  controller holds, and a cancelled one has at most the invite it was sending.
- **PlayerRelay.** RegInv: the types, that a connection past its login has a player,
  NoStaleEntry and LastRegistered, which hold each other up, and LegsOwned: the leg of
  an entry is that of a connection past its login, whose player cannot change any
  more. RegistryCurrent is what they amount to.
- **HttpJoin.** Parked and Routed: a waiting request is in `pending` under its own
  key, nobody else is, and a result on its way or in its channel is its own. Undialed
  and Tied: the listener has a connection only once it has the offer of a join that
  was dialed, and it is gone when its request is to get, or got, an error.
- **WebsocketSignaling.** InOrderInbox: what is on the wire are the signals from the
  next one to notify up to the last one sent, in that order. StoredFirst: credentials
  are stored before anybody is told of them.
- **LoginLink.** A link between two ends is at one of seven stages (Apart, Asking,
  Replied, LoggingIn, Challenged, Answering, Settled), each of which says what the two
  codecs are set to and which packet of the login is first in what is under way. Only
  the receiver of that packet can act, and the stages around it agree: every batch on a
  wire was encoded as its receiver decodes (Agreed), which would fail if either end
  switched a packet too soon or too late. The order needs more than what has arrived:
  DownPath and UpPath cut a stream into consecutive stretches (got at the end,
  pending, on the wire or deferred at each hop), with every stretch where it belongs.
  Deferred packets are a stretch between what was pumped and what is on the wire,
  and ForwardIdentity hands them on in that place. SetUpBeforeBackend is Settled read of the
  player's link: the relay turns to the backend (Turns) when that link is settled, both of
  its ends compressing and encrypting as configured. Lemmas about stretches (Part),
  their chains and the steps that move the border of one (send, read, defer, pump)
  carry the proof; there is one lemma per handler of ReadLoop.
- **PlayerFile.** AppendInv and PruneInv: an append has the first of its two lines in the
  file unless it met a prune; a prune replaces nothing but lines it has read, but for
  players with bad luck, whom PlayersKept exempts; so also when the prune is cut off
  between its renames.
- **InviteRecords.** SentInv: the file has the first line of everyone with an invite on
  record, as clock and line are taken under one lock. MemoryInv: whom a relay takes to be
  recorded has a line, or is one whose line it could not write; whoever is about to be
  recorded, or is on record, had got an invite by then. AcceptedInv: a line of a join,
  or one about to be written, has the time of the first invite on record, and a join that
  began after it and ran to its end is listed. The three hold through a restart at any
  step, since what it forgets (whom it was about to record, joins in flight) is
  promised by none of them.
  QueueInv: who had joined when a prune began is among those it knows of when it
  decides, so that only expired lines go, and those appended meanwhile.
- **FriendActivity.** Without an overlap one process at a time is updating, the file
  shows the last joins put in place, an update has read no less (Newer), and the lines
  it has written are what the temporary file holds (Written); so a rename puts in place
  the last joins and its own, also after a crash left a part of a file behind. ToolInv:
  whom `pruneinactive` still has on its list was away, or has come back since. That
  the lines of a map lead back to it (LinesFacts) rests on lemmas about the sort: players
  have one place each (PlaceOne), and every place has a player (PlaceAll).

**Only model-checked**: everything temporal beyond invariants and action properties
(SlotsReleased, ServesUntilStopped, CallsReturn, NoncesReachDoc, DocumentSettles,
RealCountShown, EveryWorldTried, EveryoneHasTurns, EveryoneAnswered, RunsComplete,
GoneIsDone, JoinsOrIsTold, ShowsBackend, NothingLingers), because liveness under
fairness and ENABLED are beyond the prover. What a recursive definition computes for
every input is out of its reach as well; the modules have none. The four violation
runs are counterexamples, and are TLC's alone.

## 6. Where code and comments disagree

Four violation runs show one each.

- `inbox_stranded`: with overlapping callbacks (`messaging/conn.go`) a candidate is
  buffered after the description's flush, or cleared unsent with it, and never
  reaches the listener. inbox shows that this needs an overlap: without one nothing
  is lost or passed on twice.
- `dial_hangs`: DialContext waits for the credentials or its caller's context
  (signaling/dial.go:77). A websocket that closes first is noticed by neither, so
  Listen does not return, where listener.go:47 has the other transport used.
- `activity_truncated`: processes that share the friend activity file share the name
  of the temporary file too (friendactivity.go:170), and one may rename into place
  what the other has just emptied, where friendactivity.go:167 says a reader never
  sees a truncated file. JoinsKept shows that without such an overlap nothing is
  lost, through crashes and failed writes.
- `token_panics`: a PlayFab login that fails on a refresh overwrites the identity
  held with nil (session.go:125), and the next call reads through it. The comment at
  session.go:143 describes this very mistake for the other token, which TokensSpared
  shows to be safe from it.

Others were met while modelling. The models follow the code, and where a property
had to make an exception for one of them its comment says so.

- Broker: `forward` takes the key out of `pending` first (norelay.go:256), so a second
  offer of a connection still being negotiated is accepted and makes a second
  request; norelay_broker_test.go:349 and 358 say a duplicate never does. Timers go
  by key (norelay.go:250), so one of an earlier offer under the key that has fired
  late takes the newer offer before its `candidateQuiet` (norelay.go:53) is over.
- Loop: when websocket signaling fails, Listen returns the ID 0 (listener.go:133) and
  the next pass mints another, where listener.go:51 and broadcasts.go:217 say it is
  kept for the life of the process. A pass that ends before Serve (main.go:435) does
  not close the listeners it opened; main.go:543 has them torn down when the
  session's context ends.
- Document: updates do overlap, the RTA goroutine's (main.go:406) with the ticker's
  (main.go:524), where main.go:488 says they never do, and the older may land last. Then
  a session shows the connection it has replaced, so ServingConnectionLive makes an
  exception for `overtaken` writes; the next tick repairs it.
- Invitations: a stop that arrives while a session is rebuilt can be undone by the
  resume, where invitewatcher.go:420 has start and stop always reflect what runs; a
  start served by the old controller leaves
  `running` set with no loop until the next session; a loop resumes at process start
  (main.go:475), where invitewatcher.go:33 has it stopped every time.
- Friends: any answer without isFriend, whatever its status, counts as not accepted
  (friends.go:231), so an accept without an answer (friends.go:220), and an error for
  a second entry of somebody accepted since, have the request cleared by a delete that
  ends the friendship, where friends.go:243 speaks of one that failed to establish.
  FriendsKept is that nothing else ends one; friendCheckMinInterval does not bound all
  scans as friends.go:31 says; CheckPending does not share the rate limit as
  friends.go:162 says.
- Friend adder: `.added_friends` is read and written by all accounts
  (friendadder.go:121), where friendadder.go:39 has it record whom this account asked.
  So a start may find nothing to do because of whom another account has asked
  (NothingLeft says this).
- Relay: the time limit that is to spare a player an endless loading screen
  (relay.go:50) is on the dial and not on ForwardIdentity (relay.go:188). The backend
  leg is registered by XUID (pingserver.go:64), so an older connection's may end up in
  a newer one's entry. When the newer of a player's two connections ends first, the
  player is no longer listed as connected (pingserver.go:80 against 144).
- HTTP join: a listener's error is answered with status 400, where nnserver.go:181
  says it is parsed out of a 200.
- Server list: a fetch that failed because its requester went away is cached like an
  answer, and the configured values are shown to everybody for three seconds.
- Websocket: a second message of credentials would close `ready` twice and panic
  (conn.go:97); the service is taken to send one. A connection that is dialed and
  never served keeps its reader, which waits to hand over a signal nobody takes.
- Player count: drift.go:130 has a change pushed to Xbox Live as soon as it is seen;
  this holds for the broadcast whose Swap sees it, the others push it with their
  next update.
- Broadcasts: an extra one signed in to the primary's account may claim it first
  (broadcasts.go:103); the primary then exits the process and all others with it,
  where main.go:260 says a problem with one never stops the others. The prompt for a
  device code does not watch the context. An RTA connection that takes longer than ten
  seconds at the start ends an extra broadcast for good, while its goroutine goes on.
- Friends inviter: a loop is not resumed after a rebuild of the session.
- Friend activity: pruneinactive reads the file once and removes friends who join
  while it works (RemovalJustified exempts them).
- Invite lists: an invite is sent before it is recorded (invitewatcher.go:371, 374).
  One whose process dies in between or whose answer is lost is never on record, nor is
  one by the friends inviter, which records none (friendsinviter.go:112); RecordSent
  remembers a player before it writes the line and ignores a failure to
  (accepted.go:49), so that one is not tried again by that process. The joins of these
  players are not listed, where accepted.go:6 speaks of every invited player who later
  joined; JoinsCounted is about invites on record. Entries appended to the queue
  during a prune are lost, overlapping prunes of two broadcasts share a temporary
  name, and two joins of a player at once may write two accepted lines.
- Scraper: an append between a prune's read and its reopen is lost; a time line left
  by a prune cut off between its renames makes a player recorded again expire at the
  next prune; a failed reopen leaves the handles closed until the next prune.

## 7. What the models leave out

- SessionLoop keeps of the document the connection it shows (the rest is
  SessionDocument's), looks at late writes from the request of the handle on, does not
  follow transports that an early return leaves open, and leaves the start of the
  broadcasts to Broadcasts.
- SessionDocument leaves out the fallback to a member's XUID for its connection.
  `missed` exempts members whose event was lost with the RTA connection.
- SignalInbox follows one connection ID. That jrpc2 runs callbacks on goroutines of
  their own is taken from how the code uses it.
- InviteLoop runs with one list in its run; the interval, the status route and the
  renaming of older state files are left out. `raced` marks requests that met a
  rebuild or each other, of which StopHonoured says nothing.
- FriendRequests: that a PUT for an existing friend answers isFriend is external.
- FriendAdder: failures to open or to write the file are left out.
- PlayerRelay: the login is one step with two outcomes and a packet copied changes
  nothing.
- LoginLink: the outer peers follow the protocol, and nothing is shown of a player or a
  server that does not; cryptography is "the codecs agree";
  packets outside the pool are left out.
- HttpJoin: the listener is external and connection IDs never collide.
- PlayerFile: players appended while a prune runs are exempt (`unlucky`), see above.
- WebsocketSignaling: sending a signal is one remote call and left out.
- TokenCache: key material and the contents of requests are left out, and so is the
  first login by device code.
- Broadcasts: a broadcast that serves goes on; its rebuilds are SessionLoop's.
- PlayerCount: where the drift goes is any place within reach of its steps.
- InviteRecords: one join per slot and one prune at a time; RecordSent's look at the
  clock and its line, under one mutex, are one step.
- ScrapeVisit: a leave that Xbox Live refuses, and a join whose answer is lost, are
  exempt from NothingLeftBehind; Xbox Live expires such a membership itself.
- SDP and identity texts are abstracted to what the handlers decide by them.
  Configuration (a sequential function of one file), single HTTP requests, encodings
  and the one-shot tools keep no state. The scraper's visit of a server by address,
  its game connections and resource packs belong to libraries.
