------------------------------ MODULE LoginLink ------------------------------
(***************************************************************************)
(* proxy/proxy_conn.go, proxy/dial.go: the two logins of one relayed       *)
(* player, and the packets of the game behind them.  The player logs in to *)
(* the relay's client-facing side (Door); then the relay logs in to the    *)
(* backend (Back); then bridge/relay.go pumps packets between the two.     *)
(*                                                                         *)
(* ReadLoop serves both roles, so its handlers are written once, for any   *)
(* end of a link.  Player and Backend are outside the repository.  They    *)
(* are taken to follow the protocol, in the way Door and Back answer them, *)
(* and are free in how they put packets of the game into batches.  Nothing *)
(* is shown of a player or a backend that does not follow it: that a login *)
(* which is not genuine is turned away is not a subject of this module.    *)
(*                                                                         *)
(* A batch is encoded by the sender's codec of the moment, and can only be *)
(* decoded by one that agrees.                                             *)
(***************************************************************************)
EXTENDS Naturals, Sequences, SequencesExt

CONSTANTS
    UpLen,      \* packets the player sends once it may
    DownLen,    \* packets the backend sends once the player is logged in ...
    StatusAt    \* ... of which this one is PlayStatus(LoginSuccess)

Player == "player"
Door == "door"
Back == "back"
Backend == "backend"
Ends == {Player, Door, Back, Backend}
Servers == {Door, Backend}
Relay == {Door, Back}

Peer(e) == CASE e = Player -> Door [] e = Door -> Player
             [] e = Back -> Backend [] e = Backend -> Back

Pk(type) == [type |-> type, n |-> 0]
Up == [i \in 1..UpLen |-> [type |-> "data", n |-> i]]
Down == [i \in 1..DownLen |-> IF i = StatusAt THEN Pk("PlayStatus")
                              ELSE [type |-> "data", n |-> i]]
Stream(e) == IF e = Player THEN Up ELSE Down

VARIABLES
    encrypts,   \* encrypts[e]: does server e run the encryption handshake?
    wire,       \* wire[e]: the batches on their way to e
    codec,      \* codec[e]: what enc and dec of end e have been told to do
    batch,      \* batch[e]: what ReadLoop has still to look at of the batch it read
    deferred,   \* deferredPackets
    pc,         \* pc[e]: idle, reading (in ReadLoop), done, or why it failed
    sent,       \* sent[e]: how much of its stream Player or Backend has sent
    got,        \* got[e]: what Player and Backend have received for the game
    refused     \* the backend refuses this player

vars == <<encrypts, wire, codec, batch, deferred, pc, sent, got, refused>>

Codecs == [comp : BOOLEAN, enc : BOOLEAN]
Plain == [comp |-> FALSE, enc |-> FALSE]
Failures == {"garbled", "rejected", "refused"}
Packets == {Pk(t) : t \in {"RequestNetworkSettings", "NetworkSettings", "Login",
                           "ServerToClientHandshake", "ClientToServerHandshake",
                           "Disconnect"}} \cup Range(Up) \cup Range(Down)

TypeOK ==
    /\ encrypts \in [Servers -> BOOLEAN]
    /\ \A e \in Ends : /\ \A i \in DOMAIN wire[e] : /\ wire[e][i].pks \in Seq(Packets)
                                                    /\ wire[e][i].codec \in Codecs
                       /\ batch[e] \in Seq(Packets) /\ deferred[e] \in Seq(Packets)
                       /\ got[e] \in Seq(Packets)
    /\ codec \in [Ends -> Codecs]
    /\ pc \in [Ends -> {"idle", "reading", "done", "closed"} \cup Failures]
    /\ sent \in [{Player, Backend} -> Nat]
    /\ refused \in BOOLEAN

\* NewProxyConn, for each end.
Init ==
    /\ encrypts \in [Servers -> BOOLEAN]
    /\ codec = [e \in Ends |-> Plain]
    /\ wire = [e \in Ends |-> <<>>] /\ batch = wire /\ deferred = wire /\ got = wire
    /\ pc = [e \in Ends |-> IF e \in Servers THEN "reading" ELSE "idle"]
    /\ sent = [e \in {Player, Backend} |-> 0]
    /\ refused \in BOOLEAN

-----------------------------------------------------------------------------
(* Reading and writing.                                                    *)

Encoded(pks, c) == [pks |-> pks, codec |-> c]
Compressed(e) == [codec[e] EXCEPT !.comp = TRUE]
Encrypted(e) == [codec[e] EXCEPT !.enc = TRUE]

\* WritePackets.
WritePackets(e, pks) ==
    wire' = [wire EXCEPT ![Peer(e)] = Append(@, Encoded(pks, codec[e]))]

HasBatch(e) == wire[e] # <<>>
Decodes(e) == Head(wire[e]).codec = codec[e]

\* ReadPackets, once the login is done: what was deferred comes first.
ReadPackets(e) == IF deferred[e] # <<>> THEN deferred[e] ELSE Head(wire[e]).pks
CanRead(e) == deferred[e] # <<>> \/ (HasBatch(e) /\ Decodes(e))
AfterRead(e) == /\ deferred' = [deferred EXCEPT ![e] = <<>>]
                /\ \/ deferred[e] # <<>> /\ UNCHANGED wire
                   \/ deferred[e] = <<>> /\ wire' = [wire EXCEPT ![e] = Tail(@)]

\* The next round of ReadLoop: a batch is read.
ReadBatch(e) ==
    /\ pc[e] = "reading" /\ batch[e] = <<>> /\ HasBatch(e)
    /\ wire' = [wire EXCEPT ![e] = Tail(@)]
    /\ batch' = [batch EXCEPT ![e] = IF Decodes(e) THEN Head(wire[e]).pks ELSE <<>>]
    /\ pc' = [pc EXCEPT ![e] = IF Decodes(e) THEN @ ELSE "garbled"]
    /\ UNCHANGED <<encrypts, codec, deferred, sent, got, refused>>

-----------------------------------------------------------------------------
(* The handlers of ReadLoop, each for the packet at the head of the batch. *)

Pending(e, type) == /\ pc[e] = "reading" /\ batch[e] # <<>>
                  /\ Head(batch[e]).type = type

Consumed(e) == batch' = [batch EXCEPT ![e] = Tail(@)]

\* checkClientPacket.
Accepts(e) ==
    e = Door =>
       /\ Head(batch[e]).type \notin {"ServerToClientHandshake", "NetworkSettings", "PlayStatus"}
       /\ Head(batch[e]).type = "ClientToServerHandshake" => codec[e].enc

\* Mutant of DeferRemaining: the rest of the batch is dropped.
DeferRemainingDropped(e, first) == deferred' = [deferred EXCEPT ![e] = @ \o first]

\* deferRemaining: what is behind the packet that ended the login is kept.
DeferRemaining(e, first) == deferred' = [deferred EXCEPT ![e] = @ \o first \o Tail(batch[e])]

\* loginDone is set and ReadLoop returns.
LoginDone(e, first) ==
    /\ pc' = [pc EXCEPT ![e] = "done"]
    /\ DeferRemaining(e, first)
    /\ batch' = [batch EXCEPT ![e] = <<>>]

\* Mutant of SettingsReply: compression is enabled before the reply is written.
SettingsReplyCompressed(e) == Encoded(<<Pk("NetworkSettings")>>, Compressed(e))

SettingsReply(e) == Encoded(<<Pk("NetworkSettings")>>, codec[e])

\* handleRequestNetworkSettings: the reply goes out as it is, then compression is on.
HandleRequestNetworkSettings(e) ==
    /\ Pending(e, "RequestNetworkSettings") /\ Consumed(e)
    /\ wire' = [wire EXCEPT ![Peer(e)] = Append(@, SettingsReply(e))]
    /\ codec' = [codec EXCEPT ![e] = Compressed(e)]
    /\ UNCHANGED <<encrypts, deferred, pc, sent, got, refused>>

\* What the player may put behind a packet of its login, in the same batch: a packet of
\* the game.  The packets of the login itself come one to a batch, each being sent in
\* answer to the relay's (the environment of this module, see its head).
Behind(e) == IF e = Player /\ sent[Player] < UpLen THEN {<<>>, <<Up[sent[Player] + 1]>>}
             ELSE {<<>>}

CountSent(e, pks) == sent' = IF e = Player THEN [sent EXCEPT ![e] = @ + Len(pks)] ELSE sent

\* Mutant of LoginPk: ForwardIdentity has not set the login when the settings come.
LoginPkUnset == <<>>

LoginPk == <<Pk("Login")>>

\* handleNetworkSettings: compression is on, and the login is sent.
HandleNetworkSettings(e) ==
    /\ Pending(e, "NetworkSettings") /\ Consumed(e)
    /\ codec' = [codec EXCEPT ![e] = Compressed(e)]
    /\ \E more \in Behind(e) :
          /\ wire' = [wire EXCEPT ![Peer(e)] = Append(@, Encoded(LoginPk \o more, Compressed(e)))]
          /\ CountSent(e, more)
    /\ UNCHANGED <<encrypts, deferred, pc, got, refused>>

\* Mutant of EndsLogin: the login is over before the handshake is answered.
EndsLoginAtOnce(e) == TRUE

EndsLogin(e) == ~encrypts[e]

\* handleLogin, of a genuine login.  With encryption the handshake goes out unencrypted,
\* encryption is on, and ReadLoop goes on until it is answered; without, this
\* is the end of the login.
HandleLogin(e) ==
    /\ Pending(e, "Login")
    /\ IF encrypts[e]
       THEN /\ WritePackets(e, <<Pk("ServerToClientHandshake")>>)
            /\ codec' = [codec EXCEPT ![e] = Encrypted(e)]
       ELSE UNCHANGED <<wire, codec>>
    /\ IF EndsLogin(e) THEN LoginDone(e, <<>>) ELSE Consumed(e) /\ UNCHANGED <<pc, deferred>>
    /\ UNCHANGED <<encrypts, sent, got, refused>>

\* handleServerToClientHandshake: encryption is on, the answer is encrypted.
HandleServerToClientHandshake(e) ==
    /\ Pending(e, "ServerToClientHandshake")
    /\ codec' = [codec EXCEPT ![e] = Encrypted(e)]
    /\ \E more \in Behind(e) :
          /\ wire' = [wire EXCEPT ![Peer(e)] =
                Append(@, Encoded(<<Pk("ClientToServerHandshake")>> \o more, Encrypted(e)))]
          /\ CountSent(e, more)
    /\ LoginDone(e, <<>>)
    /\ UNCHANGED <<encrypts, got, refused>>

\* handleClientToServerHandshake.
HandleClientToServerHandshake(e) ==
    /\ Pending(e, "ClientToServerHandshake")
    /\ LoginDone(e, <<>>)
    /\ UNCHANGED <<encrypts, wire, codec, sent, got, refused>>

\* PlayStatus of a login that succeeded is kept for the game.
HandlePlayStatus(e) ==
    /\ Pending(e, "PlayStatus")
    /\ LoginDone(e, <<Head(batch[e])>>)
    /\ UNCHANGED <<encrypts, wire, codec, sent, got, refused>>

\* Disconnect, or PlayStatus of a login that failed.
HandleDisconnect(e) ==
    /\ Pending(e, "Disconnect")
    /\ pc' = [pc EXCEPT ![e] = "refused"]
    /\ UNCHANGED <<encrypts, wire, codec, batch, deferred, sent, got, refused>>

\* Any other packet the pool knows.
HandleOther(e) ==
    /\ Pending(e, "data") /\ Consumed(e)
    /\ deferred' = [deferred EXCEPT ![e] = Append(@, Head(batch[e]))]
    /\ UNCHANGED <<encrypts, wire, codec, pc, sent, got, refused>>

Rejected(e) ==
    /\ pc' = [pc EXCEPT ![e] = "rejected"]
    /\ UNCHANGED <<encrypts, wire, codec, batch, deferred, sent, got, refused>>

ReadLoop(e) ==
    \/ ReadBatch(e)
    \/ /\ pc[e] = "reading" /\ batch[e] # <<>>
       /\ IF ~Accepts(e) THEN Rejected(e)
          ELSE \/ HandleRequestNetworkSettings(e) \/ HandleNetworkSettings(e)
               \/ HandleLogin(e) \/ HandleServerToClientHandshake(e)
               \/ HandleClientToServerHandshake(e) \/ HandlePlayStatus(e)
               \/ HandleDisconnect(e) \/ HandleOther(e)

-----------------------------------------------------------------------------
(* HandleConn between the logins.                                          *)

\* ForwardIdentity: the login is prepared and the settings are asked for.
ForwardIdentity ==
    /\ pc[Door] = "done" /\ pc[Back] = "idle"
    /\ WritePackets(Back, <<Pk("RequestNetworkSettings")>>)
    /\ pc' = [pc EXCEPT ![Back] = "reading"]
    /\ UNCHANGED <<encrypts, codec, batch, deferred, sent, got, refused>>

\* No backend, or not for this player: the player is told, and HandleConn returns.
TellPlayer ==
    /\ pc[Door] = "done" /\ pc[Back] \in {"idle"} \cup Failures
    /\ WritePackets(Door, <<Pk("Disconnect")>>)
    /\ pc' = [pc EXCEPT ![Door] = "closed", ![Back] = "closed"]
    /\ UNCHANGED <<encrypts, codec, batch, deferred, sent, got, refused>>

Pumping == pc[Door] = "done" /\ pc[Back] = "done"

\* pump: what is read from one side is written to the other.
Pump(e) ==
    /\ Pumping /\ CanRead(e)
    /\ LET to == IF e = Door THEN Back ELSE Door
           out == [wire EXCEPT ![Peer(to)] = Append(@, Encoded(ReadPackets(e), codec[to]))]
       IN  wire' = IF deferred[e] # <<>> THEN out ELSE [out EXCEPT ![e] = Tail(@)]
    /\ deferred' = [deferred EXCEPT ![e] = <<>>]
    /\ UNCHANGED <<encrypts, codec, batch, pc, sent, got, refused>>

-----------------------------------------------------------------------------
(* The player and the backend.                                             *)

\* The player joins.
Join ==
    /\ pc[Player] = "idle"
    /\ WritePackets(Player, <<Pk("RequestNetworkSettings")>>)
    /\ pc' = [pc EXCEPT ![Player] = "reading"]
    /\ UNCHANGED <<encrypts, codec, batch, deferred, sent, got, refused>>

\* Once logged in, packets of its stream are sent, any number to a batch.
Send(e, k) ==
    /\ pc[e] = "done" /\ ~(e = Backend /\ refused)
    /\ sent[e] + k <= Len(Stream(e))
    /\ WritePackets(e, SubSeq(Stream(e), sent[e] + 1, sent[e] + k))
    /\ sent' = [sent EXCEPT ![e] = @ + k]
    /\ UNCHANGED <<encrypts, codec, batch, deferred, pc, got, refused>>

Refuse ==
    /\ pc[Backend] = "done" /\ refused
    /\ WritePackets(Backend, <<Pk("Disconnect")>>)
    /\ pc' = [pc EXCEPT ![Backend] = "closed"]
    /\ UNCHANGED <<encrypts, codec, batch, deferred, sent, got, refused>>

\* The game takes what arrives.
Receive(e) ==
    /\ pc[e] = "done" /\ CanRead(e)
    /\ got' = [got EXCEPT ![e] = @ \o ReadPackets(e)]
    /\ AfterRead(e)
    /\ UNCHANGED <<encrypts, codec, batch, pc, sent, refused>>

-----------------------------------------------------------------------------
Streams(e) == \E k \in 1..Len(Stream(e)) : Send(e, k)

Next ==
    \/ \E e \in Ends : ReadLoop(e)
    \/ ForwardIdentity \/ TellPlayer
    \/ \E e \in Relay : Pump(e)
    \/ Join \/ Refuse
    \/ \E e \in {Player, Backend} : Streams(e) \/ Receive(e)

\* Goroutines run, and a player and a backend that are there go on with the login
\* and the game.
Fairness ==
    /\ \A e \in Ends : WF_vars(ReadLoop(e))
    /\ WF_vars(ForwardIdentity \/ TellPlayer)
    /\ \A e \in Relay : WF_vars(Pump(e))
    /\ WF_vars(Join) /\ WF_vars(Refuse)
    /\ \A e \in {Player, Backend} : WF_vars(Streams(e)) /\ WF_vars(Receive(e))

Spec == Init /\ [][Next]_vars

FairSpec == Spec /\ Fairness

-----------------------------------------------------------------------------
(* Properties.                                                             *)

\* Both ends of a link switch compression and encryption on at the same place in the
\* stream: no batch ever meets a decoder that is set up otherwise, and no packet of
\* an honest login is turned away (proxy_conn.go:189-191).
HonestNeverFails ==
    /\ \A e \in Ends : pc[e] \notin {"garbled", "rejected"}
    /\ \A e \in Ends : pc[e] = "done" /\ HasBatch(e) => Decodes(e)

\* "so they are replayed to the caller once the relay starts pumping instead of being
\* lost" (proxy_conn.go:263-272): what arrives at either end of the relayed path is a
\* prefix of what the other has sent, in its order, however it was put into batches.
\* A player who is not let in is told so, and nothing else.
InOrder ==
    /\ IsPrefix(got[Player], Down) \/ got[Player] = <<Pk("Disconnect")>>
    /\ IsPrefix(got[Backend], Up)

\* The login of a player is through at both ends before the relay turns to the backend: the
\* link is compressed, and encrypted if and only if the relay is set to (proxy_conn.go:
\* 215-219).  This is of players that follow the protocol, as all of them do here.
SetUpBeforeBackend ==
    pc[Back] # "idle" =>
       codec[Player] = codec[Door] /\ codec[Door] = [comp |-> TRUE, enc |-> encrypts[Door]]

JoinedOrTold ==
    \/ got[Player] = Down /\ got[Backend] = Up
    \/ pc[Player] = "refused" \/ Pk("Disconnect") \in Range(got[Player])

\* Every player who joins ends up in the game, with everything that was sent, or is
\* told why not: no one is left "stuck on loading resource packs forever"
\* (proxy_conn.go:271-272).
JoinsOrIsTold == []<>JoinedOrTold
=============================================================================
