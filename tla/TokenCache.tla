------------------------------ MODULE TokenCache ------------------------------
(***************************************************************************)
(* The tokens of one Xbox Live account: session/session.go.  A Session     *)
(* keeps the Live token, the PlayFab identity and the Minecraft token, and *)
(* any goroutine may ask for any of them.  One mutex guards the three; it  *)
(* is held over the requests that renew them.                              *)
(*                                                                         *)
(* A token is the time it expires at, 0 is nil.  Every request is a step   *)
(* of its own that succeeds or fails, and time may pass before it.         *)
(***************************************************************************)
EXTENDS Integers

CONSTANTS
    Callers,      \* goroutines that share the Session
    Nobody,       \* the mutex is free
    LiveLife, IdentityLife, McLife,  \* how long a new token is good for
    MaxTime,      \* bound: minutes that pass
    MaxFailures   \* bound: requests that fail

VARIABLES
    mu,        \* the holder of Session.mu
    tok,       \* Session.tok
    identity,  \* Session.playfabIdentity, by its entity token's expiration
    mcToken,   \* Session.mcToken
    signedIn,  \* SessionFromTokenSource: "no", "busy", "yes", "failed"
    op,        \* op[c]: the method c has called
    pc,        \* pc[c]: where c is in it
    panicked,  \* a nil pointer was dereferenced: the process is gone
    clock, failures

tokenVars == <<mu, tok, identity, mcToken, signedIn, op, pc, panicked, clock,
               failures>>

\* RequestXBLToken, PlayfabIdentity, MCToken, ForceRefreshMCToken.
Methods == {"xbl", "identity", "mc", "force"}

TypeOK ==
    /\ mu \in Callers \cup {Nobody}
    /\ tok \in 0..MaxTime + LiveLife
    /\ identity \in 0..MaxTime + IdentityLife
    /\ mcToken \in 0..MaxTime + McLife
    /\ signedIn \in {"no", "busy", "yes", "failed"}
    /\ op \in [Callers -> Methods \cup {"signin", "login", "none"}]
    /\ pc \in [Callers -> {"idle", "lock", "mc", "identity", "token", "source",
                           "playfab", "exchange", "discover", "cache"}]
    /\ panicked \in BOOLEAN /\ clock \in 0..MaxTime /\ failures \in 0..MaxFailures

Init ==
    /\ mu = Nobody /\ tok = 0 /\ identity = 0 /\ mcToken = 0
    /\ signedIn = "no" /\ panicked = FALSE /\ clock = 0 /\ failures = 0
    /\ op = [c \in Callers |-> "none"] /\ pc = [c \in Callers |-> "idle"]

\* expirationTimeDelta: a token is renewed a minute before it expires.
PastExpirationTime(t) == clock > t - 1

\* external: oauth2.Token.Valid.
Valid(t) == t > clock

-----------------------------------------------------------------------------
(* Entering and leaving a method.                                          *)

Goto(c, l) == pc' = [pc EXCEPT ![c] = l]

Leave(c, l) == mu' = Nobody /\ Goto(c, l)

\* The first call on a Session is SessionFromTokenSource's login.
Call(c) ==
    /\ pc[c] = "idle" /\ ~panicked
    /\ \/ /\ signedIn = "no" /\ signedIn' = "busy"
          /\ op' = [op EXCEPT ![c] = "signin"]
       \/ /\ signedIn = "yes" /\ UNCHANGED signedIn
          /\ \E o \in Methods: op' = [op EXCEPT ![c] = o]
    /\ Goto(c, "lock")
    /\ UNCHANGED <<mu, tok, identity, mcToken, panicked, clock, failures>>

EntryOf(o) ==
    CASE o \in {"xbl", "signin", "login"} -> "token"
      [] o = "mc" -> "mc"
      [] o \in {"identity", "force"} -> "identity"

Enter(c) ==
    /\ pc[c] = "lock" /\ ~panicked
    /\ Goto(c, EntryOf(op[c]))
    /\ UNCHANGED <<tok, identity, mcToken, signedIn, op, panicked, clock, failures>>

\* Mutant of Lock: the fields are read without the mutex.
LockLeftOut(c) == Enter(c) /\ UNCHANGED mu

Lock(c) == Enter(c) /\ mu = Nobody /\ mu' = c

\* A request that fails ends the method; before the login is over it ends the
\* Session with it.
Fail(c) ==
    /\ failures < MaxFailures /\ failures' = failures + 1
    /\ signedIn' = IF signedIn = "busy" THEN "failed" ELSE signedIn
    /\ UNCHANGED <<op, panicked, clock>>

-----------------------------------------------------------------------------
(* The Minecraft token: MCToken, obtainMcTokenLocked.                      *)

CheckMC(c) ==
    /\ pc[c] = "mc" /\ ~panicked
    /\ IF mcToken = 0 \/ PastExpirationTime(mcToken)
       THEN Goto(c, "identity") /\ UNCHANGED mu
       ELSE Leave(c, "idle")
    /\ UNCHANGED <<tok, identity, mcToken, signedIn, op, panicked, clock, failures>>

\* playfabIdentityLocked reads EntityToken.Expiration through the pointer.
CheckIdentity(c) ==
    /\ pc[c] = "identity" /\ ~panicked
    /\ \/ /\ identity = 0 /\ panicked' = TRUE /\ UNCHANGED <<mu, pc>>
       \/ /\ identity # 0 /\ PastExpirationTime(identity)
          /\ Goto(c, "token") /\ UNCHANGED <<mu, panicked>>
       \/ /\ identity # 0 /\ ~PastExpirationTime(identity)
          /\ IF op[c] = "identity" THEN Leave(c, "idle")
             ELSE Goto(c, "exchange") /\ UNCHANGED mu
          /\ UNCHANGED panicked
    /\ UNCHANGED <<tok, identity, mcToken, signedIn, op, clock, failures>>

ExchangeOk(c) ==
    /\ pc[c] = "exchange" /\ ~panicked
    /\ mcToken' = clock + McLife
    /\ Leave(c, "idle")
    /\ signedIn' = "yes"
    /\ UNCHANGED <<tok, identity, op, panicked, clock, failures>>

\* Mutant of ExchangeFails: the answer is assigned to the field, nil on failure.
ExchangeFailsWiping(c) ==
    /\ pc[c] = "exchange" /\ ~panicked
    /\ Fail(c) /\ Leave(c, "idle") /\ mcToken' = 0
    /\ UNCHANGED <<tok, identity>>

ExchangeFails(c) ==
    /\ pc[c] = "exchange" /\ ~panicked
    /\ Fail(c) /\ Leave(c, "idle")
    /\ UNCHANGED <<tok, identity, mcToken>>

-----------------------------------------------------------------------------
(* The Live token and the PlayFab identity that rests on it: tokenLocked,   *)
(* loginWithPlayfabLocked.                                                 *)

HasToken(c) ==
    CASE op[c] = "signin" -> Leave(c, "discover")
      [] op[c] = "xbl" -> Leave(c, "cache")
      [] OTHER -> Goto(c, "playfab") /\ UNCHANGED mu

\* Mutant of TokenLocked: the login is given the Session itself as its source
\* of tokens, whose Token takes the mutex.
TokenRelocked(c) ==
    /\ pc[c] = "token" /\ ~panicked
    /\ op[c] \in {"signin", "xbl"} \/ mu = Nobody
    /\ IF Valid(tok) THEN HasToken(c) ELSE Goto(c, "source") /\ UNCHANGED mu
    /\ UNCHANGED <<tok, identity, mcToken, signedIn, op, panicked, clock, failures>>

TokenLocked(c) ==
    /\ pc[c] = "token" /\ ~panicked
    /\ IF Valid(tok) THEN HasToken(c) ELSE Goto(c, "source") /\ UNCHANGED mu
    /\ UNCHANGED <<tok, identity, mcToken, signedIn, op, panicked, clock, failures>>

SourceOk(c) ==
    /\ pc[c] = "source" /\ ~panicked
    /\ tok' = clock + LiveLife
    /\ HasToken(c)
    /\ UNCHANGED <<identity, mcToken, signedIn, op, panicked, clock, failures>>

\* Login returns a nil identity with every error, and it is assigned to the
\* field: also with the error of the Live token it asks for.
SourceFails(c) ==
    /\ pc[c] = "source" /\ ~panicked
    /\ Fail(c) /\ Leave(c, "idle")
    /\ identity' = IF op[c] \in {"signin", "xbl"} THEN identity ELSE 0
    /\ UNCHANGED <<tok, mcToken>>

\* obtainMcTokenLocked follows the login at startup and checks what it stored.
PlayfabOk(c) ==
    /\ pc[c] = "playfab" /\ ~panicked
    /\ identity' = clock + IdentityLife
    /\ CASE op[c] = "login" -> Goto(c, "identity") /\ UNCHANGED mu
         [] op[c] = "identity" -> Leave(c, "idle")
         [] OTHER -> Goto(c, "exchange") /\ UNCHANGED mu
    /\ UNCHANGED <<tok, mcToken, signedIn, op, panicked, clock, failures>>

PlayfabFails(c) ==
    /\ pc[c] = "playfab" /\ ~panicked
    /\ Fail(c) /\ Leave(c, "idle")
    /\ identity' = 0
    /\ UNCHANGED <<tok, mcToken>>

-----------------------------------------------------------------------------
(* What is done without the mutex.                                         *)

\* initDiscovery, then the second half of login under the mutex.
DiscoverOk(c) ==
    /\ pc[c] = "discover" /\ ~panicked
    /\ op' = [op EXCEPT ![c] = "login"] /\ Goto(c, "lock")
    /\ UNCHANGED <<mu, tok, identity, mcToken, signedIn, panicked, clock, failures>>

DiscoverFails(c) ==
    /\ pc[c] = "discover" /\ ~panicked
    /\ Fail(c) /\ Goto(c, "idle")
    /\ UNCHANGED <<mu, tok, identity, mcToken>>

\* RequestXBLToken takes the mutex a second time, for the cache alone.
Cache(c) ==
    /\ pc[c] = "cache" /\ mu = Nobody /\ ~panicked
    /\ Goto(c, "idle")
    /\ UNCHANGED <<mu, tok, identity, mcToken, signedIn, op, panicked, clock,
                   failures>>

Tick ==
    /\ ~panicked /\ clock < MaxTime
    /\ clock' = clock + 1
    /\ UNCHANGED <<mu, tok, identity, mcToken, signedIn, op, pc, panicked, failures>>

Answer(c) ==
    \/ ExchangeOk(c) \/ ExchangeFails(c)
    \/ SourceOk(c) \/ SourceFails(c)
    \/ PlayfabOk(c) \/ PlayfabFails(c)
    \/ DiscoverOk(c) \/ DiscoverFails(c)

Work(c) == CheckMC(c) \/ CheckIdentity(c) \/ TokenLocked(c) \/ Answer(c)

Next == Tick \/ \E c \in Callers: Call(c) \/ Lock(c) \/ Cache(c) \/ Work(c)

-----------------------------------------------------------------------------
(* sync.Mutex hands itself to a goroutine that has waited for a            *)
(* millisecond, so a waiter is not passed over forever.  That a request is *)
(* answered or fails is assumed of Xbox Live: http.DefaultClient has no    *)
(* time limit.                                                             *)

Spec == Init /\ [][Next]_tokenVars

Fairness ==
    \A c \in Callers: /\ WF_tokenVars(Work(c))
                      /\ SF_tokenVars(Lock(c) \/ Cache(c))

FairSpec == Spec /\ Fairness

-----------------------------------------------------------------------------
(* Properties.                                                             *)

\* A failed refresh leaves the last Minecraft token in place: once there is
\* one, obtainMcTokenLocked never replaces it by nothing.
McTokenKept == [][mcToken # 0 => mcToken' # 0]_tokenVars

\* Goroutines that find the Minecraft token past its time at once renew it
\* once: MCToken never exchanges a token that another caller has renewed
\* meanwhile (Xbox Live limits how often a token is exchanged).
NoNeedlessExchange ==
    [][\A c \in Callers:
          op[c] = "mc" /\ pc[c] = "exchange" /\ mcToken' # mcToken
          => PastExpirationTime(mcToken)]_tokenVars

\* The mutex is never waited for by its own holder, nor left taken by a method
\* that failed: every call returns unless the process is gone.
CallsReturn ==
    \A c \in Callers: []<>(pc[c] = "idle" \/ panicked)

\* What session.go says of the Minecraft token, of every token a method reads
\* through a pointer: a failed refresh does not make a later call panic.
NeverPanics == ~panicked
=============================================================================
