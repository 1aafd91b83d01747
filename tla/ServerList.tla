------------------------------ MODULE ServerList ------------------------------
(***************************************************************************)
(* The entry in a player's server list: serverListProvider of              *)
(* bridge/directip.go.  Every GET /v1/join is a request of its own; they   *)
(* share one cached body under one mutex, which is held while the backend  *)
(* is asked.                                                               *)
(*                                                                         *)
(* The age of the cached body counts up to the TTL and stays there.        *)
(***************************************************************************)
EXTENDS Integers

CONSTANTS
    Requests,   \* requests for the entry
    Nobody,     \* the mutex is free
    TTL,        \* serverListCacheTTL
    MaxPlayers  \* bound: players on the backend

\* The entry from config.json alone: no players.  Nil: no entry.
Config == -1
Nil == -2
Counts == 0..MaxPlayers

VARIABLES
    mu,        \* the holder of serverListProvider.mu
    cached,    \* the count in the cached body, Config, Nil before the first
    age,       \* the time since cachedAt, up to the TTL
    pc,        \* pc[r]: where request r is
    gone,      \* gone[r]: the client of r has closed it, which cancels its context
    answer,    \* answer[r]: what r was answered
    backend,   \* external: players on the backend, Config for unreachable
    asked      \* history: the backend was asked and the TTL has not passed since

listVars == <<mu, cached, age, pc, gone, answer, backend, asked>>

TypeOK ==
    /\ mu \in Requests \cup {Nobody}
    /\ cached \in {Nil} \cup Counts \cup {Config} /\ age \in 0..TTL
    /\ pc \in [Requests -> {"idle", "lock", "body", "fetch"}]
    /\ gone \in [Requests -> BOOLEAN]
    /\ answer \in [Requests -> {Nil} \cup Counts \cup {Config}]
    /\ backend \in Counts \cup {Config} /\ asked \in 0..TTL

Init ==
    /\ mu = Nobody /\ cached = Nil /\ age = TTL
    /\ pc = [r \in Requests |-> "idle"] /\ gone = [r \in Requests |-> FALSE]
    /\ answer = [r \in Requests |-> Nil]
    /\ backend \in Counts \cup {Config} /\ asked = TTL

-----------------------------------------------------------------------------

Request(r) ==
    /\ pc[r] = "idle"
    /\ pc' = [pc EXCEPT ![r] = "lock"] /\ gone' = [gone EXCEPT ![r] = FALSE]
    /\ answer' = [answer EXCEPT ![r] = Nil]
    /\ UNCHANGED <<mu, cached, age, backend, asked>>

\* The client gives up; a request that waits for the mutex does not notice.
GoesAway(r) ==
    /\ pc[r] # "idle" /\ ~gone[r] /\ gone' = [gone EXCEPT ![r] = TRUE]
    /\ UNCHANGED <<mu, cached, age, pc, answer, backend, asked>>

\* Mutant of Lock: the mutex is taken for the fields only.
LockFields(r) ==
    /\ pc[r] = "lock"
    /\ pc' = [pc EXCEPT ![r] = "body"]
    /\ UNCHANGED <<mu, cached, age, gone, answer, backend, asked>>

Lock(r) ==
    /\ pc[r] = "lock" /\ mu = Nobody /\ mu' = r
    /\ pc' = [pc EXCEPT ![r] = "body"]
    /\ UNCHANGED <<cached, age, gone, answer, backend, asked>>

Serve(r, entry) ==
    /\ answer' = [answer EXCEPT ![r] = entry]
    /\ pc' = [pc EXCEPT ![r] = "idle"]
    /\ mu' = Nobody
    /\ UNCHANGED <<gone, backend>>

\* Mutant of Hit: a body is cached for good.
HitAlways(r) ==
    /\ pc[r] = "body" /\ cached # Nil
    /\ Serve(r, cached)
    /\ UNCHANGED <<cached, age, asked>>

Hit(r) ==
    /\ pc[r] = "body" /\ cached # Nil /\ age < TTL
    /\ Serve(r, cached)
    /\ UNCHANGED <<cached, age, asked>>

Miss(r) ==
    /\ pc[r] = "body" /\ (cached = Nil \/ age = TTL)
    /\ pc' = [pc EXCEPT ![r] = "fetch"] /\ asked' = 0
    /\ UNCHANGED <<mu, cached, age, gone, answer, backend>>

\* Mutant of Fetch: waits for a backend that does not answer.
FetchUnlimited(r) ==
    /\ pc[r] = "fetch" /\ backend # Config
    /\ cached' = backend /\ Serve(r, backend)
    /\ age' = 0 /\ asked' = 0

\* fetchServerListEntry: what the backend says within two seconds, config.json's
\* values for any failure, the end of the request itself among them.  Both are
\* cached.
Fetch(r) ==
    /\ pc[r] = "fetch"
    /\ \E entry \in {backend} \cup (IF gone[r] THEN {Config} ELSE {}):
           cached' = entry /\ Serve(r, entry)
    /\ age' = 0 /\ asked' = 0

\* A second.
Tick ==
    /\ age' = IF age < TTL THEN age + 1 ELSE TTL
    /\ asked' = IF asked < TTL THEN asked + 1 ELSE TTL
    /\ <<age, asked>> # <<TTL, TTL>>
    /\ UNCHANGED <<mu, cached, pc, gone, answer, backend>>

\* external: players come and go, the backend stops and starts.
Change ==
    /\ backend' \in (Counts \cup {Config}) \ {backend}
    /\ UNCHANGED <<mu, cached, age, pc, gone, answer, asked>>

Body(r) == Hit(r) \/ Miss(r) \/ Fetch(r)

Next ==
    \/ Tick \/ Change
    \/ \E r \in Requests: Request(r) \/ GoesAway(r) \/ Lock(r) \/ Body(r)

Spec == Init /\ [][Next]_listVars

\* The backend is asked within a time limit; sync.Mutex passes nobody over.
Fairness ==
    /\ WF_listVars(Tick)
    /\ \A r \in Requests: WF_listVars(Body(r)) /\ SF_listVars(Lock(r))

FairSpec == Spec /\ Fairness

-----------------------------------------------------------------------------
(* Properties.                                                             *)

\* A burst of requests is one request to the backend: of those that miss the
\* cache none asks the backend while another does, nor until the TTL has passed
\* since the last answer, a failure being an answer.
BackendSpared ==
    [][\A r \in Requests:
          pc[r] = "body" /\ pc'[r] = "fetch"
          => asked = TTL /\ \A q \in Requests: pc[q] # "fetch"]_listVars

\* Every request is answered, one that waits behind a backend that is silent
\* too.
Answered == \A r \in Requests: []<>(pc[r] = "idle")

\* A count or a failure that was cached does not outlast the TTL: once the
\* backend has n players for good and requests keep coming whose clients wait,
\* one of them is answered n, and so are all after it.
ShowsBackend ==
    \A n \in Counts:
        (<>[](backend = n /\ \A r \in Requests: ~gone[r])
         /\ \A r \in Requests: []<>(pc[r] # "idle"))
        => <>[](\A r \in Requests: answer[r] \in {Nil, n})
=============================================================================
