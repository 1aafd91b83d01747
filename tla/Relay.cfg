SPECIFICATION MCSpec
CONSTANTS
    Conns = {c1, c2}
    Players = {x1, x2}
    Allowed = {x1}
    UpLen = 2
    DownLen = 4
    StatusAt = 2
    Joins = {j1, j2}
    Clients = {n1}
    Requests = {r1, r2}
    Nobody = nobody
    TTL = 2
    MaxPlayers = 1
    MaxSignals = 3
    MaxSkipped = 1
    MaxInbox = 2
INVARIANTS RegistryCurrent LoginSound SignalingDelivers
PROPERTIES GoneIsDone JoinsOrIsTold ShowsBackend NothingLingers
CHECK_DEADLOCK FALSE
