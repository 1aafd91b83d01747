SPECIFICATION MCSpec
CONSTANTS
    Members = {x1}
    MaxJoins = 3
    MaxRev = 1
    MaxDrops = 1
    NoRequest = NoRequest
    Broadcasts = {b1, b2}
    Configs <- Settings
    Moves = 2
    MaxReal = 2
    MaxChanges = 1
    MaxTime = 3
    Watched = b1
    Worlds = {w1, w2}
    MaxRounds = 2
    MaxFaults = 2
INVARIANTS NoncesCurrent AdvertisedCount NothingLeftBehind
PROPERTIES NoncesReachDoc DocumentSettles RealCountShown EveryWorldTried
CHECK_DEADLOCK FALSE
