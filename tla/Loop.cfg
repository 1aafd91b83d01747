SPECIFICATION MCSpec
CONSTANTS
    NoRelay = TRUE
    MaxDrops = 1
    MaxAges = 1
    MaxBackoff = 2
    ForceRefreshAfter = 2
    Entries <- Lists
    Files = {"token.json", "t1", "t2"}
    Accounts = {1, 2}
    MaxExtras = 2
    MaxFaults = 1
    Callers = {c1, c2}
    Nobody = Nobody
    LiveLife = 2
    IdentityLife = 2
    McLife = 2
    MaxTime = 3
    MaxFailures = 2
INVARIANTS ServingConnectionLive StableIDWithoutFailure BroadcastsApart
PROPERTIES NoRenewalLoop ServesUntilStopped TokensSpared CallsReturn
CHECK_DEADLOCK FALSE
