SPECIFICATION MCSpec
CONSTANTS
    People = {p1, p2}
    QueueMax = 1
    MaxRequests = 2
    MaxLimits = 1
    Direct = FALSE
    Accounts = {"a1"}
    Players = {"me", "p1", "p2"}
    Self <- Selves
    Workers = {1, 2}
    AdderFailures = 2
    AdderLimits = 1
    MaxRestarts = 1
    Friends = {1, 2}
    MaxSessions = 2
    MaxStarts = 2
    InviterFailures = 1
INVARIANTS WakeupKept FriendsKept AdderExact OneInviter
PROPERTIES EveryoneAnswered RunsComplete
CHECK_DEADLOCK FALSE
