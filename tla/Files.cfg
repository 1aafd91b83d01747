SPECIFICATION MCSpec
CONSTANTS
    Relays = {r1, r2}
    Tool = tool
    Players = {1, 2}
    Window = 1
    MaxTime = 3
    MaxJoins = 2
    MaxCrashes = 1
    Scraped = {x1, x2}
    Invited = {p1, p2}
    Joins = {j1}
    Expiry = 1
    MaxInviteTime = 1
    MaxSends = 2
SYMMETRY Alike
INVARIANTS PlayersKept JoinsKept AcceptedRight
PROPERTY DropsJustified
CHECK_DEADLOCK FALSE
