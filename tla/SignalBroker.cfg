SPECIFICATION Spec
CONSTANTS
    Offers = {o1, o2}
    Keys = {k1, k2}
    NoOffer = NoOffer
    MaxInFlight = 1
    MaxCandidates = 1
    Quiet = 2
    MaxGather = 3
    Verifier = TRUE
    AllowList = TRUE
INVARIANTS JoinsAndReplies Bookkeeping
PROPERTIES ImplementsSlots SlotsReleased
CHECK_DEADLOCK FALSE
