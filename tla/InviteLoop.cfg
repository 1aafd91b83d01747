SPECIFICATION FairSpec
CONSTANTS
    Players = {1, 2}
    Lists = {"queue"}
    Gens = {1, 2}
    Loops = {1, 2}
    Requests = {r1}
    MaxEdits = 1
INVARIANTS OneLoop StopHonoured
PROPERTY EveryoneHasTurns
CHECK_DEADLOCK FALSE
