SPECIFICATION Spec
CONSTANTS
    Candidates = {c1, c2}
    Offers = {f1}
    Answers = {}
    Others = {}
    MaxStores = 1
INVARIANTS NeverStranded
CHECK_DEADLOCK FALSE
