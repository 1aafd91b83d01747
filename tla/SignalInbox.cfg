SPECIFICATION Spec
CONSTANTS
    Candidates = {c1, c2}
    Offers = {f1}
    Answers = {a1}
    Others = {e1}
    MaxStores = 2
INVARIANTS CandidatesAfterDescription DeliveredOnce
CHECK_DEADLOCK FALSE
