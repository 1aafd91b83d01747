SPECIFICATION Spec
CONSTANTS
    Callers = {c1, c2}
    Nobody = nobody
    LiveLife = 2
    IdentityLife = 2
    McLife = 2
    MaxTime = 3
    MaxFailures = 2
INVARIANTS NeverPanics
CHECK_DEADLOCK FALSE
