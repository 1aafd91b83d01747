SPECIFICATION Spec
CONSTANTS Relays = {r1, r2} Tool = tool Players = {1, 2} Window = 1 MaxTime = 3 MaxJoins = 2 MaxCrashes = 0
INVARIANTS NeverTruncated
CHECK_DEADLOCK FALSE
