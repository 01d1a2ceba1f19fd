SPECIFICATION Spec
CONSTANTS
    Reactions = {r1, r2, r3}
    MaxCounts <- OnceTwiceForever
    InitCapacity = 0
    CountCap = 3
INVARIANTS
    RegistrationIsSafe
CHECK_DEADLOCK FALSE
