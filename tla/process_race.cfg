SPECIFICATION Spec
CONSTANTS
    r1 = r1
    r2 = r2
    r3 = r3
    k1 = k1
    k2 = k2
    Threads = {r1, r2, r3}
    Keys = {k1, k2}
    KeysOf <- RaceAndOwn
    MaxStarts = 2
    None = None
INVARIANTS
    EveryProcessIsHeld
CHECK_DEADLOCK FALSE
