SPECIFICATION Spec
CONSTANTS
    r1 = r1
    r2 = r2
    r3 = r3
    k1 = k1
    k2 = k2
    Threads = {r1, r2, r3}
    Keys = {k1, k2}
    KeysOf <- RaceAndOwn
    MaxStarts = 4
    None = None
INVARIANTS
    TypeOK
    OneHeldProcess
    NoKeyError
    ShutdownStopsAll
CHECK_DEADLOCK FALSE
