SPECIFICATION FairSpec
CONSTANTS
    Tasks = {t1, t2}
    Users = {main, reader}
    Owner = main
    Delays = {1, 2}
    Repeats <- OnceTwiceForever
    Rests = {0, 1}
    LastDue = 2
    Horizon = 2
    SpuriousWakeups = TRUE
    None = None
INVARIANTS
    TypeOK
    ActiveExact
    IterationsExact
    NoMissedSignal
PROPERTIES
    NeverEarly
    ImplementsContract
    TimersFinish
    CallsReturn
CHECK_DEADLOCK FALSE
