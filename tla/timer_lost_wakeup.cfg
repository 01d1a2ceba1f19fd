SPECIFICATION FairSpec
CONSTANTS
    Tasks = {t1}
    Users = {main}
    Owner = main
    Delays = {1}
    Repeats = {1}
    Rests = {0}
    LastDue = 2
    Horizon = 2
    SpuriousWakeups = FALSE
    None = None
PROPERTIES
    WaitTillLastReturns
CHECK_DEADLOCK FALSE
