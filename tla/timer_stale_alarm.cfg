SPECIFICATION Spec
CONSTANTS
    Tasks = {t1, t2}
    Users = {main}
    Owner = main
    Delays = {1, 3}
    Repeats = {1}
    Rests = {0}
    LastDue = 4
    Horizon = 4
    SpuriousWakeups = FALSE
    None = None
INVARIANTS
    AlarmCoversEarliest
CHECK_DEADLOCK FALSE
