SPECIFICATION FairSpec
CONSTANTS
    Reactions = {r1, r2, r3}
    MaxCounts <- OnceTwiceForever
    InitCapacity = 0
    CountCap = 3
INVARIANTS
    TypeOK
    FiresWithinMax
    UpdateReachesAll
PROPERTIES
    OncePerUpdate
    ReactionsComplete
    JoinsReturn
CHECK_DEADLOCK FALSE
