SPECIFICATION FairSpec
CONSTANTS
    Calls = {c1, c2}
    Capacity = 2
    MaxPoints = 4
INVARIANTS
    TypeOK
    StreamIsExact
PROPERTIES
    PointsAreStreamed
    CallsEnd
CHECK_DEADLOCK FALSE
