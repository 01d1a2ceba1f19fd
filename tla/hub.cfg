SPECIFICATION FairSpec
CONSTANTS
    Clients = {c1, c2}
    MaxNotifications = 3
    MaxMessages = 1
INVARIANTS
    TypeOK
    NoneVanishesOrRepeats
PROPERTIES
    LostOnlyByLeavers
    QueueDrains
    LeaversAreDropped
CHECK_DEADLOCK FALSE
