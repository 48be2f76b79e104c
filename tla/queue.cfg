SPECIFICATION FairSpec
CONSTANTS
    QueueSize = 2
    MaxEvents = 6
CHECK_DEADLOCK FALSE
INVARIANTS
    TypeOK
    EveryLossIsCounted
    LossIsRemembered
    NotificationsAreNews
    NothingLeftBehind
PROPERTIES
    StreamEnds
