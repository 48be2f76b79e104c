SPECIFICATION Spec
CONSTANTS
    a = a
    b = b
    None = None
    Channels <- TwoChannels
    QueueSize = 2
    MaxChanges = 2
SYMMETRY Symmetry
CHECK_DEADLOCK FALSE
INVARIANTS
    TypeOK
    TrackedIsLive
    StaleOnlyByDump
    DumpsAreOwn
    PendingIsOwed
