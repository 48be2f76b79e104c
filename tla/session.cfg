SPECIFICATION FairSpec
CONSTANTS
    Milli = 2
    ConnectWait = 2
    HandshakeWait = 2
    ReaderTick = 3
    Lag = 1
    Durations = {1, 5}
    ReadSize = 2
    MaxBuffer = 2
    MaxSilence = 10
    MaxOnWire = 2
    MaxSent = 3
CHECK_DEADLOCK FALSE
INVARIANTS
    TypeOK
    DetectedInTime
    NothingLostAtHandOver
    EnteredOnAnswer
    NoneMeansDisconnected
PROPERTIES
    NoFalseAlarm
    EndIsAnnounced
    HandshakeReturns
    LossIsNoticed
