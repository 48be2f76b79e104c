SPECIFICATION Spec
CONSTANTS
    c1 = c1
    c2 = c2
    c3 = c3
    d1 = d1
    None = None
    Calls <- ThreeCalls
    Closers <- OneCloser
    Cancellable <- ThreeCallsAndCloser
    SendBuf = 2
    WireCap = 2
SYMMETRY Symmetry
CHECK_DEADLOCK FALSE
INVARIANTS
    TypeOK
    OwnReplyUnlessAbandoned
    WaitingIsRegistered
    OnlyCancellationTearsTheStream
    NoneMeansDisconnected
PROPERTIES
    StatusIsFinal
    ShutdownBetweenCommands
