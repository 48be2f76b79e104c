SPECIFICATION Spec
CONSTANTS
    c1 = c1
    c2 = c2
    c3 = c3
    d1 = d1
    None = None
    Calls <- TwoCalls
    Closers <- NoTask
    Cancellable <- NoTask
    SendBuf = 2
    WireCap = 1
CHECK_DEADLOCK FALSE
INVARIANT OkMeansOwnReply
