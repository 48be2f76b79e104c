SPECIFICATION Spec
CONSTANTS
    QueueSize = 2
    MaxEvents = 6
CHECK_DEADLOCK FALSE
INVARIANT QueueFullThenEvents
