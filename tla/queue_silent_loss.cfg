SPECIFICATION FairSpec
CONSTANTS
    QueueSize = 1
    MaxEvents = 3
CHECK_DEADLOCK FALSE
PROPERTY LossIsReported
