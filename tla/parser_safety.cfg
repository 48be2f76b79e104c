SPECIFICATION WireSpec
CONSTANTS
    Streams <- WireStreams
    ReadSize = 4
    MaxMessage = 3
    MaxBuffer = 8
    Names = {"Event-Name", "Content-Length", "body"}
    TypeNames = {"HEARTBEAT"}
    Values <- MCValues
    Bodies <- MCBodies
    Words <- MCWords
    MaxSent = 2
    MaxLength = 5
    Keys <- MCKeys
    VarValues <- MCVarValues
    AppNames = {"x"}
    AppArgs <- MCAppArgs
    Contexts <- MCContexts
    MaxTurns = 3
    MaxFields = 5
CHECK_DEADLOCK FALSE
INVARIANTS
    WireTypeOK
    CutsMakeNoDifference
    OnlyHeadersOverflow
    PlainTextComesBack
    FormatsAgree
    StacksKeepTheirOrder
    OneCommandEach
    CommandsAreDistinct
    VariablesComeBack
    OriginateComesBack
    FieldsReachTheirPlace
