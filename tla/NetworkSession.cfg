SPECIFICATION LiveSpec
CONSTANTS
    LaneCap <- MCLaneCap
    MaxBurst = 1
    CoalesceMoves = TRUE
    BatchFrames = 3
    BatchUnits = 4
    MaxOutstanding = 1
    DegradedAfter = 1
    DisconnectAfter = 2
    MaxNonce = 2
    PointerDevices <- MCPointerDevices
    MaxTracked = 1
    MaxPacket = 4
    MaxReliable = 1
    MaxAttempts = 2
    RecoverySplit = 4
    RecoveryQueue = 1
    Ends <- MCEnds
    Ranges <- MCRanges
    Submits <- MCSubmits
    ChannelCap = 4
    EventCap = 4
    Window = 2
    MaxEvents = 2
INVARIANTS
    EndsAccounted
    OrderKept
    MotionConserved
PROPERTIES
    StaysLive
CHECK_DEADLOCK FALSE
