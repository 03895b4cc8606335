SPECIFICATION Spec
CONSTANTS
    Sources = {"A", "B", "U"}
    UnsafeSources = {"U"}
    Loops = {1}
    RawCap = 1
    EventCap = 1
    MaxSources = 1
    MaxSourceAttempts = 2
    MaxGlobalAttempts = 3
    MaxPerSource = 2
    MaxHandshakes = 2
    MaxAcceptErrors = 2
    MaxSockets = 3
    MaxStarts = 2
    MaxHarm = 2
    MaxMessages = 1
    MaxObservations = 2
    MaxTrouble = 1
    QueueCap = 1
    MaxPackets = 2
    HidRuns = 2
    HidTrouble = 1
    HidQueueCap = 1
    HidValues = 2
    HidDevices = {"keyboard"}
    Names = {"own", "other"}
    Records <- RecordsDef
    MaximumServices = 1
    ResolvedTtl = 2
    Horizon = 4
    MaxQueued = 1
    MaxMishaps = 1
    RemoteHosts = {a, b, c}
    MaxRemoteHosts = 2
    PerHost = 1
    Total = 1
    Items = {1}
    MaxMoves = 5
    Desk <- DeskDef
    Sizes <- SizesDef
    MaxX = 1
    MaxY = 2
    Bundles = {1, 2}
    Addresses = {1, 2}
    MaxRuns = 2
    MaxCommands = 3
    MaxWoes = 1
    MaxKeyEvents = 4
    MaxRefusals = 2
    Width = 4
    Limit = 2
    MaxMotions = 4
    MaxQuartz = 2
    Threads = {1, 2}
    Buckets = 2
    MaxEpoch = 3
    MaxRecords = 3
    MaxCount = 2
    Configs = {"c1", "c2"}
    MaxSaves = 3
    MaxDisasters = 2
    Texts = {"t", "s", "big"}
    LargeTexts = {"big"}
    UpdateCap = 1
    MaxClipEvents = 3
    MaxChannels = 2
    MaxUpsets = 1
    MaxAdmissions = 1
    Servers = {1}
    MaxLog = 2
    MaxStreams = 2
    MaxForgotten = 1
INVARIANT
    RecoveredSessionLives
CHECK_DEADLOCK FALSE
