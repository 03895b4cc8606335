SPECIFICATION LiveSpec
CONSTANTS
    Dialer = 1
    Listener = 2
    Streams = {1, 2}
    Addresses = {1, 2}
    Reachable = {2}
    MaxFaults = 2
    InitialDelay = 1
    MaximumDelay = 2
    MaxCandidates = 2
    AcceptedCap = 1
INVARIANTS SlotsBacked 
PROPERTIES RevokedStaysOut 
CHECK_DEADLOCK FALSE
