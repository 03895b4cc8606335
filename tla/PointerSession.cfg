CONSTANTS
    a = a
    b = b
    Hosts <- TwoHosts
    MaxGen = 1
    MaxId = 2
    MaxRevision = 2
    MaxFaults = 2
SPECIFICATION LiveSpec
INVARIANTS
    SidesAgree
PROPERTIES
    TokenKept
    HandoffsEnd
CHECK_DEADLOCK FALSE
