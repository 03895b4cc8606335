CONSTANTS
    d1 = d1
    d2 = d2
    c1 = c1
    c2 = c2
    c3 = c3
    Devices = {d1}
    Controls = {c1, c2, c3}
    Keys <- OneKeyboard
    Chord = {c1, c2}
    MaxGen = 1
    MaxPhysical = 2
    MaxHeld = 2
    MaxCleanup = 2
    FifoCap = 2
    MaxSeq = 6
    Features = {"Handoff", "Move"}
SPECIFICATION Spec
INVARIANTS
    CleanupLedger
PROPERTIES
    AuthorityAfterReleases
    LifecycleNeverSplits
    
