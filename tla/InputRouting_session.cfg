CONSTANTS
    d1 = d1
    d2 = d2
    c1 = c1
    c2 = c2
    c3 = c3
    Devices = {d1}
    Controls = {c1, c2, c3}
    Keys <- OneKey
    Chord = {c2}
    MaxGen = 2
    MaxPhysical = 1
    MaxHeld = 1
    MaxCleanup = 1
    FifoCap = 2
    MaxSeq = 4
    Features = {"Handoff", "Fault", "Degrade", "InjectionFails", "Shutdown", "Contention"}
SPECIFICATION Spec
INVARIANTS
    LedgerCoversPeer
    FramesAcceptable
    ReplacementInstallable
