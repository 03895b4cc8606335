CONSTANTS
    d1 = d1
    d2 = d2
    c1 = c1
    c2 = c2
    c3 = c3
    Devices = {d1}
    Controls = {c1, c2, c3}
    Keys <- FullKeyboard
    Chord = {c1}
    MaxGen = 1
    MaxPhysical = 2
    MaxHeld = 1
    MaxCleanup = 1
    FifoCap = 1
    MaxSeq = 4
    Features = {"Discontinue", "PeerReleases", "Displays"}
SPECIFICATION Spec
INVARIANTS
    HeldIsPressed
    CleanupAlwaysOwnable
