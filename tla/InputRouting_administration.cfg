CONSTANTS
    d1 = d1
    d2 = d2
    c1 = c1
    c2 = c2
    c3 = c3
    Devices = {d1, d2}
    Controls = {c1, c2, c3}
    Keys <- OneKeyEach
    Chord = {c2}
    MaxGen = 1
    MaxPhysical = 2
    MaxHeld = 2
    MaxCleanup = 2
    FifoCap = 1
    MaxSeq = 3
    Features = {"Policy","Inventory"}
SPECIFICATION Spec
INVARIANTS
    CleanupGatesRouting
PROPERTIES
    
    InventoryAfterReleases
