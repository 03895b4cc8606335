SPECIFICATION PanelLive
CONSTANTS Hosts = {"mac", "win"}
 Rank <- RankOf
 NetCap = 2
 MaxRequests = 2
 MaxRevision = 2
 MaxFaults = 2
INVARIANTS PairingAgreed MapsAgree
PROPERTY MapReachesFollower
CHECK_DEADLOCK FALSE
