SPECIFICATION NodeSpec
CONSTANTS
    Nodes = {"me", "p"}
    Me = "me"
    Threads <- MCThreads
    Size = 2
    StaleTimeout = 2
    Window = 1
    Limit = 1
    MaxRecords = 2
    MaxFaults = 1
    MaxProcesses = 3
    MaxChanges = 3
    Resources = {r1}
    MaxGenerations = 1
    ViewCap = 1
    LocalCap = 1
    EventCap = 1
    GossipCap = 1
    MaxOutages = 1
INVARIANTS
    NothingUncounted
    LoadsPair
PROPERTIES
    BandwidthConverges
    HandoverFollows
    GossipFollows
CHECK_DEADLOCK FALSE
