SPECIFICATION MCSpec
CONSTANTS
    Slots = {1, 2, 3, 4}
    MaxHandlers = 1
    SlowTasks <- UdpSlow
    MaxApplies = 4
    Heap <- MixedHeap
    Foreign <- OldProcess
INVARIANTS NoOrphanListener HandlesMatchConfig
PROPERTY SocketsFollow
CHECK_DEADLOCK FALSE
