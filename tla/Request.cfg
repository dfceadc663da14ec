SPECIFICATION BoundedSpec
CONSTANTS
    Routes <- MCRoutes
    Requests <- MCRequests
    Threshold = 2
    MaxRoutes = 3
    Slots = {1, 2}
    Addrs = {"l1"}
    Arrivals <- MCArrivals
    Asks <- MCAsks
    Published <- MCPublished
    ListenerOf <- MCListenerOf
    Guess <- MCGuess
    TrustedProxies = {2}
    Trusted = FALSE
    ObserveOnly = {"scanner"}
    MaxClients = 2
    MaxRequests = 2
    RewriteLimit = 1
    MaxChunks = 2
INVARIANTS LookupBest ScopedToListener PlanHolds  BodyWhole
PROPERTIES RequestEnds
CHECK_DEADLOCK FALSE
