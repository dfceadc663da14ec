SPECIFICATION FairSpec
CONSTANTS
    SourceIds <- MCSourceIds
    Priority <- MCPriority
    IdRank <- MCIdRank
    Tables <- MCTables
    NoTable = NoTable
    GatewayApi = "gateway-api"
    Caddyfile = "caddyfile"
    Toml = "toml"
    MaxHistory = 2
    MaxSends = 4
    MaxRollbacks = 0
INVARIANTS TypeOK Coherent HistoryContiguous
PROPERTIES PublishedInOrder LatestServed ImplementsHotSwap
CHECK_DEADLOCK FALSE
