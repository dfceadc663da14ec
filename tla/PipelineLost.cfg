SPECIFICATION MCPipelineSpec
CONSTANTS
    SourceIds <- MCSourceIds
    Priority <- MCPriority
    IdRank <- MCIdRank
    Tables <- MCTables
    NoTable = NoTable
    GatewayApi = "gateway-api"
    Caddyfile = "caddyfile"
    Toml = "toml"
    MaxHistory = 1
    MaxSends = 2
    MaxRollbacks = 0
    Slots = {1, 2}
    MaxHandlers = 0
    SlowTasks = {}
INVARIANTS UpdatesReachSockets
