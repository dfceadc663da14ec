SPECIFICATION RollbackSpec
CONSTANTS
    SourceIds <- MCSourceIds
    Priority <- MCPriority
    IdRank <- MCIdRank
    Tables <- MCTables
    NoTable = NoTable
    GatewayApi = "gateway-api"
    Caddyfile = "caddyfile"
    Toml = "toml"
    MaxHistory = 3
    MaxSends = 3
    MaxRollbacks = 2
PROPERTIES RollbackRestores
CHECK_DEADLOCK FALSE
