SPECIFICATION ServingSpec
CONSTANTS
    SourceIds <- MCSourceIds
    Priority <- MCPriority
    IdRank <- MCIdRank
    Tables <- MCTables
    NoTable = NoTable
    Hosts <- MCHosts
    Ports <- MCPorts
INVARIANTS LookupIsMostSpecific OneSocketPerListener TlsRoutesReachable
PROPERTIES SocketsStable
