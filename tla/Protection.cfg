SPECIFICATION ProtectionSpec
CONSTANTS
    Callers = {c1, c2}
    Clients <- MCClients
    BypassCidrs <- MCBypassCidrs
    Scale = 3
    Burst <- MCBurst
    Rate <- MCRate
    StaleAfter = 3
    MaxClock = 4
    Rules <- MCRules
    Agents = {"g", "b", "c", "d", "e", "f"}
    Addresses = {"ip"}
    Hosts <- MCHosts
    CacheTtl = 2
    MaxTime = 4
    MaxPending = 2
    MaxEdits = 1
    PolicySpec <- MCPolicySpec
    ServiceSpec <- MCServiceSpec
    EndpointSpec <- MCEndpointSpec
    RouteBackends <- MCRouteBackends
    RouteParents <- MCRouteParents
    Contents = {"ca1", "ca2", "empty", "garbage"}
    Authorities = {"ca1", "ca2"}
    Certificates <- MCCertificates
    Cluster <- MCCluster
    MaxChanges = 2
    MaxOutages = 2
    MaxExchanges = 2
INVARIANTS
    GrantsBounded
    RetryAfterSuffices
    AllowedIsVerified
    ExchangesVerified
PROPERTY
    TrustFollows
CHECK_DEADLOCK FALSE
