SPECIFICATION GatewaySpec
CONSTANTS
    GwNs = "infra"
    GwName = "gw"
    GwListeners <- MCGwListeners
    AllowedListeners = "All"
    Sets = {"s1", "s2", "s3"}
    SetSpec <- MCSetSpec
    Routes = {"site", "team", "rpc", "stream"}
    RouteSpec <- MCRouteSpec
    Labelled = {"team"}
    Reserved = {9090}
    Grants <- MCGrants
    Secrets <- MCSecrets
    Initially <- MCInitially
    MaxEdits = 2
    MaxFailures = 1
PROPERTIES FirstComeFirstServed CountsAgree RouteStatusesAgree RevokedGoes
CHECK_DEADLOCK FALSE
