--------------------------- MODULE MCRouteManager ---------------------------
(***************************************************************************)
(* Instance of RouteManager: three sources, tables that differ in their    *)
(* listeners and one that the compiler rejects.                            *)
(***************************************************************************)
EXTENDS RouteManager

MCSourceIds == {"gateway-api", "caddyfile", "toml"}
MCPriority == [s \in MCSourceIds |->
                 CASE s = "gateway-api" -> 100 [] s = "caddyfile" -> 50 [] s = "toml" -> 0]
MCIdRank == [s \in MCSourceIds |->
                 CASE s = "caddyfile" -> 1 [] s = "gateway-api" -> 2 [] s = "toml" -> 3]

MCListener(id, addr, protocol, tls) ==
    [id |-> id, bind_addr |-> addr, protocol |-> protocol, tls |-> tls, validation |-> "none"]
MCTable(listeners) == [listeners |-> listeners, hosts |-> <<>>, l4_routes |-> <<>>]

MCEmptyTable == MCTable(<<>>)
MCHttp == MCTable(<<MCListener("web", 80, "Http", FALSE)>>)
MCBad == MCTable(<<MCListener("sec", 443, "Https", FALSE)>>)

MCTables == {MCEmptyTable, MCHttp, MCBad}

=============================================================================
