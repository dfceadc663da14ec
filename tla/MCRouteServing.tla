--------------------------- MODULE MCRouteServing ---------------------------
(***************************************************************************)
(* Instance of RouteServing: eight tables whose hosts overlap by hostname, *)
(* listener and port, and whose listeners meet on address 443.             *)
(***************************************************************************)
EXTENDS RouteServing

MCSourceIds == {"gateway-api", "caddyfile", "toml"}
MCPriority == [s \in MCSourceIds |->
                 CASE s = "gateway-api" -> 100 [] s = "caddyfile" -> 50 [] s = "toml" -> 0]
MCIdRank == [s \in MCSourceIds |->
                 CASE s = "caddyfile" -> 1 [] s = "gateway-api" -> 2 [] s = "toml" -> 3]

AX == <<"a", "x">>
BX == <<"b", "x">>
CY == <<"c", "y">>
MCHosts == {AX, BX, CY}
MCPorts == {80, 443}

Host(hm, lh, port, rules, tag) ==
    [hostname |-> hm, listener_hostname |-> lh, listener_port |-> port, rules |-> rules, tag |-> tag]
Listener(id, addr, protocol, tls, validation) ==
    [id |-> id, bind_addr |-> addr, protocol |-> protocol, tls |-> tls, validation |-> validation]
Route(id, lh, match, action) ==
    [listener_id |-> id, listener_hostname |-> lh, match |-> match, action |-> action]
Table(listeners, hosts, routes) ==
    [listeners |-> listeners, hosts |-> hosts, l4_routes |-> routes]

MCTables ==
    {Table(<<>>, <<Host(Exact(AX), AnyHost, AnyPort, 1, 1), Host(AnyHost, AnyHost, 80, 1, 2)>>, <<>>),
     Table(<<>>, <<Host(Wildcard(<<"x">>), Exact(AX), 80, 2, 3), Host(Exact(AX), AnyHost, AnyPort, 1, 4)>>, <<>>),
     Table(<<>>, <<Host(Wildcard(<<"x">>), Exact(<<>>), AnyPort, 1, 5), Host(Prefix(<<"a">>), AnyHost, 443, 1, 6),
                   Host(AnyHost, AnyHost, AnyPort, 1, 9)>>, <<>>),
     Table(<<>>, <<Host(Wildcard(<<"x">>), AnyHost, AnyPort, 2, 7), Host(AnyHost, AnyHost, 443, 1, 8)>>, <<>>),
     Table(<<Listener("sec", 443, "Https", TRUE, "fallback"), Listener("alt", 8443, "Https", TRUE, None)>>, <<>>,
           <<Route("sec", Exact(AX), Exact(AX), "TerminateAndHttp")>>),
     Table(<<Listener("tls", 443, "Tls", TRUE, "strict"), Listener("web", 80, "Http", FALSE, None)>>, <<>>,
           <<Route("tls", AnyHost, AnySni, "TlsPassthrough"), Route("web", AnyHost, AnySni, "HttpRelay")>>),
     Table(<<Listener("tls2", 443, "Tls", TRUE, None)>>, <<>>,
           <<Route("tls2", Wildcard(<<"x">>), Exact(BX), "TlsTerminate")>>),
     Table(<<Listener("tls", 443, "Tls", FALSE, None)>>, <<>>, <<>>)}

=============================================================================
