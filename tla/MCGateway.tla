------------------------------ MODULE MCGateway ------------------------------
(* A Gateway with an HTTP, an HTTPS and a TCP listener, three ListenerSets    *)
(* that overlap, and routes of two namespaces.  `focus` is what a behaviour   *)
(* is about: the Gateway and the route table, or the statuses that the        *)
(* controllers of routes and ListenerSets write.                              *)
EXTENDS GatewayControl

VARIABLE focus

Listener(name, protocol, port, hostname, from, kinds, secrets) ==
    [name |-> name, protocol |-> protocol, port |-> port, hostname |-> hostname,
     from |-> from, kinds |-> kinds, secrets |-> secrets]

Certificate == [ns |-> "certs", name |-> "wildcard"]

MCGwListeners ==
    <<Listener("http", "HTTP", 80, AnyHost, "All", {"HTTPRoute"}, {}),
      Listener("https", "HTTPS", 443, WildcardHost(<<"b", "ex">>), "Same", {}, {Certificate}),
      Listener("tcp", "TCP", 9000, AnyHost, "Same", {}, {})>>

Extra(name, port, hostname) == Listener(name, "HTTP", port, hostname, "Selector", {}, {})

\* s1 and s2 overlap on port 81, s2 and s3 on port 82.
MCSetSpec ==
    [s1 |-> [ns |-> "team", rank |-> 3, parent_ns |-> "infra",
             listeners |-> <<Extra("x", 81, WildcardHost(<<"ex">>)), Extra("y", 443, ExactHost(<<"a", "b", "ex">>))>>],
     s2 |-> [ns |-> "team", rank |-> 2, parent_ns |-> "infra",
             listeners |-> <<Extra("x", 81, ExactHost(<<"a", "ex">>)), Extra("y", 82, AnyHost)>>],
     s3 |-> [ns |-> "infra", rank |-> 1, parent_ns |-> None,
             listeners |-> <<Extra("x", 82, ExactHost(<<"b", "ex">>)), Extra("y", 9090, AnyHost)>>]]

Parent(kind, name, section, port) ==
    [kind |-> kind, ns |-> "infra", name |-> name, section |-> section, port |-> port]

Service(ns) == [ns |-> ns, kind |-> "Service", name |-> "web"]

MCRouteSpec ==
    [site |-> [kind |-> "HTTPRoute", ns |-> "infra", hostnames |-> {ExactHost(<<"a", "b", "ex">>)},
               parents |-> {Parent("Gateway", "gw", None, 0)}, backend |-> Service("certs")],
     team |-> [kind |-> "HTTPRoute", ns |-> "team", hostnames |-> {},
               parents |-> {Parent("Gateway", "gw", None, 443),
                            [Parent("ListenerSet", "s2", None, 0) EXCEPT !.ns = None]},
               backend |-> Service("team")],
     rpc |-> [kind |-> "GRPCRoute", ns |-> "infra", hostnames |-> {WildcardHost(<<"ex">>)},
              parents |-> {Parent("Gateway", "gw", "https", 0)}, backend |-> Service("infra")],
     stream |-> [kind |-> "TCPRoute", ns |-> "infra", hostnames |-> {},
                 parents |-> {Parent("Gateway", "gw", "tcp", 9000)}, backend |-> Service("infra")]]

MCSecretGrant == [ns |-> "certs", from |-> {<<"Gateway", "infra">>}, to |-> {<<"Secret", None>>}]
MCBackendGrant == [ns |-> "certs", from |-> {<<"HTTPRoute", "infra">>}, to |-> {<<"Service", "web">>}]
\* A grant of another namespace for the same reference.
MCOtherGrant == [ns |-> "team", from |-> {<<"HTTPRoute", "infra">>}, to |-> {<<"Service", None>>}]

MCInitially ==
    [created |-> [s \in DOMAIN MCSetSpec |-> 0], routes |-> {"site"},
     grants |-> {MCSecretGrant, MCBackendGrant, MCOtherGrant}, secrets |-> {Certificate},
     validation |-> FALSE]

GatewayInit == GInit /\ focus \in {"gateway", "routes"}
GatewayNext ==
    /\ \/ Users
       \/ Tick
       \/ focus = "gateway" /\ GatewayController
       \/ focus = "routes" /\ RouteControllers
    /\ UNCHANGED focus
GatewayFairness ==
    /\ WF_gvars(Tick)
    /\ WF_gvars(focus = "gateway" /\ ReconcileGateway(AllLists))
    /\ WF_gvars(focus = "gateway" /\ PatchGateway)
    /\ \A r \in Routes : WF_gvars(focus = "routes" /\ ReconcileRoute(r))
GatewaySpec == GatewayInit /\ [][GatewayNext]_<<gvars, focus>> /\ GatewayFairness

\* AttachmentsAgree and StatusTellsServed, of the behaviours they are about.
CountsAgree == focus = "gateway" => AttachmentsAgree
RouteStatusesAgree == focus = "routes" => StatusTellsServed

MCGrants == {MCSecretGrant, MCBackendGrant}
MCSecrets == {Certificate}
=============================================================================
