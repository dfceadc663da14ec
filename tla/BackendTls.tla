----------------------------- MODULE BackendTls -----------------------------
(***************************************************************************)
(* From BackendTLSPolicies to the connections of requests: the part of a   *)
(* reconcile tick that validates policies, settles which one holds for a   *)
(* Service and expands backends to endpoints; and the upstream side of a   *)
(* request, which makes a peer from its plan and takes a pooled connection *)
(* or verifies the server of a new one.                                    *)
(*                                                                         *)
(* Everything is in one namespace: a policy's target always is in its own. *)
(* The API server and Pingora's connection pool are external.  A CA bundle *)
(* is the sequence of the ConfigMaps' contents it is concatenated from.    *)
(***************************************************************************)
EXTENDS Integers, Sequences, FiniteSets

CONSTANTS
    PolicySpec,     \* by name: [created, rank, targets, refs, hostname, sans], `rank` the
                    \* place of namespace/name in alphabetical order
    ServiceSpec,    \* by name: [headless, selected, ports], a port [port, name, target, app]
    EndpointSpec,   \* by address: [service, ports], a port [name, port]
    RouteBackends,  \* per kind of route: the [service, port] its rules refer to
    RouteParents,   \* per kind of route: the Gateways it is attached to
    Contents,       \* what a ConfigMap may have under ca.crt
    Authorities,    \* those of the Contents that hold a CA certificate
    Certificates,   \* what a Service's pods may present: [issuer, names]
    Cluster,        \* the resources at the start
    MaxChanges,     \* bound: changes to the resources
    MaxOutages,     \* bound: changes of the API server's health
    MaxExchanges    \* bound: requests

Policies == DOMAIN PolicySpec
RouteKinds == DOMAIN RouteBackends
Unset == "unset"

ASSUME BackendTlsAssumption ==
    /\ Authorities \subseteq Contents
    /\ \A p, q \in Policies : PolicySpec[p].rank = PolicySpec[q].rank => p = q
    /\ MaxChanges \in Nat /\ MaxOutages \in Nat /\ MaxExchanges \in Nat

VARIABLES
    cluster,        \* [policies, maps, ready, secret, cert]: the resources and the pods
    reachable,      \* do requests to the API server succeed?
    changes, outages,
    step,           \* of the tick
    listed,         \* policies the tick has listed
    pre,            \* the ones validated so far
    states,         \* BackendTLSPolicyState of each policy listed
    services,       \* did the list of Services succeed?
    expanded,       \* per kind of route already expanded: the entries of its backends
    prev,           \* the view of the last tick
    routes,         \* the entries of the published table
    pstatus,        \* status of each policy
    client_cert,    \* the registry's client certificate; 0 is none
    exchange,       \* the request in flight
    pool,           \* idle connections
    exchanges

tickvars == <<step, listed, pre, states, services, expanded>>
viewvars == <<prev, routes, pstatus, client_cert>>
sentvars == <<exchange, pool, exchanges>>
btvars == <<cluster, reachable, changes, outages, tickvars, viewvars, sentvars>>

NoTls == [sni |-> Unset, ca |-> <<>>, sans |-> {}]
NoStatusYet == [accepted |-> FALSE, resolved |-> FALSE, programmed |-> FALSE, ancestors |-> {}]
NoExchange == [phase |-> "none"]

-----------------------------------------------------------------------------
(* Validation of policies. *)

\* targetRefs with one element; else a target without kind and name.
TargetRef(p) ==
    IF Len(PolicySpec[p].targets) = 1 THEN PolicySpec[p].targets[1]
    ELSE [kind |-> Unset, name |-> Unset, section |-> Unset]
TargetInvalid(p) == TargetRef(p).kind # "Service"
\* The kind is not part of the key by which policies conflict.
TargetKey(p) == <<TargetRef(p).name, TargetRef(p).section>>

\* A reference that resolves adds its ConfigMap's ca.crt, whatever it contains.
RefKindOK(r) == r.kind = "ConfigMap"
RefResolves(r) == RefKindOK(r) /\ reachable /\ cluster.maps[r.name] \notin {"absent", "empty"}

Prevalidate(p) ==
    LET refs == PolicySpec[p].refs
        good == SelectSeq(refs, RefResolves)
    IN  [bundle |-> [i \in DOMAIN good |-> cluster.maps[good[i].name]],
         bad_kinds |-> Cardinality({i \in DOMAIN refs : ~RefKindOK(refs[i])}),
         bad |-> Len(refs) - Len(good)]

\* min_by_key of (created_at, namespace/name) over the policies with the same key.
OlderPolicy(p, q) ==
    \/ PolicySpec[p].created < PolicySpec[q].created
    \/ PolicySpec[p].created = PolicySpec[q].created /\ PolicySpec[p].rank < PolicySpec[q].rank
IsWinner(p) == \A q \in listed \ {p} : TargetKey(q) = TargetKey(p) => OlderPolicy(p, q)

BuildState(p) ==
    LET v == pre[p]
        reason == IF ~IsWinner(p) THEN "Conflicted"
                  ELSE IF TargetInvalid(p) THEN "InvalidKind"
                  ELSE IF PolicySpec[p].refs # <<>> /\ v.bad = Len(PolicySpec[p].refs)
                       THEN "NoValidCACertificate"
                  ELSE "Accepted"
        resolved == v.bad = 0
    IN  [accepted |-> reason = "Accepted", reason |-> reason, resolved |-> resolved,
         kinds_ok |-> v.bad_kinds = 0,
         programmed |-> reason = "Accepted" /\ resolved, bundle |-> v.bundle]

\* build_service_to_gateways; without any Gateway the Service itself is the ancestor.
Ancestors(p) ==
    LET to == {k \in RouteKinds : \E b \in RouteBackends[k] : b.service = TargetRef(p).name}
        gateways == UNION {RouteParents[k] : k \in to}
    IN  IF gateways = {} THEN {TargetRef(p).name} ELSE gateways

\* patch_status: the three conditions, under each ancestor.
StatusOf(p, state) ==
    [accepted |-> state.accepted, resolved |-> state.resolved, programmed |-> state.programmed,
     ancestors |-> Ancestors(p)]

-----------------------------------------------------------------------------
(* Expansion of backends. *)

Attachment(p) ==
    [sni |-> PolicySpec[p].hostname, ca |-> states[p].bundle, sans |-> PolicySpec[p].sans]

\* A policy that lost its Service to an older one counts all the same.
PolicyMapResolved(key) ==
    LET eligible == {p \in DOMAIN states : states[p].resolved /\ TargetKey(p) = key}
    IN  IF eligible = {} THEN NoTls
        ELSE Attachment(CHOOSE p \in eligible :
                \A q \in eligible : PolicySpec[q].rank <= PolicySpec[p].rank)

\* build_tls_policy_map: the attachment under a key; a later policy of the list replaces
\* an earlier one.
PolicyMap(key) ==
    LET eligible == {p \in DOMAIN states :
                        states[p].accepted /\ states[p].programmed /\ TargetKey(p) = key}
    IN  IF eligible = {} THEN NoTls
        ELSE Attachment(CHOOSE p \in eligible :
                \A q \in eligible : PolicySpec[q].rank <= PolicySpec[p].rank)

\* The first port of the Service with the number of the reference, as a sequence of at most one.
PortOf(b) ==
    LET ports == SelectSeq(ServiceSpec[b.service].ports, LAMBDA p : p.port = b.port)
    IN  IF ports = <<>> THEN <<>> ELSE <<ports[1]>>

\* The policy for the named port, else the one for the whole Service.
TlsFor(b) ==
    LET port == PortOf(b)
        named == IF port = <<>> \/ port[1].name = Unset THEN NoTls
                 ELSE PolicyMap(<<b.service, port[1].name>>)
    IN  IF named # NoTls THEN named ELSE PolicyMap(<<b.service, Unset>>)

ServicePortProtocol(b) == IF PortOf(b) = <<>> THEN "Http" ELSE PortOf(b)[1].app

NeedsEndpointResolution(s) == ServiceSpec[s].headless \/ ~ServiceSpec[s].selected

\* The port of an endpoint: by name, else its only one, else the Service's numeric
\* targetPort; 0 is none.
ResolveEndpointPort(b, e) ==
    LET ports == ServiceSpec[b.service].ports
        port == IF PortOf(b) # <<>> THEN PortOf(b) ELSE SubSeq(ports, 1, 1)
        slice == EndpointSpec[e].ports
        same == IF port = <<>> THEN <<>> ELSE SelectSeq(slice, LAMBDA q : q.name = port[1].name)
    IN  IF port = <<>> THEN 0
        ELSE IF same # <<>> THEN same[1].port
        ELSE IF Len(slice) = 1 THEN slice[1].port
        ELSE port[1].target

Entry(b, addr, port, protocol, tls) ==
    [service |-> b.service, addr |-> addr, port |-> port, protocol |-> protocol, tls |-> tls]
\* The backend as the route's parser made it: the Service's DNS name, plain HTTP.
Parsed(b) == Entry(b, b.service, b.port, "Http", NoTls)

\* expand_rule_backends, for one backend and the endpoints that are ready.
ExpandBackend(b, ready) ==
    IF b.service \notin DOMAIN ServiceSpec THEN {Parsed(b)} ELSE
    LET tls == TlsFor(b)
        protocol == IF tls # NoTls THEN "Https" ELSE ServicePortProtocol(b)
        endpoints == {e \in ready : EndpointSpec[e].service = b.service /\ ResolveEndpointPort(b, e) # 0}
    IN  IF NeedsEndpointResolution(b.service) /\ endpoints # {}
        THEN {Entry(b, e, ResolveEndpointPort(b, e), protocol, tls) : e \in endpoints}
        ELSE {Entry(b, b.service, b.port, protocol, tls)}

-----------------------------------------------------------------------------
(* The resources, and whether the API server can be reached. *)

Change(new) ==
    /\ changes < MaxChanges /\ new # cluster
    /\ cluster' = new /\ changes' = changes + 1
    /\ UNCHANGED <<reachable, outages, tickvars, prev, routes, client_cert, sentvars>>

ToggledPolicies(p) == IF p \in cluster.policies THEN cluster.policies \ {p} ELSE cluster.policies \cup {p}
EditPolicy(p) ==
    /\ Change([cluster EXCEPT !.policies = ToggledPolicies(p)])
    /\ pstatus' = [pstatus EXCEPT ![p] = NoStatusYet]
EditConfigMap(m, c) == Change([cluster EXCEPT !.maps[m] = c]) /\ UNCHANGED pstatus
EditEndpoints(S) == Change([cluster EXCEPT !.ready = S]) /\ UNCHANGED pstatus
EditSecret(n) == Change([cluster EXCEPT !.secret = n]) /\ UNCHANGED pstatus
RedeployPods(s, c) == Change([cluster EXCEPT !.cert[s] = c]) /\ UNCHANGED pstatus

Outage ==
    /\ outages < MaxOutages
    /\ reachable' = ~reachable /\ outages' = outages + 1
    /\ UNCHANGED <<cluster, changes, tickvars, viewvars, sentvars>>

EditTrust ==
    \/ \E p \in Policies : EditPolicy(p)
    \/ \E m \in DOMAIN cluster.maps, c \in Contents : EditConfigMap(m, c)
ScalePods == \E S \in SUBSET DOMAIN EndpointSpec : EditEndpoints(S)
EditCredentials ==
    \/ EditSecret(cluster.secret + 1)
    \/ \E s \in DOMAIN cluster.cert, c \in Certificates : RedeployPods(s, c)

-----------------------------------------------------------------------------
(* The tick. *)

BTInit ==
    /\ cluster = Cluster
    /\ reachable = TRUE /\ changes = 0 /\ outages = 0
    /\ step = "policies" /\ listed = {} /\ pre = <<>> /\ states = <<>>
    /\ services = FALSE /\ expanded = <<>>
    /\ prev = <<>> /\ routes = [k \in RouteKinds |-> {}]
    /\ pstatus = [p \in Policies |-> NoStatusYet]
    /\ client_cert = 0
    /\ exchange = NoExchange /\ pool = {} /\ exchanges = 0

\* A list that fails counts as empty.
ListPolicies ==
    /\ step = "policies"
    /\ listed' = IF reachable THEN cluster.policies ELSE {}
    /\ pre' = <<>>
    /\ step' = "validate"
    /\ UNCHANGED <<cluster, reachable, changes, outages, states, services, expanded, viewvars, sentvars>>

\* prevalidate of the next policy, its ConfigMaps fetched at once.
ValidatePolicy ==
    /\ step = "validate" /\ DOMAIN pre # listed
    /\ LET left == listed \ DOMAIN pre
           p == CHOOSE q \in left : \A r \in left : PolicySpec[q].rank <= PolicySpec[r].rank
       IN  pre' = [q \in DOMAIN pre \cup {p} |-> IF q = p THEN Prevalidate(p) ELSE pre[q]]
    /\ UNCHANGED <<cluster, reachable, changes, outages, step, listed, states, services, expanded,
                   viewvars, sentvars>>

\* Conflicts are resolved and the statuses patched, as the leader; a patch that fails is logged.
SettlePolicies ==
    /\ step = "validate" /\ DOMAIN pre = listed
    /\ states' = [p \in listed |-> BuildState(p)]
    /\ pstatus' = [p \in Policies |->
          IF reachable /\ p \in listed \cap cluster.policies THEN StatusOf(p, states'[p])
          ELSE pstatus[p]]
    /\ expanded' = <<>>
    /\ step' = "services"
    /\ UNCHANGED <<cluster, reachable, changes, outages, listed, pre, services, prev, routes,
                   client_cert, sentvars>>

\* resolve_service_endpoints is called for HTTPRoutes, then for GRPCRoutes.
CurrentKind == IF "HTTPRoute" \in DOMAIN expanded THEN "GRPCRoute" ELSE "HTTPRoute"

ListServices ==
    /\ step = "services"
    /\ services' = reachable
    /\ step' = "slices"
    /\ UNCHANGED <<cluster, reachable, changes, outages, listed, pre, states, expanded, viewvars, sentvars>>

\* If either list has failed, the backends stay as they were parsed.
ListEndpointSlices ==
    /\ step = "slices"
    /\ LET k == CurrentKind
           entries == UNION {IF services /\ reachable THEN ExpandBackend(b, cluster.ready) ELSE {Parsed(b)} :
                                b \in RouteBackends[k]}
       IN  /\ expanded' = [j \in DOMAIN expanded \cup {k} |-> IF j = k THEN entries ELSE expanded[j]]
           /\ step' = IF k = "GRPCRoute" THEN "publish" ELSE "services"
    /\ UNCHANGED <<cluster, reachable, changes, outages, listed, pre, states, services, viewvars, sentvars>>

\* The lists of stream routes end the tick when they fail; a view that differs from the
\* last one is published.
PublishView ==
    /\ step = "publish"
    /\ LET view == <<states, expanded>>
           changed == reachable /\ prev # view
       IN  /\ prev' = IF reachable THEN view ELSE prev
           /\ routes' = IF changed THEN expanded ELSE routes
           /\ step' = IF changed THEN "certs" ELSE "policies"
    /\ listed' = {} /\ pre' = <<>> /\ states' = <<>> /\ services' = FALSE /\ expanded' = <<>>
    /\ UNCHANGED <<cluster, reachable, changes, outages, pstatus, client_cert, sentvars>>

\* load_gateway_backend_client_cert, merge_cert_store and the registry's swap.
RefreshClientCert ==
    /\ step = "certs"
    /\ client_cert' = IF reachable THEN cluster.secret ELSE 0
    /\ step' = "policies"
    /\ UNCHANGED <<cluster, reachable, changes, outages, listed, pre, states, services, expanded,
                   prev, routes, pstatus, sentvars>>

TickStep ==
    \/ ListPolicies \/ ValidatePolicy \/ SettlePolicies
    \/ ListServices \/ ListEndpointSlices \/ PublishView \/ RefreshClientCert

-----------------------------------------------------------------------------
(* The upstream side of a request. *)

\* A request is given an entry of its plan; the plan is its own from now on.
PickBackend(e) ==
    /\ exchange.phase = "none" /\ exchanges < MaxExchanges
    /\ exchange' = [phase |-> "peer", entry |-> e]
    /\ exchanges' = exchanges + 1
    /\ UNCHANGED <<cluster, reachable, changes, outages, tickvars, viewvars, pool>>

\* The SANs are forgotten.
TrustHashOfCa(tls) == <<tls.ca>>
TrustHash(tls) == <<tls.ca, tls.sans>>

\* make_peer.  With a CA bundle the handshake is a connector's of the proxy, and Pingora takes
\* the peer for a plain one.
IsTls(e) == e.protocol = "Https"
OwnConnector(e) == IsTls(e) /\ e.tls.ca # <<>>
MakePeer(e) ==
    [addr |-> <<e.addr, e.port>>, service |-> e.service, is_tls |-> IsTls(e),
     scheme |-> IF IsTls(e) /\ ~OwnConnector(e) THEN "HTTPS" ELSE "HTTP",
     tls |-> IF IsTls(e) THEN e.tls ELSE NoTls,
     cert |-> IF IsTls(e) THEN client_cert ELSE 0,
     group_key |-> IF OwnConnector(e) THEN TrustHash(e.tls) ELSE <<>>]

\* A TLS backend without a TLS configuration, or an address that does not resolve, has no peer
\* and the request ends with 502.
UpstreamPeerOf ==
    /\ exchange.phase = "peer"
    /\ \/ exchange' = NoExchange
       \/ /\ IsTls(exchange.entry) => exchange.entry.tls # NoTls
          /\ exchange' = [phase |-> "connect", peer |-> MakePeer(exchange.entry)]
    /\ UNCHANGED <<cluster, reachable, changes, outages, tickvars, viewvars, pool, exchanges>>

\* What Pingora tells pooled connections apart by.
ReuseKey(peer) == <<peer.addr, peer.scheme, peer.tls.sni, peer.cert, peer.group_key>>

\* DynamicVerifier, or Pingora's own connector when there is no CA bundle: the chain leads
\* to a trusted root and the certificate is for the host; the SANs are checked by the former.
Verifies(peer, cert) ==
    LET own == peer.tls.ca # <<>>
        roots == IF own THEN {peer.tls.ca[i] : i \in DOMAIN peer.tls.ca} \cap Authorities ELSE {"public"}
    IN  /\ cert.issuer \in roots
        /\ peer.tls.sni \in cert.names
        /\ own /\ peer.tls.sans # {} => peer.tls.sans \cap cert.names # {}

Reuse(c) ==
    /\ exchange.phase = "connect"
    /\ c.key = ReuseKey(exchange.peer)
    /\ pool' = pool \ {c}
    /\ exchange' = [phase |-> "sent", peer |-> exchange.peer, conn |-> c]
    /\ UNCHANGED <<cluster, reachable, changes, outages, tickvars, viewvars, exchanges>>

\* A new connection, if it comes about; the pods of the Service answer with the certificate
\* they have.
Connect ==
    LET peer == exchange.peer
    IN  /\ exchange.phase = "connect"
        /\ ~\E c \in pool : c.key = ReuseKey(peer)
        /\ \/ exchange' = NoExchange
           \/ /\ peer.is_tls => Verifies(peer, cluster.cert[peer.service])
              /\ exchange' = [phase |-> "sent", peer |-> peer,
                              conn |-> [key |-> ReuseKey(peer), peer |-> peer]]
        /\ UNCHANGED <<cluster, reachable, changes, outages, tickvars, viewvars, pool, exchanges>>

\* The exchange ends; the connection is kept or not.
Finish ==
    /\ exchange.phase = "sent"
    /\ pool' \in {pool, pool \cup {exchange.conn}}
    /\ exchange' = NoExchange
    /\ UNCHANGED <<cluster, reachable, changes, outages, tickvars, viewvars, exchanges>>

RequestTo(s) == \E k \in RouteKinds : \E e \in routes[k] : e.service = s /\ PickBackend(e)
Upstream ==
    \/ UpstreamPeerOf
    \/ \E c \in pool : Reuse(c)
    \/ Connect \/ Finish

BTNext ==
    \/ EditTrust \/ EditCredentials \/ ScalePods \/ Outage \/ TickStep \/ Upstream
    \/ \E b \in UNION {RouteBackends[k] : k \in RouteKinds} : RequestTo(b.service)
BTSpec == BTInit /\ [][BTNext]_btvars /\ WF_btvars(TickStep)

-----------------------------------------------------------------------------
\* What a connection was verified for; without a CA bundle the SANs are not looked at.
EstablishedFor(peer) ==
    [addr |-> peer.addr, is_tls |-> peer.is_tls, sni |-> peer.tls.sni, cert |-> peer.cert,
     ca |-> peer.tls.ca, sans |-> IF peer.tls.ca = <<>> THEN {} ELSE peer.tls.sans]

\* "Connections established with different CA bundles are not reused for each other"
\* (trust_hash): the connection a request is sent on was made and verified for exactly the
\* address, CA bundle, host name, SANs and client certificate of the plan that the request
\* holds, whatever policies, ConfigMaps and client certificates have been exchanged meanwhile.
ExchangesVerified ==
    exchange.phase = "sent" => EstablishedFor(exchange.conn.peer) = EstablishedFor(exchange.peer)

\* A policy that would hold on its own.
Sound(p) ==
    /\ Len(PolicySpec[p].targets) = 1 /\ PolicySpec[p].targets[1].kind = "Service"
    /\ \A i \in DOMAIN PolicySpec[p].refs :
          LET r == PolicySpec[p].refs[i]
          IN  r.kind = "ConfigMap" /\ cluster.maps[r.name] \notin {"absent", "empty"}

Naming(s) == {p \in cluster.policies : TargetRef(p).name = s}

\* The trust a policy asks for, of the ConfigMaps as they are.
Asked(p) ==
    [sni |-> PolicySpec[p].hostname, sans |-> PolicySpec[p].sans,
     ca |-> [i \in DOMAIN PolicySpec[p].refs |-> cluster.maps[PolicySpec[p].refs[i].name]]]

\* t is what the oldest policy of P asks for.
FromOldest(P, t) == \E p \in P : t = Asked(p) /\ \A q \in P \ {p} : OlderPolicy(p, q)

\* The entry's trust is that of the oldest policy for its port, else for its Service, when all
\* policies of the Service are sound, and none when there is no sound one.
RightlyPinned(b, e) ==
    LET port == PortOf(b)
        on(section) == {p \in Naming(b.service) : TargetRef(p).section = section}
        own == IF port = <<>> \/ port[1].name = Unset THEN {} ELSE on(port[1].name)
        all == on(Unset)
    IN  /\ (\A p \in Naming(b.service) : Sound(p)) =>
              IF own \cup all = {} THEN e.tls = NoTls
              ELSE FromOldest(IF own # {} THEN own ELSE all, e.tls)
        /\ (\A p \in Naming(b.service) : ~Sound(p)) => e.tls = NoTls

\* The addresses of a Service that is expanded are those of its ready endpoints, if any.
RightlyAddressed(b, entries) ==
    LET live == {e \in cluster.ready : EndpointSpec[e].service = b.service}
    IN  {e.addr : e \in entries} = IF NeedsEndpointResolution(b.service) /\ live # {} THEN live
                                   ELSE {b.service}

EntriesOf(k, b) == {e \in routes[k] : e.service = b.service /\ (e.addr = b.service => e.port = b.port)}

BackendsRight ==
    \A k \in RouteKinds : \A b \in RouteBackends[k] : b.service \in DOMAIN ServiceSpec =>
        /\ \A e \in EntriesOf(k, b) : RightlyPinned(b, e)
        /\ RightlyAddressed(b, EntriesOf(k, b))

\* A policy reported as programmed has its Service reached by TLS only.
StatusesRight ==
    \A p \in cluster.policies : pstatus[p].programmed =>
        \A k \in RouteKinds : \A e \in routes[k] :
            e.service = TargetRef(p).name /\ TargetRef(p).section = Unset => e.tls # NoTls

\* The same of every state: a Service with a policy that is reported as programmed is never
\* served without TLS.  It does not hold: a failed list counts as an empty one.
ServedTrusted == step = "policies" => StatusesRight

\* docs/gateway-api.md: the upstream certificate is verified "against the configured CA,
\* hostname, and subject alternative names", and "the oldest one wins".  Once the API server can be
\* reached for good, every backend comes to have the trust of the oldest policy and the
\* addresses of the endpoints that are ready, and the statuses say so, although each list and each
\* ConfigMap of a tick is fetched on its own and some of those that fail count as empty.
BackendsFollow == <>[]reachable => <>[](BackendsRight /\ StatusesRight)

=============================================================================
