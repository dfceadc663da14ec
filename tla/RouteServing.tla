---------------------------- MODULE RouteServing ----------------------------
(***************************************************************************)
(* What the proxy answers with the tables its sources have had accepted:   *)
(* the host lookup of CompiledRouteTable and the sockets and connection    *)
(* routing of CompiledL4Config, for every map of sources that a sequence   *)
(* of accepted swaps (HotSwap) can produce.                                *)
(***************************************************************************)
EXTENDS RouteTable

CONSTANTS
    Hosts,          \* sample of request hosts and SNI names
    Ports           \* sample of request ports

ASSUME HostsAssumption == NoSni \notin Hosts

VARIABLE served

Swaps == INSTANCE HotSwap WITH Rejects <- CompileError
ServingSpec == Swaps!Spec

Merged == MergeSources(served)
Lookup(host, port) == FindHostNode(CompileHosts(Merged.hosts), host, port)

\* A host route that claims the request, on its listener.
Claims(n, host, port) ==
    /\ IrHostnameMatches(host, n.hostname)
    /\ ListenerHostnameMatches(host, n.listener_hostname)
    /\ ListenerPortMatches(port, n.listener_port)

ListenerRank(n) == ListenerSpecificityScore(n.listener_hostname)
HostRank(n) == SpecificityScore(n.hostname)

-----------------------------------------------------------------------------
\* set_priority's "Higher priority sources win when both claim the same
\* hostname/prefix", for exact hostnames: of two sources that claim a request
\* with the same hostname and an equally specific listener, the one with the
\* higher priority answers it.
ExactPriority ==
    \A host \in Hosts, port \in Ports :
        LET found == Lookup(host, port)
        IN  \A s \in Reported(served) : \A n \in ToSet(served[s].hosts) :
              (/\ found # <<>>
               /\ n.hostname = found[1].hostname /\ n.hostname.kind = "exact"
               /\ Claims(n, host, port)
               /\ ListenerRank(n) = ListenerRank(found[1])) =>
                  \E o \in Reported(served) :
                      /\ found[1] \in ToSet(served[o].hosts)
                      /\ Priority[o] >= Priority[s]

\* find_host_node "respecting listener hostname/port isolation and specificity":
\* a request some exact, prefix or wildcard host claims is answered, by a host
\* that claims it, and no other such host has a more specific listener, or an
\* equally specific listener and a more specific hostname.  Between sources that
\* claim it with the same exact hostname, the priority decides.
LookupIsMostSpecific ==
    /\ ExactPriority
    /\ \A host \in Hosts, port \in Ports :
           LET found == Lookup(host, port)
               named == {n \in ToSet(Merged.hosts) :
                           n.hostname.kind # "any" /\ Claims(n, host, port)}
           IN  /\ named # {} => found # <<>>
               /\ found # <<>> =>
                     /\ found[1] \in ToSet(Merged.hosts)
                     /\ Claims(found[1], host, port)
                     /\ \A n \in named :
                           \/ ListenerRank(n) < ListenerRank(found[1])
                           \/ /\ ListenerRank(n) = ListenerRank(found[1])
                              /\ HostRank(n) <= HostRank(found[1])

\* ExactPriority for prefix and wildcard hostnames as well, as set_priority has it.  This
\* does not hold: equally specific ones are sorted by their number of rules, and only
\* then keep the order of the priorities.
HostnamePriority ==
    \A host \in Hosts, port \in Ports :
        LET found == Lookup(host, port)
        IN  \A s \in Reported(served) : \A n \in ToSet(served[s].hosts) :
              (/\ found # <<>>
               /\ n.hostname = found[1].hostname /\ n.hostname.kind # "any"
               /\ Claims(n, host, port)
               /\ ListenerRank(n) = ListenerRank(found[1])) =>
                  \E o \in Reported(served) :
                      /\ found[1] \in ToSet(served[o].hosts)
                      /\ Priority[o] >= Priority[s]

\* A request that a catch-all host claims on its listener is answered, however
\* many listeners have a catch-all ("respecting listener hostname/port
\* isolation").  This does not hold: the index keeps one catch-all.
CatchAllAnswers ==
    \A host \in Hosts, port \in Ports :
        (\E n \in ToSet(Merged.hosts) : Claims(n, host, port)) => Lookup(host, port) # <<>>

-----------------------------------------------------------------------------
\* Every listener of every source is served by exactly one socket of its address,
\* HTTPS and TLS listeners of one address by the same one, and a listener that
\* demands client certificates never ends on a socket that does not.
OneSocketPerListener ==
    \A l \in Merged.listeners :
        LET speaks == IF l.protocol \in TlsProtocols THEN TlsProtocols ELSE {l.protocol}
            on == {c \in L4Of(served).listeners :
                     c.bind_addr = l.bind_addr /\ c.protocol \in speaks}
        IN  /\ Cardinality(on) = 1
            /\ l.validation = "strict" => \A c \in on : c.validation = "strict"

\* A swap that leaves the listeners of an address as they were leaves the
\* compiled listeners of that address as they were: the L4 manager, which diffs
\* by id, address and protocol, never rebinds a socket for a change elsewhere.
At(ls, addr) == {l \in ls : l.bind_addr = addr}
SocketsStable ==
    [][\A l \in Merged.listeners :
          At(Merged'.listeners, l.bind_addr) = At(Merged.listeners, l.bind_addr) =>
              At(L4Of(served').listeners, l.bind_addr) = At(L4Of(served).listeners, l.bind_addr)]_served

\* The routes whose listener accepts the SNI, among those of listeners of address
\* addr with a protocol in protocols.
Offered(addr, protocols, sni) ==
    {r \in ToSet(Merged.l4_routes) :
        /\ \E l \in At(Merged.listeners, addr) : l.id = r.listener_id /\ l.protocol \in protocols
        /\ IrHostnameMatches(sni, r.listener_hostname)}

\* A connection to a listener with such a protocol is given to a route when a
\* route of its most specific listener matches the SNI, and then to a route of an
\* equally specific listener that matches.
SniReaches(protocols) ==
    \A sni \in Hosts : \A l \in {m \in Merged.listeners : m.protocol \in protocols} :
        \A r \in Offered(l.bind_addr, protocols, sni) :
            (/\ MatchRoute(r.match, sni)
             /\ RouteKind(r.action) \in protocols
             /\ \A q \in Offered(l.bind_addr, TlsProtocols, sni) : ListenerRank(q) <= ListenerRank(r)) =>
                LET id == CanonicalId(Merged.listeners, l)
                    to == HandleConnection(L4Of(served), CompiledListener(Merged.listeners, id), sni)
                IN  /\ to # <<>>
                    /\ ListenerRank(to[1]) = ListenerRank(r)
                    /\ MatchRoute(to[1].match, sni)

\* find_tls_route on listeners that share a socket: "the most specific matching
\* listener is chosen" for TLS routes, whatever the sources.
TlsRoutesReachable == SniReaches({"Tls"})

\* The compiler lets HTTPS and TLS listeners share one socket because
\* "TLSRoute passthrough/terminate and HTTPS termination are distinguished by SNI
\* in the L4 router": an HTTPS termination route is reached by its SNI.  This does
\* not hold: the shared socket has protocol Tls and considers only TLS routes.
HttpsRoutesReachable == SniReaches({"Https"})

=============================================================================
