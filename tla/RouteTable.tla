----------------------------- MODULE RouteTable -----------------------------
(***************************************************************************)
(* The canonical route table (src/ir/mod.rs), the merge of the tables of   *)
(* all configuration sources (RouteManager::merge_sources) and what the    *)
(* compiler makes of the merged table (src/ir/compile.rs): the host index  *)
(* with its lookup, the listeners the L4 manager binds, and the L4 routes  *)
(* with the lookups of the L4 router (src/l4/router.rs).                   *)
(*                                                                         *)
(* A hostname is the sequence of its labels, so "a.example" is             *)
(* <<"a", "example">>; a string ".example" suffix is a label suffix.       *)
(* A host route keeps its matchers and `tag`, which stands for its rules   *)
(* and backends; `rules` is how many plans it compiles to.                 *)
(***************************************************************************)
EXTENDS Lists

CONSTANTS
    SourceIds,      \* ids of the configuration sources
    Priority,       \* RouteManager::priorities, a function of SourceIds
    IdRank,         \* position of each id in string order
    Tables,         \* the route tables a source may report
    NoTable         \* a source that has not reported

ASSUME SourcesFinite == IsFiniteSet(SourceIds)
ASSUME PriorityAssumption == Priority \in [SourceIds -> Int]
ASSUME IdRankAssumption ==
    /\ IdRank \in [SourceIds -> Nat]
    /\ \A a, b \in SourceIds : IdRank[a] = IdRank[b] => a = b
ASSUME NoTableAssumption == NoTable \notin Tables

\* Protocol, the protocols a listener of a table can have.
Protocols == {"Http", "Https", "Tls", "Tcp", "Udp"}
ASSUME ProtocolAssumption ==
    \A t \in Tables : \A i \in DOMAIN t.listeners : t.listeners[i].protocol \in Protocols

None == "none"

\* HostnameMatch; an L4 match may also be AnySni (below).
IsMatcher(hm) ==
    /\ hm.kind \in {"exact", "prefix", "wildcard", "any"}
    /\ hm.labels \in Seq(ToSet(hm.labels))
ASSUME TablesAssumption ==
    \A t \in Tables :
        /\ \A field \in {"listeners", "hosts", "l4_routes"} : t[field] \in Seq(ToSet(t[field]))
        /\ \A h \in ToSet(t.hosts) :
              IsMatcher(h.hostname) /\ IsMatcher(h.listener_hostname) /\ h.rules \in Nat
        /\ \A r \in ToSet(t.l4_routes) :
              /\ {"listener_id", "listener_hostname", "match", "action"} \subseteq DOMAIN r
              /\ IsMatcher(r.listener_hostname)

(***************************************************************************)
(* Hostname matching.                                                      *)
(***************************************************************************)
AnyHost == [kind |-> "any", labels |-> <<>>]
Exact(h) == [kind |-> "exact", labels |-> h]
Prefix(h) == [kind |-> "prefix", labels |-> h]
Wildcard(h) == [kind |-> "wildcard", labels |-> h]

\* ir_hostname_matches.  A wildcard needs at least one label before its suffix.
IrHostnameMatches(host, hm) ==
    CASE hm.kind = "exact" -> host = hm.labels
      [] hm.kind = "prefix" -> IsPrefix(hm.labels, host)
      [] hm.kind = "wildcard" -> IsStrictSuffix(hm.labels, host)
      [] hm.kind = "any" -> TRUE

\* specificity_score; a wildcard scores 100 plus the dots of its suffix.
SpecificityScore(hm) ==
    CASE hm.kind = "exact" -> 1000
      [] hm.kind = "prefix" -> 500
      [] hm.kind = "wildcard" -> 100 + Len(hm.labels) - 1
      [] hm.kind = "any" -> 0

\* ir_listener_specificity_score: Exact("") is a listener without a hostname.
ListenerSpecificityScore(lh) ==
    IF lh.kind = "exact" /\ lh.labels = <<>> THEN 0 ELSE SpecificityScore(lh)

ListenerHostnameMatches(host, lh) ==
    \/ lh.kind = "exact" /\ lh.labels = <<>>
    \/ IrHostnameMatches(host, lh)

\* listener_port_matches; AnyPort is a host route without a port.
AnyPort == 0
ListenerPortMatches(port, listener_port) == listener_port \in {AnyPort, port}

(***************************************************************************)
(* Merging the sources.                                                    *)
(***************************************************************************)
\* Higher priority first, ties in the order of the ids.
Before(a, b) ==
    \/ Priority[a] > Priority[b]
    \/ Priority[a] = Priority[b] /\ IdRank[a] < IdRank[b]

Reported(sources) == {s \in SourceIds : sources[s] # NoTable}

\* The entries of one field of the tables, each a source and a position in its
\* table; the sources are gone through in order, and every table from its start.
Entries(sources, field) == UNION {{s} \X DOMAIN sources[s][field] : s \in Reported(sources)}
Earlier(d, e) == Before(d[1], e[1]) \/ (d[1] = e[1] /\ d[2] < e[2])
EntryOf(sources, field, e) == sources[e[1]][field][e[2]]

MergeOrder(sources, field) ==
    LET entries == Entries(sources, field)
    IN  InOrder(entries, {p \in entries \X entries : Earlier(p[1], p[2])})

\* Concatenation of one field of the tables, highest priority first.
Concat(sources, field) ==
    LET ord == MergeOrder(sources, field)
    IN  [k \in DOMAIN ord |-> EntryOf(sources, field, ord[k])]

\* The first entry of every id, as kept by BTreeMap::entry().or_insert_with().
MergedListeners(sources) ==
    LET entries == Entries(sources, "listeners")
        listener(e) == EntryOf(sources, "listeners", e)
        first == {e \in entries : \A d \in entries : Earlier(d, e) => listener(d).id # listener(e).id}
    IN  {listener(e) : e \in first}

MergeSources(sources) ==
    [listeners |-> MergedListeners(sources),
     hosts     |-> Concat(sources, "hosts"),
     l4_routes |-> Concat(sources, "l4_routes")]

(***************************************************************************)
(* The host index of the compiled route table.                             *)
(***************************************************************************)
\* Exact hosts in the order of the merge.
ExactHosts(hosts) == Chosen(hosts, {i \in DOMAIN hosts : hosts[i].hostname.kind = "exact"})

\* Prefix and wildcard hosts: most specific first, then fewest rules; the sort
\* is stable, so the merge order breaks the remaining ties.
WildcardHosts(hosts) ==
    LET idx == {i \in DOMAIN hosts : hosts[i].hostname.kind \in {"prefix", "wildcard"}}
        score(i) == SpecificityScore(hosts[i].hostname)
        Less(i, j) ==
            \/ score(i) > score(j)
            \/ score(i) = score(j) /\ hosts[i].rules < hosts[j].rules
            \/ score(i) = score(j) /\ hosts[i].rules = hosts[j].rules /\ i < j
    IN  ListAt(hosts, idx, {p \in idx \X idx : Less(p[1], p[2])})

\* `any_host = Some(node)` overwrites: the last catch-all of the merge survives.
AnyHostNode(hosts) ==
    LET anys == {i \in DOMAIN hosts : hosts[i].hostname.kind = "any"}
    IN  IF anys = {} THEN <<>> ELSE <<hosts[Max(anys)]>>

CompileHosts(hosts) ==
    [exact    |-> ExactHosts(hosts),
     wildcard |-> WildcardHosts(hosts),
     any      |-> AnyHostNode(hosts)]

\* The order in which find_host_node collects host nodes, and the positions in it of
\* those whose route hostname and listener accept the request.
AllNodes(ct) == ct.exact \o ct.wildcard \o ct.any
HostCandidates(ct, host, port) ==
    {i \in DOMAIN AllNodes(ct) :
        LET n == AllNodes(ct)[i]
        IN  /\ IrHostnameMatches(host, n.hostname)
            /\ ListenerHostnameMatches(host, n.listener_hostname)
            /\ ListenerPortMatches(port, n.listener_port)}

\* Mutant of FindHostNode: the route hostname decides before the listener.
FindHostNodeByRoute(ct, host, port) ==
    LET cand == HostCandidates(ct, host, port)
        rs == [i \in cand |-> SpecificityScore(AllNodes(ct)[i].hostname)]
    IN  FirstOf(AllNodes(ct), Greatest(cand, rs))

\* Of the candidates: the most specific listener, then the most specific route
\* hostname, then the first.  Empty when no node accepts the request.
FindHostNode(ct, host, port) ==
    LET cand == HostCandidates(ct, host, port)
        ls == [i \in cand |-> ListenerSpecificityScore(AllNodes(ct)[i].listener_hostname)]
        rs == [i \in cand |-> SpecificityScore(AllNodes(ct)[i].hostname)]
    IN  FirstOf(AllNodes(ct), Greatest(Greatest(cand, ls), rs))

(***************************************************************************)
(* The compiled L4 configuration.                                          *)
(***************************************************************************)
TlsProtocols == {"Https", "Tls"}

\* The only error of the compiler.
CompileError(sources) ==
    \E l \in MergeSources(sources).listeners : l.protocol \in TlsProtocols /\ ~l.tls

\* Mutants of SharedTlsAddrs: no address is shared; one shared address makes
\* every address shared.
NeverShared(ls) == {}
SharedAnywhere(ls) ==
    IF \E l, m \in ls : l.bind_addr = m.bind_addr /\ l.protocol = "Https" /\ m.protocol = "Tls"
    THEN {l.bind_addr : l \in ls} ELSE {}

\* Addresses with both HTTPS and TLS listeners.
SharedTlsAddrs(ls) ==
    {a \in {l.bind_addr : l \in ls} :
        TlsProtocols \subseteq {l.protocol : l \in {m \in ls : m.bind_addr = a}}}

\* The id of the socket that serves a listener: "addr#tls" when HTTPS and TLS
\* listeners meet on one address, else "addr#Protocol".
CanonicalId(ls, l) ==
    IF l.protocol \in TlsProtocols /\ l.bind_addr \in SharedTlsAddrs(ls)
    THEN <<l.bind_addr, "tls">>
    ELSE <<l.bind_addr, l.protocol>>

GroupOf(ls, id) == {l \in ls : CanonicalId(ls, l) = id}

\* The merged listener of a group; a strict client validation wins.
CompiledListener(ls, id) ==
    LET group == GroupOf(ls, id)
        valid == {l.validation : l \in group}
    IN  [id         |-> id,
         bind_addr  |-> id[1],
         protocol   |-> IF \E l \in group : l.protocol = "Tls" THEN "Tls"
                        ELSE (CHOOSE l \in group : TRUE).protocol,
         validation |-> CASE "strict" \in valid -> "strict"
                          [] "strict" \notin valid /\ "fallback" \in valid -> "fallback"
                          [] OTHER -> None]

CompiledListeners(ls) ==
    {CompiledListener(ls, id) : id \in {CanonicalId(ls, l) : l \in ls}}

\* Routes are moved to the canonical id of their listener; a route of an unknown
\* listener keeps its own id, which no compiled listener has.
CompiledL4Routes(ls, routes) ==
    [i \in DOMAIN routes |->
        [routes[i] EXCEPT !.listener_id =
            IF \E l \in ls : l.id = @
            THEN CanonicalId(ls, CHOOSE l \in ls : l.id = @)
            ELSE <<@>>]]

RouteKind(action) ==
    CASE action = "TcpRelay" -> "Tcp"
      [] action = "UdpRelay" -> "Udp"
      [] action \in {"TlsPassthrough", "TlsTerminate"} -> "Tls"
      [] action = "TerminateAndHttp" -> "Https"
      [] action = "HttpRelay" -> "Http"

L4Of(sources) ==
    LET m == MergeSources(sources)
    IN  [listeners |-> CompiledListeners(m.listeners),
         routes    |-> CompiledL4Routes(m.listeners, m.l4_routes)]

(***************************************************************************)
(* Route selection of the L4 router on an accepted connection.             *)
(***************************************************************************)
\* The positions of the routes of a protocol.
RoutesForProtocol(cfg, protocol) ==
    {i \in DOMAIN cfg.routes : RouteKind(cfg.routes[i].action) = protocol}

\* match_route: an L4 match is AnySni or a hostname matcher for the SNI, and a
\* connection without SNI has NoSni.
AnySni == [kind |-> "anysni", labels |-> <<>>]
NoSni == <<>>
MatchRoute(match, sni) == match = AnySni \/ (sni # NoSni /\ IrHostnameMatches(sni, match))

\* find_route: of some positions, those of the routes of a listener that match, the
\* first to be taken.
FindRoute(routes, at, id, sni) ==
    {i \in at : routes[i].listener_id = id /\ MatchRoute(routes[i].match, sni)}

\* Mutant of FindTlsRoute: the first route that matches, of any listener.
FindTlsRouteAnyListener(routes, at, id, sni) ==
    {i \in at : routes[i].listener_id = id /\ MatchRoute(routes[i].match, sni)}

\* find_tls_route: the SNI picks the most specific listener first, and only the
\* routes of that listener are tried.  Without SNI there is no route.
FindTlsRoute(routes, at, id, sni) ==
    LET cand == {i \in at : /\ sni # NoSni
                            /\ routes[i].listener_id = id
                            /\ IrHostnameMatches(sni, routes[i].listener_hostname)}
        score == [i \in cand |-> ListenerSpecificityScore(routes[i].listener_hostname)]
    IN  {i \in Greatest(cand, score) : MatchRoute(routes[i].match, sni)}

\* Router::handle_tcp on a connection to listener l: the route it executes, or
\* nothing (the connection is dropped).
HandleConnection(cfg, l, sni) ==
    LET at == RoutesForProtocol(cfg, l.protocol)
    IN  FirstOf(cfg.routes, IF l.protocol \in TlsProtocols
                            THEN FindTlsRoute(cfg.routes, at, l.id, sni)
                            ELSE FindRoute(cfg.routes, at, l.id, NoSni))

=============================================================================
