----------------------------- MODULE Attachment -----------------------------
(***************************************************************************)
(* How routes attach to listeners (src/gateway/reconcile and translate):   *)
(* hostname intersection, allowedRoutes, ReferenceGrants, the conflicts    *)
(* between a Gateway's listeners and those of its ListenerSets, the        *)
(* resolution of a parentRef, and the entries a reconciled view is         *)
(* translated to.                                                          *)
(*                                                                         *)
(* The specs of the resources are constants; which of them exist is the    *)
(* record `o` of GatewayControl:  o.created[s] is the creation time of a   *)
(* ListenerSet in seconds (0: it does not exist), o.routes, o.grants and   *)
(* o.secrets are sets, o.validation is whether the Gateway asks for        *)
(* client certificates.  Group names always match and are left out.        *)
(*                                                                         *)
(* A listener is [name, protocol, port, hostname, from, kinds, secrets];   *)
(* a parentRef is [kind, ns, name, section, port].                         *)
(***************************************************************************)
EXTENDS Integers, Sequences, FiniteSets, SequencesExt

CONSTANTS
    GwNs, GwName,       \* the Gateway
    GwListeners,        \* its listeners, in the order of the spec
    AllowedListeners,   \* from which namespaces it takes ListenerSets
    Sets, SetSpec,      \* ListenerSets [ns, rank, parent_ns, listeners]
    Routes, RouteSpec,  \* routes [kind, ns, hostnames, parents, backend]
    Labelled,           \* namespaces the selectors of the specs match
    Reserved            \* RESERVED_PORTS

ASSUME SetSpecAssumption ==
    \A s \in Sets : SetSpec[s].rank \in Nat /\ DOMAIN SetSpec[s].listeners \subseteq Nat

None == "none"

(***************************************************************************)
(* Hostnames.  A listener without a hostname has AnyHost.                  *)
(***************************************************************************)
AnyHost == [kind |-> "any", labels |-> <<>>]
ExactHost(h) == [kind |-> "exact", labels |-> h]
WildcardHost(h) == [kind |-> "wildcard", labels |-> h]

IsHostnameSubset(child, parent) ==
    \/ parent.kind = "any"
    \/ /\ child.kind = "exact" /\ parent.kind = "exact"
       /\ child.labels = parent.labels
    \/ /\ child.kind = "exact" /\ parent.kind = "wildcard"
       /\ IsStrictSuffix(parent.labels, child.labels)
    \/ /\ child.kind = "wildcard" /\ parent.kind = "wildcard"
       /\ IsSuffix(parent.labels, child.labels)

HostnameIntersects(a, b) == IsHostnameSubset(a, b) \/ IsHostnameSubset(b, a)

\* The more specific of two patterns, as a set that is empty if they are disjoint.
IntersectHostnamePair(a, b) ==
    CASE IsHostnameSubset(a, b) -> {a}
      [] ~IsHostnameSubset(a, b) /\ IsHostnameSubset(b, a) -> {b}
      [] OTHER -> {}

IntersectHostnames(hostnames, listener_hostname) ==
    UNION {IntersectHostnamePair(h, listener_hostname) : h \in hostnames}

ListenerHostnameIntersects(l, hostnames) ==
    hostnames = {} \/ \E h \in hostnames : HostnameIntersects(h, l.hostname)

(***************************************************************************)
(* Permissions.                                                            *)
(***************************************************************************)
NamespaceAllowed(from, ns, owner_ns) ==
    \/ from = "All"
    \/ from = "Same" /\ ns = owner_ns
    \/ from = "Selector" /\ ns \in Labelled

AllowsKind(l, kind) == l.kinds = {} \/ kind \in l.kinds

\* Mutant of IsPermitted: a grant is taken whatever namespace it lives in.
IsPermittedAnywhere(grants, from_ns, from_kind, to) ==
    \/ from_ns = to.ns
    \/ \E g \in grants : /\ <<from_kind, from_ns>> \in g.from
                         /\ <<to.kind, to.name>> \in g.to \/ <<to.kind, None>> \in g.to

\* GrantIndex::is_permitted.  A target without a name stands for every name.
IsPermitted(grants, from_ns, from_kind, to) ==
    \/ from_ns = to.ns
    \/ \E g \in grants : /\ g.ns = to.ns
                         /\ <<from_kind, from_ns>> \in g.from
                         /\ <<to.kind, to.name>> \in g.to \/ <<to.kind, None>> \in g.to

\* validate_listener_certificates: every Secret is permitted, exists and is valid.
CertificateOK(o, owner_ns, owner_kind, l) ==
    \A x \in l.secrets :
        /\ IsPermitted(o.grants, owner_ns, owner_kind,
                       [ns |-> x.ns, kind |-> "Secret", name |-> x.name])
        /\ x \in o.secrets

HttpProtocols == {"HTTP", "HTTPS"}
\* A TLS listener of the model passes its connections through.
TlsTerminated(l) == l.protocol = "HTTPS"

\* validate_listener_kinds: GRPCRoute is not a valid kind of any protocol.
KindsOK(l) ==
    l.kinds \subseteq (CASE l.protocol \in HttpProtocols -> {"HTTPRoute"}
                         [] l.protocol = "TCP" -> {"TCPRoute"}
                         [] l.protocol = "UDP" -> {"UDPRoute"}
                         [] l.protocol = "TLS" -> {"TLSRoute"})

\* check_backend_permitted.  That the Service exists is not part of the model.
BackendPermitted(o, r) ==
    IsPermitted(o.grants, RouteSpec[r].ns, RouteSpec[r].kind, RouteSpec[r].backend)

-----------------------------------------------------------------------------
(* The states of the Gateway and of the ListenerSets. *)

\* build_gateway_state with load_gateway_frontend_validations: the Gateway's
\* listeners of which the certificates resolve are programmed.
GatewayState(o) ==
    [i \in DOMAIN GwListeners |->
        [spec |-> GwListeners[i],
         programmed |-> TlsTerminated(GwListeners[i]) =>
                            CertificateOK(o, GwNs, "Gateway", GwListeners[i]),
         validation |-> TlsTerminated(GwListeners[i]) /\ o.validation]]

Present(o) == {s \in Sets : o.created[s] # 0}

ParentNs(s) == IF SetSpec[s].parent_ns = None THEN SetSpec[s].ns ELSE SetSpec[s].parent_ns

\* find_parent_gateway and listener_set_allowed.
SetAllowed(s) ==
    ParentNs(s) = GwNs /\ NamespaceAllowed(AllowedListeners, SetSpec[s].ns, GwNs)

SetListeners(s) == IF SetAllowed(s) THEN SetSpec[s].listeners ELSE <<>>

\* The names of the ListenerSets are in the order of their ranks.
\* Mutant of Older: the order the comment of resolve_listener_set_conflicts gives.
OlderByName(o, a, b) == SetSpec[a].rank < SetSpec[b].rank

Older(o, a, b) ==
    \/ o.created[a] < o.created[b]
    \/ o.created[a] = o.created[b] /\ SetSpec[a].rank < SetSpec[b].rank

Overlaps(l, m) == l.port = m.port /\ HostnameIntersects(l.hostname, m.hostname)

\* resolve_listener_set_conflicts: the Gateway's own listeners come first, then
\* the ListenerSets from the oldest on, whether or not they are accepted, each
\* with its listeners in the order of its spec.  A listener on a reserved port,
\* or one that overlaps an earlier listener which did not lose, loses.  The reason
\* it is given is left out.
Claims(o) == UNION {{s} \X DOMAIN SetListeners(s) : s \in Present(o)}
Claimed(c) == SetListeners(c[1])[c[2]]

Earlier(o, c, d) ==
    \/ Older(o, c[1], d[1])
    \/ c[1] = d[1] /\ c[2] < d[2]

ResolveConflicts(o) ==
    LET loses[c \in Claims(o)] ==
            \/ Claimed(c).port \in Reserved
            \/ \E l \in ToSet(GwListeners) : Overlaps(l, Claimed(c))
            \/ \E d \in Claims(o) : /\ Earlier(o, d, c)
                                     /\ Overlaps(Claimed(d), Claimed(c))
                                     /\ ~loses[d]
    IN  {<<c[1], Claimed(c).name>> : c \in {d \in Claims(o) : loses[d]}}

Conflicted(conflicts, s, l) == <<s, l.name>> \in conflicts

\* build_listener_set_state, then the end of resolve_listener_set_conflicts: a
\* set is accepted if it is allowed, all its listeners are valid and one of them
\* is free of conflicts.
SetAccepted(o, conflicts, s) ==
    /\ SetAllowed(s)
    /\ \A l \in ToSet(SetSpec[s].listeners) :
           CertificateOK(o, SetSpec[s].ns, "ListenerSet", l) /\ KindsOK(l)
    /\ \E l \in ToSet(SetSpec[s].listeners) : ~Conflicted(conflicts, s, l)

\* count_attached_listener_sets
AttachedSets(o, conflicts) ==
    Cardinality({s \in Present(o) :
        /\ SetSpec[s].parent_ns \in {None, GwNs}
        /\ SetAccepted(o, conflicts, s)})

-----------------------------------------------------------------------------
(* Resolving a parentRef. *)

Protocols(kind) ==
    CASE kind \in {"HTTPRoute", "GRPCRoute"} -> HttpProtocols
      [] kind = "TCPRoute" -> {"TCP"}
      [] kind = "UDPRoute" -> {"UDP"}
      [] kind = "TLSRoute" -> {"TLS"}

Selects(parent, l) ==
    /\ parent.section \in {None, l.name}
    /\ parent.port \in {0, l.port}

\* The allowed-routes map has no entry for a conflicted listener of a
\* ListenerSet, which then has the default: every kind, the same namespace.
Permissive(l) == [l EXCEPT !.kinds = {}, !.from = "Same"]

\* resolve_listener_parent: the four conditions may be met by four listeners.
ResolveListenerParent(parent, route, listeners, candidates, owner_ns) ==
    LET matching == {l \in candidates : Selects(parent, l)}
        kind == \E l \in matching : AllowsKind(l, route.kind)
        protocol == \E l \in matching : l.protocol \in Protocols(route.kind)
        namespace == \E l \in matching : NamespaceAllowed(l.from, route.ns, owner_ns)
        hostname == \E l \in matching : ListenerHostnameIntersects(l, route.hostnames)
    IN  CASE parent.section # None /\ \A l \in listeners : l.name # parent.section ->
                "NoMatchingParent"
          [] parent.port # 0 /\ matching = {} -> "NoMatchingParent"
          [] ~(kind /\ protocol /\ namespace) -> "NotAllowedByListeners"
          [] ~hostname -> "NoMatchingListenerHostname"
          [] OTHER -> "Accepted"

OwnerNs(parent, route) == IF parent.ns = None THEN route.ns ELSE parent.ns

\* The view a tick resolves parentRefs against; `programmed` are the Gateway's
\* listeners it has programmed.
ViewOf(o) ==
    LET conflicts == ResolveConflicts(o)
        gw == GatewayState(o)
    IN  [o |-> o,
         programmed |-> {gw[i].spec : i \in {j \in DOMAIN gw : gw[j].programmed}},
         validated |-> {gw[i].spec : i \in {j \in DOMAIN gw : gw[j].validation}},
         conflicts |-> conflicts]

\* The controllers build the Gateway's state without loading certificates, so
\* every listener counts as programmed.
ControllerView(o) ==
    [o |-> o, programmed |-> ToSet(GwListeners), validated |-> {},
     conflicts |-> ResolveConflicts(o)]

\* resolve_gateway_parent
ResolveGatewayParent(view, parent, route) ==
    IF OwnerNs(parent, route) = GwNs /\ parent.name = GwName
    THEN ResolveListenerParent(parent, route, ToSet(GwListeners), view.programmed, GwNs)
    ELSE "NoMatchingParent"

SetNamed(view, parent, route) ==
    {s \in Present(view.o) : s = parent.name /\ SetSpec[s].ns = OwnerNs(parent, route)}

\* resolve_listenerset_parent; it does not ask whether the set is accepted.
ResolveListenerSetParent(view, parent, route) ==
    IF SetNamed(view, parent, route) = {}
    THEN "NoMatchingParent"
    ELSE LET s == parent.name
             listeners == ToSet(SetListeners(s))
         IN  ResolveListenerParent(parent, route, listeners,
                 {l \in listeners : ~Conflicted(view.conflicts, s, l)}, SetSpec[s].ns)

IsStream(r) == RouteSpec[r].kind \in {"TCPRoute", "UDPRoute", "TLSRoute"}

\* resolve_route_parent and resolve_l4_parent_ref
ResolveParent(view, r, parent) ==
    CASE parent.kind = "Gateway" -> ResolveGatewayParent(view, parent, RouteSpec[r])
      [] parent.kind = "ListenerSet" /\ ~IsStream(r) ->
            ResolveListenerSetParent(view, parent, RouteSpec[r])
      [] OTHER -> "UnsupportedValue"

AcceptedParents(view, r) ==
    {p \in RouteSpec[r].parents : ResolveParent(view, r, p) = "Accepted"}

-----------------------------------------------------------------------------
(* Translation of the view. *)

NoListener == [owner |-> None, name |-> None, port |-> 0]
ListenerId(owner, l) == [owner |-> owner, name |-> l.name, port |-> l.port]

\* The listeners compute_effective_hostnames looks at, each with the permissions
\* it finds for it.  A set that is not programmed is not found; a conflicted
\* listener of one that is, is.
Candidates(view, parent, route) ==
    IF parent.kind = "ListenerSet"
    THEN {IF Conflicted(view.conflicts, parent.name, l) THEN Permissive(l) ELSE l :
              l \in {m \in ToSet(SetListeners(parent.name)) : Selects(parent, m)}}
    ELSE {l \in view.programmed : Selects(parent, l)}

Found(view, parent, route) ==
    parent.kind = "ListenerSet" => SetAccepted(view.o, view.conflicts, parent.name)

\* Mutant of Attaches: the hostnames of a route must lie within the listener's.
AttachesWithin(l, route, owner_ns) ==
    /\ AllowsKind(l, route.kind)
    /\ NamespaceAllowed(l.from, route.ns, owner_ns)
    /\ \A h \in route.hostnames : IsHostnameSubset(h, l.hostname)

Attaches(l, route, owner_ns) ==
    /\ AllowsKind(l, route.kind)
    /\ NamespaceAllowed(l.from, route.ns, owner_ns)
    /\ ListenerHostnameIntersects(l, route.hostnames)

\* A route without hostnames takes those of its listener.
SharedHostnames(route, l) ==
    IF route.hostnames = {} THEN {l.hostname}
    ELSE IntersectHostnames(route.hostnames, l.hostname)

\* One parent: a host entry for every listener the route attaches to and every
\* hostname they share; without a hostname and without a listener, an entry for
\* every host of every port.
EffectiveHostnames(view, parent, route) ==
    LET found == Found(view, parent, route)
        attached == {l \in Candidates(view, parent, route) :
                        found /\ Attaches(l, route, OwnerNs(parent, route))}
        unbound == CASE route.hostnames = {} /\ attached = {} -> {AnyHost}
                     [] route.hostnames # {} /\ ~found -> route.hostnames
                     [] OTHER -> {}
    IN  {[listener |-> NoListener, hostname |-> h] : h \in unbound}
        \cup UNION {{[listener |-> ListenerId(parent.name, l), hostname |-> h] :
                         h \in SharedHostnames(route, l)} : l \in attached}

\* translate_view_to_ir: a rule with a backend that is not permitted answers 500.
HttpEntries(view, r) ==
    {[route |-> r, listener |-> e.listener, hostname |-> e.hostname,
      action |-> IF BackendPermitted(view.o, r) THEN "forward" ELSE "500"] :
         e \in UNION {EffectiveHostnames(view, p, RouteSpec[r]) : p \in AcceptedParents(view, r)}}

\* The listeners a parentRef of a stream route leads to: those of the protocol
\* that the section name selects, whatever their port.
StreamListeners(parent, route) ==
    {l \in ToSet(GwListeners) : /\ l.protocol \in Protocols(route.kind)
                                /\ parent.section \in {None, l.name}}

\* translate_l4_routes for a TCPRoute, a UDPRoute or a TLSRoute, which is
\* programmed if all parents accept it and all backends are permitted.
StreamEntries(view, r) ==
    LET route == RouteSpec[r]
        programmed == AcceptedParents(view, r) = route.parents /\ BackendPermitted(view.o, r)
    IN  {[route |-> r, listener |-> e[1], hostname |-> e[2], action |-> "forward"] :
            e \in UNION {UNION {{ListenerId(p.name, l)} \X SharedHostnames(route, l) :
                                    l \in StreamListeners(p, route)} :
                            p \in {q \in route.parents : programmed}}}

Entries(view) ==
    UNION {IF IsStream(r) THEN StreamEntries(view, r) ELSE HttpEntries(view, r) :
               r \in view.o.routes}

\* Whether a route of the kind the listener is for is attached to it.
HasRoute(entries, l) ==
    \E e \in entries : /\ e.listener = ListenerId(GwName, l)
                       /\ l.protocol \in Protocols(RouteSpec[e.route].kind)

\* add_l4_listener
L4Listener(view, l) ==
    [port |-> l.port, protocol |-> l.protocol, validation |-> l \in view.validated]

\* The listeners handed to the L4 manager: those of plain HTTP, and the others
\* that have a route, all of them programmed.  Listeners of a ListenerSet are
\* not among them.
Sockets(view, entries) ==
    {L4Listener(view, l) : l \in {m \in view.programmed :
                                      m.protocol = "HTTP" \/ HasRoute(entries, m)}}

=============================================================================
