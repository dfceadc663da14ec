--------------------------- MODULE GatewayControl ---------------------------
(***************************************************************************)
(* The control plane of one Gateway: the users who edit its resources, the *)
(* reconcile tick that publishes the route table (src/gateway/reconcile/   *)
(* mod.rs), and the controllers that write statuses (gateway/controller.rs,*)
(* listenerset/controller.rs, route/mod.rs, l4route/controller.rs), on a   *)
(* replica that is the leader.                                             *)
(*                                                                         *)
(* The lists of one tick are read together here; ReconcileLoop is about    *)
(* reading them one by one.  The API server is external: a request fails   *)
(* at most MaxFailures times, and a server-side apply of a status replaces *)
(* the fields the same manager applied before.                             *)
(***************************************************************************)
EXTENDS Attachment

CONSTANTS
    Grants,         \* ReferenceGrants [ns, from, to] that may exist
    Secrets,        \* Secrets with a certificate, in the same way
    Initially,      \* the resources at the start
    MaxEdits,       \* bound: changes made by users
    MaxFailures     \* bound: requests that fail

ASSUME BoundsAssumption == MaxEdits \in Nat /\ MaxFailures \in Nat
\* At the start there is no ListenerSet: their times of creation come from the clock.
ASSUME InitiallyAssumption ==
    /\ DOMAIN Initially = {"created", "routes", "grants", "secrets", "validation"}
    /\ Initially.created \in [Sets -> {0}]

VARIABLES
    o,              \* the resources, as in Attachment
    seconds,        \* the API server's clock when the last ListenerSet was created
    edits, failures,
    table,          \* what the last tick published
    job,            \* reconcile_gateway between its lists and its patch
    gstatus,        \* status of the Gateway
    sstatus,        \* statuses of the ListenerSets
    rstatus         \* statuses of the routes

users == <<o, seconds, edits>>
gvars == <<users, failures, table, job, gstatus, sstatus, rstatus>>

NoJob == [busy |-> FALSE]
NoStatus == [written |-> FALSE]
EmptyTable == [entries |-> {}, sockets |-> {}, conflicts |-> {}, present |-> {},
               created |-> [s \in Sets |-> 0]]

GInit ==
    /\ o = Initially
    /\ seconds = 0 /\ edits = 0 /\ failures = 0
    /\ table = EmptyTable
    /\ job = NoJob
    /\ gstatus = NoStatus
    /\ sstatus = [s \in Sets |-> NoStatus]
    /\ rstatus = [r \in Routes |-> NoStatus]

-----------------------------------------------------------------------------
(* The users. *)

Edit(new) ==
    /\ edits < MaxEdits
    /\ o' = new
    /\ edits' = edits + 1
    /\ UNCHANGED <<failures, table, job, gstatus, sstatus, rstatus>>

\* A ListenerSet gets the time of its creation in whole seconds: that of the last one,
\* or a later one.
CreateSet(s) ==
    /\ o.created[s] = 0
    /\ seconds' \in {seconds, seconds + 1} \ {0}
    /\ Edit([o EXCEPT !.created[s] = seconds'])

DeleteSet(s) ==
    /\ o.created[s] # 0
    /\ Edit([o EXCEPT !.created[s] = 0])
    /\ UNCHANGED seconds

Toggle(S, x) == IF x \in S THEN S \ {x} ELSE S \cup {x}

EditRoute(r) == Edit([o EXCEPT !.routes = Toggle(@, r)]) /\ UNCHANGED seconds
EditGrant(g) == Edit([o EXCEPT !.grants = Toggle(@, g)]) /\ UNCHANGED seconds
EditSecret(x) == Edit([o EXCEPT !.secrets = Toggle(@, x)]) /\ UNCHANGED seconds
EditValidation == Edit([o EXCEPT !.validation = ~@]) /\ UNCHANGED seconds

-----------------------------------------------------------------------------
(* Statuses. *)

\* attached_routes_per_listener: HTTPRoutes only, and whatever port they name.
SetRoutes(conflicts, s, l) ==
    Cardinality({p \in UNION {{r} \X RouteSpec[r].parents : r \in o.routes} :
        LET route == RouteSpec[p[1]]
        IN  /\ route.kind = "HTTPRoute"
            /\ p[2].kind = "ListenerSet" /\ p[2].name = s
            /\ p[2].ns \in {None, SetSpec[s].ns}
            /\ ~Conflicted(conflicts, s, l)
            /\ p[2].section \in {None, l.name}
            /\ AllowsKind(l, "HTTPRoute")
            /\ NamespaceAllowed(l.from, route.ns, SetSpec[s].ns)
            /\ ListenerHostnameIntersects(l, route.hostnames)})

\* build_listener_set_status
SetStatus(conflicts, s) ==
    [written |-> TRUE,
     accepted |-> SetAccepted(o, conflicts, s),
     conflicts |-> {c \in conflicts : c[1] = s},
     attached |-> [i \in DOMAIN SetListeners(s) |->
                      SetRoutes(conflicts, s, SetListeners(s)[i])]]

\* AttachmentCounter::increment, for one parentRef of a route.
\* Mutant: the permissions of the listener are not looked at.
IncrementsAny(r, p, l) ==
    /\ p.kind = "Gateway" /\ OwnerNs(p, RouteSpec[r]) = GwNs /\ p.name = GwName
    /\ Selects(p, l)
    /\ l.protocol \in Protocols(RouteSpec[r].kind)
    /\ AllowsKind(l, RouteSpec[r].kind)
    /\ ListenerHostnameIntersects(l, RouteSpec[r].hostnames)

Increments(r, p, l) ==
    /\ p.kind = "Gateway" /\ OwnerNs(p, RouteSpec[r]) = GwNs /\ p.name = GwName
    /\ Selects(p, l)
    /\ l.protocol \in Protocols(RouteSpec[r].kind)
    /\ AllowsKind(l, RouteSpec[r].kind)
    /\ NamespaceAllowed(l.from, RouteSpec[r].ns, GwNs)
    /\ ListenerHostnameIntersects(l, RouteSpec[r].hostnames)

\* count_attached_routes: a list that cannot be fetched counts as empty, and
\* GRPCRoutes are not listed.
CountAttached(listed) ==
    [i \in DOMAIN GwListeners |->
        Cardinality({p \in UNION {{r} \X RouteSpec[r].parents : r \in o.routes} :
            /\ RouteSpec[p[1]].kind \in listed
            /\ Increments(p[1], p[2], GwListeners[i])})]

\* build_listener_status: a listener whose certificates do not resolve is neither
\* accepted nor programmed; one that names a kind it cannot have is both.
ListenerStatus(l, certified, attached) ==
    [accepted |-> certified, programmed |-> certified,
     resolved |-> certified /\ KindsOK(l), attached |-> attached]

\* reconcile_single_route: the reason of every parent, and whether the
\* backends resolve.
RouteStatus(r) ==
    [written |-> TRUE,
     parents |-> [p \in RouteSpec[r].parents |-> ResolveParent(ControllerView(o), r, p)],
     resolved |-> BackendPermitted(o, r)]

-----------------------------------------------------------------------------
(* The reconcile tick. *)

Publish(view) ==
    LET entries == Entries(view)
    IN  [entries |-> entries, sockets |-> Sockets(view, entries),
         conflicts |-> view.conflicts,
         present |-> Present(view.o), created |-> view.o.created]

\* The patch of attachedListenerSets alone, when it is not the desired number:
\* the other fields, applied by the same manager, go with it.
PatchAttachedSets(desired) ==
    gstatus' = IF (IF gstatus.written THEN gstatus.sets ELSE 0) = desired
               THEN gstatus
               ELSE [written |-> TRUE, conditions |-> FALSE, sets |-> desired]

\* reconcile_tick_with_leader
Tick ==
    \E view \in {ViewOf(o)} :
        /\ table' = Publish(view)
        /\ sstatus' = [s \in Sets |-> IF s \in Present(o) THEN SetStatus(view.conflicts, s) ELSE NoStatus]
        /\ PatchAttachedSets(AttachedSets(o, view.conflicts))
        /\ UNCHANGED <<users, failures, job, rstatus>>

-----------------------------------------------------------------------------
(* The controllers. *)

\* The lists of routes reconcile_gateway fetches.
AllLists == {"HTTPRoute", "TCPRoute", "UDPRoute", "TLSRoute"}

\* reconcile_gateway up to its patch; `listed` are the kinds of routes whose
\* list it got.
ReconcileGateway(listed) ==
    /\ ~job.busy
    /\ IF listed = AllLists
       THEN UNCHANGED failures
       ELSE failures < MaxFailures /\ failures' = failures + 1
    /\ job' = [busy |-> TRUE,
               validation |-> o.validation,
               listeners |-> [i \in DOMAIN GwListeners |->
                   ListenerStatus(GwListeners[i], CertificateOK(o, GwNs, "Gateway", GwListeners[i]),
                                  CountAttached(listed)[i])],
               sets |-> AttachedSets(o, ResolveConflicts(o))]
    /\ UNCHANGED <<users, table, gstatus, sstatus, rstatus>>

\* gateway_l4_ready: the sockets of its terminated listeners validate client
\* certificates as the Gateway asks.
L4Ready ==
    \A i \in DOMAIN GwListeners :
        TlsTerminated(GwListeners[i]) /\ job.listeners[i].programmed =>
            job.validation = \E k \in table.sockets :
                                /\ k.port = GwListeners[i].port
                                /\ k.protocol = GwListeners[i].protocol
                                /\ k.validation

\* patch_status_if_changed; the reconcile is queued again whatever happens.
PatchGateway ==
    /\ job.busy
    /\ job' = NoJob
    /\ gstatus' = IF L4Ready
                  THEN [written |-> TRUE, conditions |-> TRUE, validation |-> job.validation,
                        listeners |-> job.listeners, sets |-> job.sets]
                  ELSE gstatus
    /\ UNCHANGED <<users, failures, table, sstatus, rstatus>>

\* reconcile_listenerset
ReconcileListenerSet(s) ==
    /\ s \in Present(o)
    /\ sstatus' = [sstatus EXCEPT ![s] = SetStatus(ResolveConflicts(o), s)]
    /\ UNCHANGED <<users, failures, table, job, gstatus, rstatus>>

\* reconcile_route_controller and reconcile_l4_route
ReconcileRoute(r) ==
    /\ r \in o.routes
    /\ rstatus' = [rstatus EXCEPT ![r] = RouteStatus(r)]
    /\ UNCHANGED <<users, failures, table, job, gstatus, sstatus>>

Users ==
    \/ \E s \in Sets : CreateSet(s) \/ DeleteSet(s)
    \/ \E r \in Routes : EditRoute(r)
    \/ \E g \in Grants : EditGrant(g)
    \/ \E x \in Secrets : EditSecret(x)
    \/ EditValidation

GatewayController ==
    \/ ReconcileGateway(AllLists)
    \/ ReconcileGateway(AllLists \ {"HTTPRoute"})
    \/ PatchGateway

RouteControllers ==
    \/ \E s \in Sets : ReconcileListenerSet(s)
    \/ \E r \in Routes : ReconcileRoute(r)

GNext == Users \/ Tick \/ GatewayController \/ RouteControllers

\* The loop ticks every few seconds and on every trigger; the controllers queue
\* each resource again after at most 30 seconds.
GatewayControllerFairness == WF_gvars(ReconcileGateway(AllLists)) /\ WF_gvars(PatchGateway)
RouteControllersFairness == \A r \in Routes : WF_gvars(ReconcileRoute(r))
GFairness == WF_gvars(Tick) /\ GatewayControllerFairness /\ RouteControllersFairness

GSpec == GInit /\ [][GNext]_gvars /\ GFairness

-----------------------------------------------------------------------------
(* Properties. *)

\* From one table to the next, ListenerSets are only added.
OnlyAdded ==
    /\ table.present \subseteq table'.present
    /\ \A s \in table.present : table'.created[s] = table.created[s]

\* One of the added sets was created in the second of s and comes before it by name.
Overtaken(s) ==
    \E n \in table'.present \ table.present :
        table'.created[n] = table.created[s] /\ SetSpec[n].rank < SetSpec[s].rank

\* resolve_listener_set_conflicts: while ListenerSets are only added, a listener that was
\* served keeps its port and hostnames; a set that comes later can conflict with it, but
\* takes its place only if the API server's clock says the same of both and its name
\* comes first.  Neither younger sets nor a chain of them, each freeing what the next
\* one loses to, undo a listener that is served.
FirstComeFirstServed ==
    [][ OnlyAdded =>
            \A c \in table'.conflicts \ table.conflicts :
                c[1] \in table.present => Overtaken(c[1]) ]_table

\* What a user of ListenerSets would expect and does not hold: without exception, a set
\* that comes later leaves the listeners that are served alone.
ServedStayServed ==
    [][ OnlyAdded => \A c \in table'.conflicts \ table.conflicts : c[1] \notin table.present ]_table

\* What the comment of resolve_listener_set_conflicts says (listenerset/state.rs:286-287) and
\* does not hold: the order is (namespace, name), so the first set by name loses only to
\* the Gateway and to reserved ports.
OrderedByName ==
    \A c \in table.conflicts :
        (\A s \in table.present : SetSpec[c[1]].rank <= SetSpec[s].rank) =>
            \E l \in ToSet(SetListeners(c[1])) :
                /\ l.name = c[2]
                /\ l.port \in Reserved \/ \E g \in ToSet(GwListeners) : Overlaps(g, l)

\* The Gateway's listeners of which the status can be written: gateway_l4_ready
\* waits for a socket that enforces the validation, and translate_l4_routes
\* opens one for an HTTPS listener only when a route is attached to it.
Writable ==
    \A i \in DOMAIN GwListeners :
        /\ TlsTerminated(GwListeners[i]) /\ o.validation
        /\ CertificateOK(o, GwNs, "Gateway", GwListeners[i])
        => \E e \in table.entries : e.listener = ListenerId(GwName, GwListeners[i])

\* The status is made by code of its own: reconcile_gateway validates the
\* certificates and count_attached_routes counts, while the tick programs
\* listeners and compute_effective_hostnames attaches routes.  Once users stop
\* editing they agree for ever: a listener is said to be programmed if and only
\* if it is, and then an HTTP or HTTPS listener is said to have HTTPRoutes if
\* and only if the table has entries for them.
AttachmentsAgree ==
    <>[](Writable =>
        /\ gstatus.written /\ gstatus.conditions
        /\ \A i \in DOMAIN GwListeners :
              LET programmed == GatewayState(o)[i].programmed
              IN  /\ gstatus.listeners[i].programmed = programmed
                  /\ GwListeners[i].protocol \in HttpProtocols /\ programmed
                     => (gstatus.listeners[i].attached > 0) =
                            \E e \in table.entries :
                                /\ RouteSpec[e.route].kind = "HTTPRoute"
                                /\ e.listener = ListenerId(GwName, GwListeners[i]))

\* The controllers resolve a route's parents against listeners of their own
\* making, the tick against those it publishes.  Once users stop editing, the
\* status of a route says that it is accepted by a listener it names if and only
\* if the table serves it there, provided the listener is programmed.
StatusTellsServed ==
    <>[](\A r \in o.routes : \A p \in RouteSpec[r].parents : \A i \in DOMAIN GwListeners :
            /\ ~IsStream(r) /\ p.kind = "Gateway" /\ p.section = GwListeners[i].name
            /\ GatewayState(o)[i].programmed
            => /\ rstatus[r].written
               /\ (rstatus[r].parents[p] = "Accepted") =
                      \E e \in table.entries :
                          e.route = r /\ e.listener = ListenerId(GwName, GwListeners[i]))

\* A reference into another namespace is followed only while its owner grants
\* it: once users stop editing, no route forwards to a backend of a namespace
\* that holds no ReferenceGrant, whatever grants other namespaces hold.
RevokedGoes ==
    <>[](\A e \in table.entries :
            LET route == RouteSpec[e.route]
            IN  e.action = "forward" /\ route.backend.ns # route.ns
                => \E g \in o.grants : /\ g.ns = route.backend.ns
                                       /\ <<route.kind, route.ns>> \in g.from)

=============================================================================
