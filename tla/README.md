# A TLA+ model of the sunbeam proxy

The proxy is a Rust program that serves HTTP, TLS, TCP and UDP traffic with routes it takes from the
Kubernetes Gateway API, a Caddyfile and a TOML file.  This directory models its configuration path (how a
replica turns Kubernetes resources into tables, how the tables are merged and compiled, how a new table is
published to the running proxy and how the listening sockets follow), the life of a request, and the parts of
a node that keep state of their own: rate limiter, bot allowlist, trust in backends, cluster bandwidth, gossip and
certificate handover.  TLC checks the modules on small instances; for every instance TLAPS proves the safety properties of the
route manager, the sockets, the lookups of hosts, routes and plans, the configuration pipeline, the reconcile loop, the request pipeline, the protection and trust of
connections, conflicts of ListenerSets, the byte counters and the certificate handover (section 5).

## 1. Inventory

| Component (source) | State | Operations | What makes it correct |
|---|---|---|---|
| Route manager (`route_manager.rs`) | per-source tables, three `ArcSwap` cells (`current`, `l4_config`, `rewrites`), a condition variable, version history; the thread's channel and `last` table | `apply`, `rollback`, the receive loop of `spawn` | a failed apply leaves no trace; the cells agree between applies; the last table sent is served; the history is the last applies |
| Merge and compiler (`ir/mod.rs`, `ir/compile.rs`) | none | `merge_sources`, `CompiledRouteTable::compile`, `find_host_node`, `HostNode::lookup`, `CompiledL4Config::compile` | most specific listener, then hostname, answers; priorities decide ties; every listener gets one socket |
| L4 socket manager (`l4/manager.rs`, `l4/udp.rs`) | queue, running configuration, handles; one task per listener | receive and drain, store to the shared cell, stop, await, start; bind, accept, stop | handles are the configured listeners; addresses are released before they are bound again |
| L4 router (`l4/router.rs`) | reads `l4_config` | route selection by protocol, listener and SNI; relaying | the most specific listener's route is taken |
| `run_serve` (`main.rs`) | startup order, the updater thread's `last` | apply Caddyfile and TOML, start the reconciler, wire the L4 manager, forward changed configurations | every published configuration reaches the sockets |
| Leader election, reconcile loop (`gateway/election.rs`, `gateway/reconcile/leader.rs`) | lease, leader flag and token, previous view | renew, acquire or drop the token, reconcile, translate, send, refresh certificates | the flag follows the lease; every view change is sent; a failed request never makes the table older |
| Reconciliation, translation, status (`gateway/reconcile`, `gateway/translate`, `gateway/status`) | Kubernetes objects and their statuses | certificates, listener conflicts, route attachment, grants, counts, conditions, tables | a ListenerSet older by a second keeps its listeners; what the statuses say is what is served; a revoked grant ends its references |
| Gossip (`gateway/gossip`) | pending digest, bounded channels | publish a digest, notify, forward, broadcast | the reconcile loop is never stopped by gossip; the last digest is the current one |
| Cluster (`cluster`) | atomic counters, peers' cumulative bytes, samples | record, snapshot, broadcast, receive, evict, limit | no byte is lost; totals converge despite lost, late and repeated reports |
| Protection (`rate_limit`, `ddos`, `scanner`) | token buckets, allowlist cache and queue | check, refill, evict; verify by DNS | bounded admission; `Retry-After` is true; only verified bots skip the scanner |
| Backend trust (`gateway/reconcile/backendtlspolicy.rs`, `endpoints.rs`, `proxy/upstream_tls.rs`) | policies, ConfigMaps, endpoints; peers and idle connections | validate, settle conflicts, expand backends; make a peer, verify, reuse | the oldest policy comes to hold; no request is sent on a connection verified for another trust |
| TLS (`tls`, `gateway/cert.rs`, `cert.rs`, `watcher.rs`, `upgrade.rs`) | certificate store, files, processes | select, refresh, write, hand over | a certificate and its key match; the newest process serves the newest certificate |
| HTTP pipeline (`proxy`) | per-request context, relay contexts, cache | filters, lookup, stages, cache, upstream, retry, body, logging | a request is judged by the connection it came by and served by one plan; personal responses are not kept; every request ends |
| Offline and output (`ensemble`, `training`, `dataset`, `autotune`, `metrics.rs`, `telemetry.rs`, `audit.rs`) | models, files | - | not behavioural |

How they interact.  The reconcile loop sends tables over an `mpsc` channel to the manager thread, which
calls `apply`.  `apply` compiles, stores the three cells and signals a condition variable.  The updater
thread of `run_serve` wakes up (or times out after one second), compares the `l4_config` cell by pointer
with the one it forwarded last, and sends it to the L4 manager, which stores it **back into the same cell**
and rebinds sockets.  The L4 router and the HTTP proxy read the cells on every connection and request.  The
L4 router terminates TLS and copies the plaintext to the proxy's loopback address; which listener and client
the bytes came from travels in two maps keyed by the source address of that loopback connection.  The
controllers of the Gateway API resources write statuses from lists of their own, next to the tick that
publishes the table.

What is hard: three cells published one after the other; two writers of one cell; draining channels and
comparing with remembered values; tasks that outlive their handles; addresses held by someone else; merged
listeners whose identity depends on their neighbours; two pieces of code that must give one answer; addresses that are
used again; clocks read before a lock is taken; channels that fill up.  `PROJECT.json` lists each hazard at its line, with the
properties that cover it or the reason why none does.

## 2. Modules

| Module | Models |
|---|---|
| `Lists` | sorted, filtered and joined lists, described by positions: constant-level operators |
| `Lists_proofs` | what these lists hold and in which order: the lemmas of the lookups |
| `RouteTable` | tables, merge, host index and lookup, listener groups, L4 routes, route selection of the router: constant-level operators |
| `HotSwap` | the promise of the route manager: one served map of source tables, changed one source at a time, never to one the compiler rejects |
| `RouteServing` | what the proxy answers for every map `HotSwap` can reach |
| `RouteManager` | `apply` in its publication steps, startup, the manager thread, `rollback` |
| `L4Manager` | `run_manager`, listener tasks, datagram handlers, foreign sockets |
| `Managers_proofs` | `RouteManager`, and `L4Manager` with any caller: inductive invariants and theorems |
| `ConfigPipeline` | `RouteManager`, `L4Manager` (`INSTANCE`) and the updater thread, sharing the `l4_config` cell |
| `Sockets_proofs` | `RouteServing` and `ConfigPipeline`: which sockets listeners compile to, which host and route answers, and how a configuration reaches the sockets |
| `ReconcileLoop` | one replica's lease task and `run_reconcile_loop`: token, ticks, sends, status, certificates |
| `ReconcileLoop_proofs` | the order of versions and the theorems |
| `PlanLookup` | one host of the compiled table: plans, precedence, trie, discriminators, `HostNode::lookup` |
| `RequestPipeline` | relays with their context maps, and the phases of a request from `request_filter` to `logging` |
| `RequestPath` | `PlanLookup` and `RequestPipeline` next to each other |
| `RequestPath_proofs` | what holds of a request in each phase, what the lookup finds, and the theorems |
| `Attachment` | hostnames, allowedRoutes, grants, ListenerSet conflicts, parents, entries and sockets of a view: constant-level operators |
| `GatewayControl` | users, the tick and the controllers of one Gateway over `Attachment` |
| `Gateway_proofs` | conflicts of ListenerSets: the recursion has a solution, inductive invariant and theorem |
| `RateLimiter` | keys, bypass, `check`, `evict_stale` |
| `BotAllowlist` | `check`, the DNS worker and the cache of the bot allowlist |
| `BackendTls` | BackendTLSPolicies and endpoints in a tick, the peers of requests, their verification and idle connections |
| `Protection_proofs` | `RateLimiter`, `BotAllowlist` and `BackendTls`: inductive invariants and theorems |
| `ClusterBandwidth` | counters, reports, peers, meter and limiter |
| `DigestGossip` | digests and notifications from the reconcile loop to the broadcast tasks |
| `CertHandover` | certificate files, watchers and the chain of upgraded processes |
| `Node_proofs` | `ClusterBandwidth` and `CertHandover`: inductive invariants and theorems |
| `MC*` | the instances for TLC |

**RouteTable.**  A hostname is the sequence of its labels, so a suffix match on `.example` is a suffix of the
sequence.  The merge goes through *entries*, a source and a position in its table, in the order `Earlier`.  The listeners are those
of the entries that are the first with their id (`MergedListeners`), which is what
inserting them in order into a map leaves; hosts and routes, whose order matters, are listed in that order (`Concat`).  Lookups are
stated on sets of positions in the compiled lists, of which the least is taken, as the loops of the code take the first.  A host route is its matchers, the number of plans it compiles to and a tag for its contents.  A
connection without SNI is `NoSni`.  `HashMap` iteration order never reaches a result the operators return,
except the CA bundle chosen between two strict validations, which is abstracted to its strictness.

**RouteManager.**  `pc` is the next step of the apply in progress; there is at most one, since `main` applies
before it sends anything and afterwards only the manager thread does.  A compiled result is its position in
`arcs`, the sequence of all compilations, so that pointer identity (which the updater thread uses) and
content (which the L4 manager uses) can be told apart.  Source maps that do not compile are those with an
HTTPS or TLS listener without TLS configuration, the only error of the compiler.  `SendTable` is the reconcile
loop's send.  `rollback` is public and has tests but no caller in the program; `RollbackSpec` adds it.

**L4Manager.**  `mpc` is the step of `run_manager`.  A task is `spawned`, `bound` or `ended`; it binds once.
`handlers` counts the datagram tasks that hold a clone of a UDP socket.  `SlowTasks` lets the five-second wait
for a stopped task run out.  `foreign` is the set of addresses another process holds, as during a graceful
upgrade.

**ConfigPipeline.**  The heap of L4 configurations is the L4 part of `arcs`, and the L4 manager's `config` is the
route manager's `l4_config`.  A table applied between `main`'s own forward (`main.rs:638`) and the updater's first load
(`main.rs:644`) is remembered without having been forwarded and reaches the sockets only with the next update: the ghost `missed`
says so, and is the one exception of `RouterAgreesWithSockets`.  `PacedSpec` receives a table only when nothing is in flight.

**ReconcileLoop.**  `lpc` is the step of the lease task, whose patch succeeds exactly when its request does, and `pc`
the step of the loop.  The lease task stores `token_valid` and the channel in two steps, `token()` reads and stores
in two, and a dropped token clears the shared flag.  A list is the number of changes made to its resources, so a view maps
kinds to versions; a kind in `Lenient` is one whose failed request counts as nothing found (the Services that routes name, fetched one by
one, and `BackendTLSPolicy`, whose second list is the one used), every other failure ends the tick.  The status patches of a tick are taken together; the event-driven
controllers are in `GatewayControl`, the digests and the notifications in `DigestGossip`.  One replica is enough: the patch uses one field manager and
never compares holders, so replicas do not interact through the lease, and nothing keeps two of them from leading.

**PlanLookup.**  The state is the HTTPRoutes attached to a host and the node compiled from them.  A path is its
segments and a final slash, a value a word with its case, a regular expression the words or paths in which it is
found.  Which of several equally frequent headers `max_by_key` returns depends on a `HashMap`, so compilation is a
choice among discriminators.  The reference is a search of all plans by the Gateway API's words.  `LookupIsBest` is about requests
that spell methods and header values as the attached routes do (`Canonical`): buckets are found by the exact value, plans match in any case
(section 4).

**RequestPipeline.**  Pingora is external: it calls the phases in order, ignores a second response header and calls
`upstream_peer` again when a reused connection fails (once here).  A relay is `connected`, registers its address in
`http_context` and `sni_context`, copies, ends, removes its entries and only then drops its socket, so that the kernel
may give the address to the next one.  A request remembers the connection it really came by (`from`), against which
`ScopedToListener` compares what the filter found in the maps.  A plan is what the phases look at: source, stage,
upstream, cache, rewrites, CORS.  `compile_plan` gives a plan one request stage at most and never `CorsPreflight`, which is built in tests only, so
the arm of that stage (request_filter.rs:486) is left out.  The four detection layers answer or not, at will, unless they only observe.
Credentials are the user whose cookie or token a request carries; the cache's key only knows whether there are any.  The client's
address is the relay's, unless that is a trusted proxy's and the request's headers name another.  The binary's public listeners are the L4 manager's,
whose sessions have no TLS digest and take the plaintext branch; the TLS branch (`via = "tls"`) is what the code has for listeners of Pingora itself.

**Attachment, GatewayControl.**  The specs of the resources are constants and users decide which of them exist.  The tick
publishes entries (route, listener, hostname, action) and sockets; the Gateway controller reads, then patches in a second
step, with any of its lists of routes failing; controllers of ListenerSets and routes write from listeners of their own
making.  The code's peculiarities are kept: GRPCRoutes are not counted, a ListenerSet's counts ignore the port, its
listeners never get a socket, stream routes reach every listener of their protocol, a patch of `attachedListenerSets` alone
drops the other fields, `gateway_l4_ready` waits for a socket that an HTTPS listener without routes never gets.

**RateLimiter.**  A call reads the clock (`Begin`) and later works under the shard's lock (`Check`) with that time; the
sweep reads the clock once and visits the shards one by one.  Tokens are integers in units of `1 / Scale`.  `granted`,
`credited`, `rewound`, `evicted` and `promise` are ghosts.  Nothing relates `stale_after_secs` to the bursts and rates; where a
bucket is full again by the time it goes stale (600 s in the documented configuration) its eviction is harmless, elsewhere each one
gives a client up to `Forgiven(tier)`, which `GrantsBounded` counts.

**BotAllowlist.**  The queue, the worker between its two lookups and DNS that changes in between are explicit; the ghosts
`reversed` and `resolved` remember what DNS has answered and when.

**BackendTls.**  The part of a tick from the list of policies to the publication, one step per request to the API server: a
failed list of policies is an empty one, a ConfigMap that cannot be fetched an invalid reference, and a failed list of Services or
EndpointSlices leaves backends as parsed.  A CA bundle is the sequence of its ConfigMaps' contents.  A request picks an entry of
its plan, makes a peer with the client certificate the registry has by then, and is sent on an idle connection with the
same reuse key or on a new one that verifies.  The code's peculiarities are kept: the kind of a target is not part of the key by which policies conflict, a ca.crt
without any certificate is accepted and fails at the handshake, SANs are not looked at without a CA bundle, and with one
Pingora takes the peer for plain HTTP.

**ClusterBandwidth.**  One direction of traffic, seen by the node `Me`: the fetch_adds of `record` and the swaps of
`snapshot_and_reset` are steps of their own, reports are lost, delayed or repeated, peers crash and come back, and the
gossip of any node may end (`StopCluster`): `run_cluster` then shuts the router down and drops the handles of the other tasks, which
detaches them from it, so that the broadcast, eviction and metrics loops go on with nobody to hear from.

**DigestGossip.**  Four bounded channels between the loop, the publisher, the notifier, the forwarder and the broadcast tasks.
The receivers of both topics are stubs in the code, so no peer's message arrives.

**CertHandover.**  Processes, each with its two watcher tasks and the reload of its reconcile tick, share two files.  `fs::write`
truncates a file and fills it in a second step, `pen` is the place of a writer in `write_from_secret`, and two writers of one file may
leave a mixture (`Torn`).  Events come one by one with the version they are about, however late.  A predecessor keeps its tasks while it
drains, and may exit at any time; the container may crash at any time and is started again, which also stands for what the image's entry
point `tini` makes of the exit of the first process.  `pace` is a ghost: it is "alone" as long as each change of the
Secret found the newest process at rest and no other process watching the Secret, each change of the ConfigMap found the newest at rest, and no step failed; "draining" when only the
second was not so.  `loaded` is what the process has in its certificate store.  Whether it also serves it is a matter of `L4Manager`: the public
HTTPS socket is bound once and not passed on.

**RequestPath, MCNode, MCProtection, MCGateway.**  Components that share no state are checked in one run; `focus` says which
of them a behaviour is about, and the state spaces are added up rather than multiplied.

## 3. Runs

| Run | Properties | Shows |
|---|---|---|
| `route_serving` (`RouteServing.cfg`, pass) | `LookupIsMostSpecific`, `OneSocketPerListener`, `TlsRoutesReachable`, `SocketsStable` | For every combination of eight tables over the three sources: the merged table answers with the most specific host and the right source, every listener has one socket and the strictest validation, TLS routes are reached, and one listener's change leaves the other sockets alone. |
| `route_manager` (`RouteManager.cfg`, pass) | `TypeOK`, `Coherent`, `PublishedInOrder`, `HistoryContiguous`, `LatestServed`, `ImplementsHotSwap` | apply publishes the rewrites after the route table they belong to, leaves no trace when the table does not compile, implements the one-step swap, and the last table sent is served. |
| `route_manager_rollback` (`RouteManagerRollback.cfg`, pass) | `RollbackRestores` | rollback(k) restores the k-th last version and keeps the history in order, also when it overlaps an apply. |
| `l4_manager` (`L4Manager.cfg`, pass) | `NoOrphanListener`, `HandlesMatchConfig`, `SocketsFollow` | Whatever configurations follow each other, and whatever addresses the predecessor of an upgrade still holds, tasks and handles match the configuration, configured stream listeners come to be bound unless another process held their address when they tried, and removed ones come to be released. |
| `pipeline` (`Pipeline.cfg`, pass) | `RouterAgreesWithSockets`, `PacedConverges` | The composition of route manager, updater thread and L4 manager: at rest, outside the startup window, the router's configuration is the one the sockets were made from, and updates far enough apart all reach the sockets. |
| `pipeline_lost_update` (`PipelineLost.cfg`, violation) | `UpdatesReachSockets` | An apply that overlaps the L4 manager's store of an earlier configuration is overwritten, and its listeners are never bound. |
| `reconcile_loop` (`ReconcileLoop.cfg`, pass) | `TablesNeverRegress`, `TablesConverge`, `FlagFollowsLease`, `StatusConverges` | One replica with failing requests, a lease won and lost, and resources that change in the middle of a tick: the served view never goes back to an older version and converges, the leader flag follows the lease and the status the view. |
| `node` (`Node.cfg`, pass) | `NothingUncounted`, `LoadsPair`, `BandwidthConverges`, `HandoverFollows`, `GossipFollows` | The background parts of a node: bandwidth reports that are lost, delayed or repeated, peers that crash and gossip that ends; certificate files that are truncated, filled and handed from process to process through upgrades and crashes; and digests published through bounded channels to a gossip layer that may stop. |
| `protection` (`Protection.cfg`, pass) | `GrantsBounded`, `RetryAfterSuffices`, `AllowedIsVerified`, `ExchangesVerified`, `TrustFollows` | The rate limiter with threads that wait for the lock and a sweep that evicts buckets; the bot allowlist with its queue, worker, cache and changing DNS; and the trust in backends from policies, ConfigMaps and endpoints to pooled connections, while these change and the API server comes and goes. |
| `request` (`Request.cfg`, pass) | `LookupBest`, `ScopedToListener`, `PlanHolds`, `CacheImpersonal`, `BodyWhole`, `RequestEnds` | The path of a request: the lookup through trie and discriminators against a search of all rules, and the phases of requests while tables are swapped, relays of other clients reuse addresses and upstreams fail. |
| `https_redirect` (`RequestHttps.cfg`, violation) | `HttpsNotRedirected` | A request that arrived by HTTPS through the terminating relay is redirected to HTTPS. |
| `gateway` (`Gateway.cfg`, pass) | `FirstComeFirstServed`, `CountsAgree`, `RouteStatusesAgree`, `RevokedGoes` | Users edit ListenerSets, routes, grants and Secrets while the tick and the controllers run: conflicts are settled by age, within a second by name, statuses come to agree with the table, and a revoked reference comes to be refused. |

Bounds.  Three sources, as in the program.  `MCRouteManager` has an empty table, one with a listener and one
that does not compile, up to four sends and a history of two or three versions: enough for the channel to be drained over
several tables, for a rejected table between accepted ones and for the history to overflow.  `MCL4Manager` applies
four configurations out of three or four, so that a listener can be added, changed, removed and added again, while a
predecessor holds a TCP and a UDP address and releases each at any time or never.
`Slots` bounds the tasks alive at once and is large enough that it never delays `StartMissing` in the TCP runs.  `MCConfigPipeline`
needs only a configuration with and one without a listener and two sends to lose an update.  `MCReconcileLoop` has
a strict list before and one after the lenient requests, two changes of resources, a renewed certificate and three
changes of the API server's health: enough to lose and regain the lease, and to fail in the middle of a tick while a
resource changes.  `MCRouteServing`
enumerates every assignment of its eight tables to the three sources.  `MCPlanLookup` attaches up to three of six routes with a
threshold of two instead of eight, so that every kind of discriminator is built, and asks 216 requests.  `MCRequest`
has two relays on one source address, so that it is used again, four tables, and at most two requests, the second of
which may meet the cache; the body limit is one chunk.  Its `BoundedSpec` is `RequestSpec` with bounds on what the
second connection does (`Bounded`).  `MCGateway` makes two edits to overlapping ListenerSets, created in one second or in two, routes of four
kinds, grants and a Secret, with one failing list.  `MCProtection` has two threads, a key shared by two clients and four seconds, in
which a bucket is used, goes stale, is evicted and used again, and a key of a tier whose burst is not refilled by then; the allowlist has bots verified each way and DNS that changes once.
Backends have four policies (two for one Service that differ in age and SANs, one for a named port, one whose target and reference are
invalid), two changes, two changes of the API server's health and two requests: enough for a connection to be kept, its policy or
ConfigMap replaced in the middle of a tick, and the connection considered again.
`MCNode` has one peer, two requests and one fault; up to three processes and three versions of Secret and ConfigMap together; channels of
one message and one outage: the smallest with which each channel fills, and an upgraded process upgrades again.

Fairness.  Weak fairness on the steps of threads and tasks that are able to run: main, the manager thread, the
updater thread (whose wait times out after one second), `run_manager` and the listener tasks, since the operating
system and the tokio runtime schedule runnable work.  Datagram handlers end within 30 s.  In `ReconcileLoop` the lease task and the loop are
timer-driven tasks whose requests return.  The phases of a request are fair, as Pingora bounds connecting, reading and writing;
the auth subrequest is not, since its client has no timeout.  In `GatewayControl` the tick and the controllers run again
and again, as every resource is queued anew after at most 30 s; a list that fails is not forced to.  In `BackendTls` the reconcile loop goes on, as its timer ticks and its requests return; requests of
clients are not forced to.  In `MCNode` tasks of running
processes go on, reports that were delayed arrive and time passes.  Nothing is assumed of the API server's health (the properties say when they need it), of
users, or of the reconcile loop in the other modules.  `PacedSpec` is fair to the paced receive only.

`CHECK_DEADLOCK FALSE` is set where the system may come to rest: no more updates within the bound, or a startup
that failed.

Each property of a passing run has a mutant in `PROJECT.json`: an operator next to the definition it replaces
(`PushHistoryLate` for `PushHistory`) that makes a plausible mistake, for which TLC finds the property violated.

## 4. Disagreements between the code and its documentation

1. `pipeline_lost_update`, `UpdatesReachSockets` (src/src/l4/manager.rs:97). run_manager stores every configuration it takes from its queue back into the ArcSwap that RouteManager::apply writes, without checking that the cell has not moved on. When apply stores a newer configuration between a forward (of main or of the updater thread) and the manager's store, the older one overwrites it, the updater sees the older pointer, and the newer configuration's listeners are never bound. src/src/l4/manager.rs:53-54 says "The manager stores incoming configs into `config`, so routers and other consumers that hold a clone of the same `ArcSwap` see updates immediately." and src/src/route_manager.rs:109-110 says the condition variable "is signaled whenever the compiled L4 configuration changes".
2. `https_redirect`, `HttpsNotRedirected` (src/src/proxy/request_filter.rs:83). request_filter takes its plaintext branch whenever the session has no TLS digest, although HTTPS that the L4 router terminated always arrives as plaintext at the internal address (src/src/main.rs:461). An HTTPS request for a route of the Caddyfile or the TOML file (src/src/caddyfile/translate.rs:114 sets disable_secure_redirection to false) is therefore answered with 301 to the same https URL, and the detection, authentication and static file stages never run for it. src/docs/architecture.md:112 says "**`request_filter`** — determine the real downstream scheme and port from the L4 context, run the security pipeline, perform the single route lookup, and execute any request-stage actions (auth subrequest, CORS preflight, static files, redirects, fixed responses)."

Formulas that a reader of the repository would expect, that the models contain and that do not hold.  They have no run
of their own; TLC refutes each within two minutes when it is added to the configuration named.

- `CertificatesReload` (`ReconcileLoop.cfg`): a renewed certificate is served in the end.  `leader.rs:220` refreshes only when the view
  differs, and the view does not hold certificates; docs/gateway-api.md:143 says "Sunbeam watches the Secret and reloads the
  listener certificates automatically." and tls/source.rs:73-74 "callers refresh it after each reconcile tick".
- `NothingTakenAway` (`ReconcileLoop.cfg`): a failed request takes nothing away from the proxy.  A Service that cannot be fetched is
  `BackendNotFound` whatever the error (backend.rs:312, l4route/reconcile.rs:58), and a table whose rules and L4 routes lack these backends is
  sent; reconcile/mod.rs:208-211 says of lists that failures are "propagated as `None` so the reconcile tick can retry on the next interval instead of
  programming an empty route table".
- `ListenersBound` (`L4Manager.cfg`): every configured listener comes to be bound.  Datagram handlers keep clones of a removed
  listener's socket for up to 30 s, the predecessor of an upgrade keeps its sockets while it drains, and a bind is tried once; l4/manager.rs:112-113 says "Waiting for the task to exit ensures the
  socket is released before a replacement binds the same address." and docs/architecture.md:230 of the upgrade "The proxy runtime passes listening socket FDs
  across a Unix socket, so connections do not drop", which is not so of the sockets that the L4 manager binds.
- `RouterAgreesFromTheStart` (`Pipeline.cfg`): with nothing in flight the router's configuration is the one of the sockets, from the start.
  A table stored between `main.rs:638` and `main.rs:644` is not forwarded until the next one comes; l4/manager.rs:53-54 says that
  consumers "see updates immediately".
- `HostnamePriority` (`RouteServing.cfg`): the priority of sources decides between equal hostnames, wildcards included.  Equally specific
  wildcards are sorted by their number of rules first (ir/compile.rs:409); route_manager.rs:120-121 says "Higher priority sources win when both
  claim the same hostname/prefix."
- `CatchAllAnswers` (`RouteServing.cfg`): a catch-all host answers what no other does.  One `any_host` node is kept
  (ir/compile.rs:400); compile.rs:1108-1109 says "respecting listener hostname/port isolation and specificity".
- `HttpsRoutesReachable` (`RouteServing.cfg`): HTTPS routes of an address shared with a TLS listener are matched.  The merged listener has
  protocol Tls (ir/compile.rs:512); compile.rs:480-482 says "TLSRoute passthrough/terminate and HTTPS termination are
  distinguished by SNI in the L4 router rather than by separate binds."
- `LookupIgnoresCase` (`Request.cfg`, module `PlanLookup`): buckets are looked up by the exact value while `plan_matches` ignores case
  (test `select_path_route_header_match_is_case_insensitive`, proxy/match_.rs:831).
- `LongestPathAnswers` (`PlanLookup`): the precedence of a rule is the maximum over all its matches, so a rule with one long path
  outranks others with its short ones (compile.rs:714-750).
- `ServedTrusted` (`Protection.cfg`, module `BackendTls`): a backend whose policy is reported as programmed is never served without TLS.  A list of
  policies or Services that fails counts as empty for a tick (backendtlspolicy.rs:51, endpoints.rs:116), after which
  requests to the Service go out in plain HTTP until the next tick; docs/gateway-api.md:170 says "When a route sends traffic to that Service, Sunbeam verifies
  the upstream certificate against the configured CA, hostname, and subject alternative names."
- `ServedStayServed` and `OrderedByName` (`Gateway.cfg`, module `GatewayControl`): a ListenerSet that comes later never takes a served
  listener's place, and the order is by name.  The order is (created_at, namespace, name) (listenerset/state.rs:357-363): age decides where the comment at
  state.rs:286-287 says "ordered deterministically by (namespace, name)", and within a second the name decides against the set that was there.
- `EvictionGivesNothing` (`Protection.cfg`, module `RateLimiter`): the burst and the rate alone bound the grants.  An evicted bucket comes
  back full, and no validation (config.rs:147-162) sees to it that it was (the test at rate_limit/limiter.rs:236 sets `stale_after_secs` to 0).
- `AuthAlwaysRuns` (`Request.cfg`, module `RequestPipeline`): the backend of a route with an auth subrequest is reached after it only.  Without a TLS
  digest the stages of a plan are not run, but for a terminal one (request_filter.rs:150-166); config.rs:291 says "If set, the proxy makes an HTTP request to this URL before forwarding."
- `CacheKeepsUsers` (`Request.cfg`, module `RequestPipeline`): a kept response is given to the user it was made for.  The key has `|auth` for whatever credentials
  (cache_hooks.rs:72-76); cache_hooks.rs:68-69 says "This prevents responses for one user's session from being served to another client."
- `LongBodiesStreamed` (`Request.cfg`, module `RequestPipeline`): the client gets every chunk.  What is buffered when the limit is passed is
  dropped (filters.rs:147-149); filters.rs:7-8 says "Responses larger than this are streamed through without rewriting".
- `EveryCertificateServed` (`Node.cfg`, module `CertHandover`): every complete change of the Secret is loaded in the end.  A watcher ends after its first
  event, and passes over what comes with a renewed list, so a change that overlaps an upgrade or a broken watch, or meets a failed write or
  spawn, may never be loaded (the formula is about behaviours with `focus = "certificates"`); watcher.rs:12-13 says "then trigger a graceful upgrade so the new process reads the updated cert immediately".
- `DrainingHarmless` (`Node.cfg`, module `CertHandover`): a predecessor that drains does not disturb a process that starts.  After an upgrade for the ConfigMap it
  still watches the Secret, and truncates the files (cert.rs:53-54) that the next process reads.
- `RefreshKeepsPair` (`Node.cfg`, module `CertHandover`): a process does not lose the certificate it has loaded.  The tick of a process may read the files
  (leader.rs:222) while its own `watch_secret` replaces them, and `load` makes an empty store of what does not fit (tls/source.rs:51).

## 5. Proofs

`Managers_proofs` proves of `RouteManager`, for every set of sources and tables, every priority and every `max_history`:

- `TypeCorrect`, `CoherentTheorem`, `HistoryTheorem`: `Spec => []P` for the invariants of the run `route_manager`;
- `PublishedInOrderTheorem`: `Spec => PublishedInOrder`, about the cells that `apply` alone stores into (the route table and the rewrites);
- `Refinement`: `Spec => ImplementsHotSwap`.

None of the invariants is inductive alone.  `IInv` adds where the cells are at each `pc` (`CellsInv`: the cells
before the step still point at the previous version, those after it at the new one), what the compilation in progress is
made of (`JobInv`: the newest entry of `arcs` is the recorded sources with the job's table, and it compiles) and what
the recorded sources are (`SourcesInv`).  Each action preserves each part (`NextIInv`), and `Invariant` concludes
`Spec => []IInv`.  For the refinement, `StoreCurrent` is the step that maps to a `Swap` (`StoreIsSwap`), every other
step leaves `arcs[current]` as it is (`ServedStable`).  The assumptions used are those named in `RouteTable` and
`RouteManager`; TLC evaluates them in every run.

`ReconcileLoop_proofs` proves, for every sequence of kinds, every choice of lenient ones and every bound:

- `TypeCorrect`: `Spec => []TypeOK`, which includes that a view is made of a complete set of lists;
- `VersionsTheorem`: `Spec => []VersionsOrdered`;
- `NeverRegressTheorem`: `Spec => TablesNeverRegress`.

`TablesNeverRegress` speaks of one step and needs to know where the new view's lists come from.  `VersionsOrdered` supplies it:
the list served is at most the one fetched, which is at most the API server's; `ListKindStep` says what fetching does and
`ViewOfLists` that a completed view holds exactly its lists.

`Managers_proofs` also proves `RollbackTheorem`: `RollbackSpec => RollbackRestores`, an action property about the end of a
rollback.  Its invariant `RollbackInv` says that the history is ordered and holds only published compilations, and what the
rollback under way has already stored (`RollbackUnderWay`): the history lock, taken by a rollback and by the last step of
an apply, is what keeps the chosen version the newest one.

`Sockets_proofs` proves, for any sources, priorities, tables and swaps:

- `AlwaysOneSocket`: `ServingSpec => []OneSocketPerListener`;
- `SocketsAlwaysStable`: `ServingSpec => SocketsStable`;
- `TlsAlwaysReachable`: `ServingSpec => []TlsRoutesReachable`;
- `LookupAlwaysMostSpecific`: `ServingSpec => []LookupIsMostSpecific`.

The first two rest on lemmas about the compilation of an arbitrary set of listeners: `SharedMeans` and `SocketSpeaks` say when listeners
are merged and which protocol their socket has, `SameSocket` that two listeners able to answer one connection have one id,
`IdIsLocal` and `SocketIsLocal` that an id and its socket depend on the listeners of their address only.
`ProtocolAssumption` (a listener has one of the five protocols of the enum) is needed: the id of a merged group must differ
from every protocol's name.

The other two are about lists that the merge and the compiler make, of any length.  `Lists` gives the member at place `k` of a sorted list as the
one that `k - 1` others come before, so that no recursion and no sorting primitive stands between a list and what it was made of.
`Listed` (`Lists_proofs`) shows, by counting, that a strict total order of a finite set leaves exactly one member for each place, that
every member has one, and that places follow the order; `ChosenMembers` and `JoinedMembers` say what filtering and joining keep.
For the merge, `EarlierOrders` shows that entries are totally ordered, because ids have different ranks, and `Concatenated` that the merged list
has every entry of every source that reported, in this order.  `TlsAlwaysReachable` then needs that compiling a route changes only its listener's id, into the
one its socket has (`CompiledRoute`), and that TLS listeners of an address have one socket that speaks Tls (`TlsSocket`), so that the
candidates of `find_tls_route` hold every route of the most specific listeners.  `LookupAlwaysMostSpecific` follows the hosts through the index: `ExactListed`,
`WildcardListed` and `AnyListed` say which hosts each part holds, `Indexed` that only catch-alls are dropped and that exact hosts
come first in the order of the merge, `LookupPicks` that the first of the best candidates is taken.  The priority of sources follows because the first exact host in the
index is the one of the earliest entry.  Assumptions: sources are finite (`SourcesFinite`), tables are lists of routes with matchers of the
four kinds of the enum (`TablesAssumption`), and no host is the empty name that stands for a missing SNI (`HostsAssumption`).

`Managers_proofs` proves of `L4System`, the manager with a caller that publishes any configurations at any time,
`NoListenerOrphaned`, `HandlesAlwaysMatchConfig`, `L4TypesAlwaysOK` and `KeptListenersGoOn`.  `HandlesMatchConfig` speaks of the
manager at rest only, so `LInv` adds what holds on the way: handles lead to live tasks of their listener (`HandlesLive`), and while removed tasks are
awaited only kept handles are left (`OnlyKept`).  Slots and datagram handlers are finite (`L4BoundAssumption`), otherwise
the constants are arbitrary.

Of the composition, `Sockets_proofs` proves `RouterAlwaysAgreesWithSockets` (`PSpec => []RouterAgreesWithSockets`) and
`PacedUpdatesReachSockets` (`PacedSpec => [](UpdatesReachSockets /\ ~missed)`).  The cell has two writers, so equality is not inductive: `Forwarded`
says that the configuration the updater remembers is the one the manager will run, and `Boot` what the startup has done.
The second theorem is about the property the run `pipeline_lost_update` refutes: it holds
when a table is received only with nothing in flight, so the overlap is all that loses an update.  `PacedInv` adds that the manager
never stores back an older configuration than the cell's (`StoresNothingOld`) and that the startup is undisturbed (`StartsQuietly`).

`Gateway_proofs` proves `FirstComeTheorem`: `GSpec => FirstComeFirstServed`, for any ListenerSets and listeners and any number of edits.
`ResolveConflicts` is a recursive function along the order of the claims.  The library's recursion theorems cannot be instantiated,
so the proof goes by descent: every set of claims has an earliest one (`EarliestClaim`, from `Least`), partial solutions of the
recursion agree (`PartialsAgree`), so that their union is a solution (`LosersExist`) and `ResolveConflicts` is one (`ConflictsSolve`).
A solution for more claims restricts to one for the claims up to those of a set that is not overtaken (`OldClaimsKept`).  `GInv` says that a set the last
table did not have is not older than any it had (`CreatedLater`), which needs that no creation lies ahead of the clock (`ClockAhead`);
so only a set of the same second can come before one that was served, by its name.
Assumptions: ranks and positions are numbers (`SetSpecAssumption`), and there is no ListenerSet at the start (`InitiallyAssumption`).

`RequestPath_proofs` proves of the pipeline `PlanAlwaysHolds`, `AlwaysScopedToListener`, `CacheAlwaysImpersonal`, `BodyAlwaysWhole` and
`GaugeAlwaysBalanced`, for any tables, connections and addresses and any limit on rewriting.  `RInv` says of each request, phase by phase,
what its context holds (`Sound`, in four parts: the plan, the cache, the body, the answer), of the maps that the entries of an address
are those of the one connection that has it (`AddressesDistinct`, `MapsOwned`), and that a request that has not been filtered yet still has its connection open
(`OnItsConnection`): this is why reusing an address confuses no request.  `RequestStep`, `RelayStep` and `PhaseStep` reduce an action to the one record it
changes.  `PipelineAssumption`: slots are finite, no local address is `Remote`, and a header names a client by its number.

Of the lookup it proves `LookupAlwaysBest`: `Spec => []LookupIsBest` for one host with any routes, rules and matches, any requests and any
threshold, and `RequestLookupBest` and `RequestAlwaysSound`, which carry the lookup and the properties of the pipeline over to `RequestSpec`, the composition that
the run `request` checks.  The inductive invariant is short (`HostInv`: the node is one that `CompileHost` allows for the attached routes); the
work is in what compilation and lookup do.

- Every plan has a precedence of four numbers (`PrecedenceType`), so `Outranks` is a strict order (`OutranksOrders`), the stable sort lists
  exactly the plans it is given (`SortPlansSorts`), and the first match in the result is one that no other match outranks
  (`FirstMatchIsBest`).
- A discriminator, of whichever kind and name, hides from a request only plans that do not accept it (`MethodCovers`, `NameCovers`, `PlainCovers`, joined in
  `NodeResolves`).  This is where `Canonical` is used: the bucket is found by the exact value.
- The node of a prefix that accepts a request is on its way down the trie (`OnTheWay`), so the candidates are plans of the host and hold every plan
  without an exact path that accepts the request (`CandidatesCover`); exact paths have a bucket with all their plans (`ExactPaths`).
- `LookupFindsBest` combines them.

Assumptions: routes are lists of rules, these of matches with the path kinds of the enum (`RoutesAssumption`), the path of a request is a list of
segments (`RequestsAssumption`).

`Protection_proofs` is about three modules.

- `RateLimiter`, for any threads, clients, bursts, rates, `stale_after_secs` and behaviours of any length: `GrantsBoundedTheorem`
  (`RLSpec => []GrantsBounded`) and `RetryAfterTheorem` (`RLSpec => []RetryAfterSuffices`).  The bound on grants is not inductive: a bucket
  that is about to be refilled or evicted says nothing about what it was credited.  `BucketAccounts` adds to the grants what the
  bucket still holds and charges both to the time credited so far, which is the bucket's last refill; a thread with an old time
  moves that back, and `rewound` keeps the account.  `Refilled` is the arithmetic of one `check`, and `SweepShardRLInv` of an
  eviction: the idle time and `Forgiven` pay for a full bucket, also when `stale_after_secs` is 0 and the sweep's time is older than the bucket.  `PromiseCovered` says that a rejection's promise is
  covered by the bucket it left behind; `RoundsUp` is the division of `RetryAfter`.
- `BotAllowlist`, for any queue and any changes of DNS: `AllowedAlwaysVerified`.  The decision comes long after the lookups, so the invariant follows
  the evidence: the lookup in progress has a host that reverse DNS gave (`LookupGrounded`), and both answers stand behind
  every positive entry of the cache (`CacheGrounded`).
- `BackendTls`: `ExchangesAlwaysVerified`.  The reuse key of a connection holds neither the CA bundle nor the SANs; `PoolKeyed` says that scheme and group key, which it
  does hold, determine them for every peer `make_peer` builds (`MakePeerKinds`, `SameKeySameTrust`).

`Node_proofs` proves `NothingEverUncounted` and `AlwaysLoadsPair`.  The first needs the balance in every state: reported and unreported
bytes are the cumulative total and `Size` for each thread that has done the first `fetch_add` and not the second (`Balance`).
The second needs, while `pace` is "alone", that older processes have exited, or have handed over and have no event of the Secret to come
(`OlderOK`), and of the newest how far it is with the files at each place of `write_from_secret` (`FilesOK`) and that no other change is on its way while it writes,
so that nothing starts a process then (`NewestOK`).  A crash needs no case in it: whatever the files are, the new process fetches before it reads.

Only model-checked:

- liveness (`LatestServed`, `SocketsFollow`, `PacedConverges`, `TablesConverge`, `FlagFollowsLease`, `StatusConverges`, and the
  temporal properties of `node`, `protection`, `request` and `gateway`): liveness under fairness is out of the prover's reach;
- every invariant that a run checks is stated by a theorem, and so are the action properties `TablesNeverRegress`, `SocketsStable`,
  `RollbackRestores` and `FirstComeFirstServed` and the refinement; the other temporal properties of the runs (`CountsAgree`, `RouteStatusesAgree`, `RevokedGoes`
  among them) say that something comes to hold under fairness;
- `MCNode`, `MCProtection` and `MCGateway` run several specifications next to each other; the theorems are about each one alone.
  Of `DigestGossip`, whose one property is liveness, nothing is proved.

## 6. Plan

Order of work, most important behaviour first.  Done: 1-11.

1. `RouteTable`, `HotSwap`, `RouteManager` with proofs: publishing a table.
2. `L4Manager`: sockets.
3. `ConfigPipeline`: the composition.
4. `RouteServing` with proofs: what is answered.
5. `ReconcileLoop` with proofs: lease, token, ticks, certificate refresh of one replica.
6. `Lists`, `PlanLookup` with proofs: trie, discriminators and precedence against a search of all rules.
7. `DigestGossip`, `ClusterBandwidth`: bounded channels, loss, duplication, reordering, expiry.
8. `RateLimiter` with proofs, `BotAllowlist`.
9. `Attachment`, `GatewayControl`: conflicts, attachment, grants and statuses.
10. `RequestPipeline`, `CertHandover` with proofs: phases of a request, certificate writes and graceful upgrade.
11. `BackendTls`: policies, endpoints, upstream peers and idle connections.

Next: the selection of certificates by SNI, frontend validation, the filters of a rule.

Theorems planned: the type correctness of the modules that have none proved, and the composition of the host index (`RouteTable`) with the
lookup within a host (`PlanLookup`), which so far meet only in the code.

## 7. Not modelled

- Byte relaying, TLS handshakes, parsing (Caddyfile, TOML, ClientHello), encodings, Kubernetes API access, metrics and
  logging are input or output.
- The classifiers, their features, training and data sets are floating-point or offline code; what they decide is a free choice of
  `RequestPipeline`'s verdicts.
- The contents of a plan's actions: header mutations, redirects and URL rewrites, mirrors, weighted backends.
- GatewayClass, addresses and the wording of conditions; the watch streams behind triggers.
- `gateway/watchdog.rs` is not used by the program; `rollback` and the allowlist's `evict_stale` have no caller.
- `tls_certs` and `acme_routes` of a table take no part in any property here and are left out of the merge.
- The receiving side of gossip is a stub in the code.
