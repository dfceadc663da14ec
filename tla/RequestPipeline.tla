-------------------------- MODULE RequestPipeline --------------------------
(***************************************************************************)
(* The life of a request: the L4 relay that carries the client's bytes to  *)
(* the internal plaintext address and tells the proxy, in two maps keyed   *)
(* by the relay's source address, which listener and client they came      *)
(* from; and the phases Pingora runs on SunbeamProxy for each request,     *)
(* while the route table is swapped and relays of other clients come and   *)
(* go.  Pingora itself is external: it calls the phases in order, drops a  *)
(* second response header, and retries once on a reused connection.        *)
(***************************************************************************)
EXTENDS Integers, Sequences, FiniteSets

CONSTANTS
    Slots,          \* relay tasks alive at a time
    Addrs,          \* loopback source addresses the kernel hands out
    Arrivals,       \* kinds of connection: [via, port, sni]
    Asks,           \* requests [host, challenge, preflight, get, credentials, forwarded,
                    \* expect]: the user whose cookie or token it carries (None: neither),
                    \* the client its proxy headers name (0: none), Expect: 100-continue
    Published,      \* route tables in the order they are published:
                    \* [plans : host -> plan, gateway : hosts of Gateway API nodes]
    ListenerOf,     \* host -> hostname of the HTTPS listener that accepts it
    Guess,          \* [scheme, port] of https_terminate_port, else of http_relay_port
    TrustedProxies, \* clients in trusted_proxy_cidrs; 0 is the loopback address
    Trusted,        \* BOOLEAN: clients are in pipeline_bypass_cidrs
    ObserveOnly,    \* detection layers that log and never block
    MaxClients,     \* connections accepted in all
    MaxRequests,    \* requests sent in all
    RewriteLimit,   \* MAX_BODY_REWRITE_BYTES, in chunks
    MaxChunks       \* chunks of a response body

VARIABLES
    published,      \* index of the table in `routes`
    solver,         \* acme_routes has the challenge's path
    relay,          \* relay task of each slot
    http_context, sni_context,
    req,            \* request in flight of each slot, with its RequestCtx
    cache,          \* CACHE_BACKEND
    active,         \* ACTIVE_CONNECTIONS
    clients, sent   \* connections and requests so far

rvars == <<published, solver, relay, http_context, sni_context, req, cache, active, clients, sent>>

None == "none"
Remote == "remote"      \* the address of a client that is connected directly
\* RequestCtx.plan before a lookup, and after one that found nothing.  compile_plan
\* gives a plan one request stage at most, and never CorsPreflight.
NoPlan == [gateway_api |-> FALSE, no_redirect |-> FALSE, stage |-> None, upstream |-> "no plan",
           cached |-> FALSE, rewrites |-> FALSE, cors |-> FALSE]

FreeRelay == [state |-> "free", addr |-> Remote, client |-> 0, via |-> None, port |-> 0, sni |-> None]
Off == <<0>>             \* no body buffer; chunks are numbered from 1

ASSUME PipelineAssumption ==
    /\ IsFiniteSet(Slots) /\ Remote \notin Addrs
    /\ RewriteLimit \in Nat
    /\ \A q \in Asks : q.forwarded \in Nat

\* `from` is the connection the request really came by, `seen` the table that was
\* published when it was filtered, `got` the user that a cached response was made for.
Idle == [phase |-> "none", ask |-> None, addr |-> Remote, from |-> FreeRelay, seen |-> 0,
         scheme |-> None, port |-> 0, client |-> 0, plan |-> NoPlan, acme |-> FALSE,
         authed |-> FALSE, auth_headers |-> FALSE, personal |-> FALSE, caching |-> FALSE,
         got |-> None, answer |-> 0, peer |-> None, tries |-> 0,
         buffer |-> Off, chunks |-> 0, out |-> <<>>, cut |-> FALSE, failed |-> FALSE]

RInit ==
    /\ published = 1 /\ solver = FALSE
    /\ relay = [c \in Slots |-> FreeRelay]
    /\ http_context = [a \in Addrs |-> <<>>]
    /\ sni_context = [a \in Addrs |-> None]
    /\ req = [c \in Slots |-> Idle]
    /\ cache = {}
    /\ active = 0 /\ clients = 0 /\ sent = 0

-----------------------------------------------------------------------------
\* RouteManager::apply stores the next table; requests that hold a plan keep it.
SwapRoutes ==
    /\ published < Len(Published)
    /\ published' = published + 1
    /\ UNCHANGED <<solver, relay, http_context, sni_context, req, cache, active, clients, sent>>

\* watch_ingresses: cert-manager's Ingress for the challenge appears or goes.
WatchIngresses ==
    /\ solver' = ~solver
    /\ UNCHANGED <<published, relay, http_context, sni_context, req, cache, active, clients, sent>>

\* A connection is accepted.  http_relay and terminate_and_http connect to the
\* internal address from a loopback address no open socket has; a connection to
\* a listener of Pingora itself has no relay.
Accept(c, a, k) ==
    /\ relay[c].state = "free" /\ req[c].phase = "none" /\ clients < MaxClients
    /\ a # Remote => \A d \in Slots : relay[d].state # "free" => relay[d].addr # a
    /\ (a = Remote) = (k.via \in {"direct", "tls"})
    /\ clients' = clients + 1
    /\ relay' = [relay EXCEPT ![c] =
          [state |-> IF a = Remote THEN "copying" ELSE "connected", addr |-> a,
           client |-> clients + 1, via |-> k.via, port |-> k.port, sni |-> k.sni]]
    /\ UNCHANGED <<published, solver, http_context, sni_context, req, cache, active, sent>>

\* The relay registers its address in the maps, then starts to copy.
Register(c) ==
    LET r == relay[c]
    IN  /\ r.state = "connected"
        /\ relay' = [relay EXCEPT ![c].state = "copying"]
        /\ http_context' = [http_context EXCEPT ![r.addr] =
              <<[port |-> r.port, secure |-> r.via = "terminate", client |-> r.client]>>]
        /\ sni_context' = IF r.via = "terminate" /\ r.sni # None
                          THEN [sni_context EXCEPT ![r.addr] = r.sni] ELSE sni_context
        /\ UNCHANGED <<published, solver, req, cache, active, clients, sent>>

\* copy_bidirectional returns: both sides are done, or the client reset the
\* connection while the proxy is still working on its request.
CopyEnds(c) ==
    /\ relay[c].state = "copying"
    /\ relay' = [relay EXCEPT ![c].state = "ended"]
    /\ UNCHANGED <<published, solver, http_context, sni_context, req, cache, active, clients, sent>>

\* The SNI entry is left behind.
UnregisterKeepsSni(c) ==
    LET r == relay[c]
    IN  /\ r.state = "ended"
        /\ relay' = [relay EXCEPT ![c] = IF r.addr = Remote THEN FreeRelay ELSE [r EXCEPT !.state = "removed"]]
        /\ http_context' = IF r.addr = Remote THEN http_context ELSE [http_context EXCEPT ![r.addr] = <<>>]
        /\ UNCHANGED <<sni_context, published, solver, req, cache, active, clients, sent>>

\* The relay removes its entries while it still owns the socket, and with it the
\* address; http_relay never had an SNI entry.
Unregister(c) ==
    LET r == relay[c]
    IN  /\ r.state = "ended"
        /\ relay' = [relay EXCEPT ![c] = IF r.addr = Remote THEN FreeRelay ELSE [r EXCEPT !.state = "removed"]]
        /\ http_context' = IF r.addr = Remote THEN http_context ELSE [http_context EXCEPT ![r.addr] = <<>>]
        /\ sni_context' = IF r.via = "terminate" THEN [sni_context EXCEPT ![r.addr] = None] ELSE sni_context
        /\ UNCHANGED <<published, solver, req, cache, active, clients, sent>>

DropSocket(c) ==
    /\ relay[c].state = "removed"
    /\ relay' = [relay EXCEPT ![c] = FreeRelay]
    /\ UNCHANGED <<published, solver, http_context, sni_context, req, cache, active, clients, sent>>

-----------------------------------------------------------------------------
\* The client sends a request on its open connection.
Arrive(c, q) ==
    LET r == relay[c]
    IN  /\ r.state = "copying" /\ req[c].phase = "none" /\ sent < MaxRequests
        /\ sent' = sent + 1
        /\ req' = [req EXCEPT ![c] = [Idle EXCEPT !.phase = "filter", !.ask = q,
                      !.addr = r.addr, !.from = r]]
        /\ UNCHANGED <<published, solver, relay, http_context, sni_context, cache, active, clients>>

\* http_relay_context: the entry under the peer's address, if any.
RelayContext(addr) == IF addr = Remote THEN <<>> ELSE http_context[addr]

\* extract_client_ip: the relay's client, else the socket's peer; a trusted
\* proxy's headers are believed.
SocketClient(r) == IF RelayContext(r.addr) # <<>> THEN RelayContext(r.addr)[1].client
                   ELSE IF r.addr = Remote THEN r.from.client ELSE 0
Believed(socket, q) == IF socket \in TrustedProxies /\ q.forwarded # 0 THEN q.forwarded ELSE socket
ClientOf(r) == Believed(SocketClient(r), r.ask)

Plan(host) == Published[published].plans[host]

\* Pingora drops a response header when one was written already.
Write(r, status) == [r EXCEPT !.answer = IF @ = 0 THEN status ELSE @]
Answer(r, status) == [Write(r, status) EXCEPT !.phase = "logging"]

\* Where the request came in: the relay's entry; without one, the listener whose
\* L4 route leads to this address of Pingora; else Pingora's own socket.
Located(r) ==
    LET info == RelayContext(r.addr)
        place == IF info # <<>>
                 THEN [scheme |-> IF info[1].secure THEN "https" ELSE "http", port |-> info[1].port]
                 ELSE IF r.addr # Remote THEN Guess
                 ELSE [scheme |-> IF r.from.via = "tls" THEN "https" ELSE "http", port |-> r.from.port]
    IN  [r EXCEPT !.seen = published, !.scheme = place.scheme, !.port = place.port, !.client = ClientOf(r)]

\* The 421 check; sni_for_session takes the entry out of the map.
SniFor(r) == IF r.addr = Remote \/ r.scheme # "https" THEN None ELSE sni_context[r.addr]
Misdirected(sni, host) ==
    /\ sni # None
    /\ ListenerOf[sni] # None
    /\ ListenerOf[sni] # ListenerOf[host]

\* The branch for a session without a TLS digest.  A plan that may be served
\* runs its terminal stage and no other.
PlainHttp(r) ==
    LET plan == Plan(r.ask.host)
        held == [r EXCEPT !.plan = plan]
    IN  IF r.ask.challenge
        THEN IF solver THEN [r EXCEPT !.acme = TRUE, !.phase = "cache"] ELSE Answer(r, 404)
        ELSE IF plan # NoPlan /\ (plan.gateway_api \/ plan.no_redirect)
        THEN IF r.ask.preflight /\ plan.cors THEN Answer(held, 204)
             ELSE IF plan.stage = "terminal" THEN Answer(held, 200)
             ELSE [held EXCEPT !.phase = "cache"]
        ELSE IF plan = NoPlan THEN [r EXCEPT !.phase = "unmatched"]
        ELSE Answer(r, 301)

\* The detection layers, in order, and the status with which each blocks.
DdosLayer == [name |-> "ddos", status |-> 429]
ScannerLayer == [name |-> "scanner", status |-> 403]
RateLimitLayer == [name |-> "rate_limit", status |-> 429]
BandwidthLayer == [name |-> "bandwidth", status |-> 429]
Layers == <<DdosLayer, ScannerLayer, RateLimitLayer, BandwidthLayer>>
\* What the detection pipeline may answer: 0 lets the request through.
Verdicts == {0} \cup (IF Trusted THEN {} ELSE
                {Layers[i].status : i \in {j \in DOMAIN Layers : Layers[j].name \notin ObserveOnly}})

\* The branch for a session with a TLS digest: detection, then the lookup.
Secured(r, verdict) ==
    LET plan == Plan(r.ask.host)
    IN  IF verdict # 0 THEN Answer(r, verdict)
        ELSE IF plan = NoPlan THEN [r EXCEPT !.phase = "unmatched"]
        ELSE [r EXCEPT !.plan = plan, !.phase = "stages"]

\* request_filter_inner up to its first await on another service.
Filtered(r, verdict) ==
    LET here == Located(r)
    IN  IF Misdirected(SniFor(here), r.ask.host) THEN Answer(here, 421)
        ELSE IF r.from.via # "tls" THEN PlainHttp(here) ELSE Secured(here, verdict)

RequestFilter(c) ==
    \E verdict \in Verdicts :
        /\ req[c].phase = "filter"
        /\ active' = active + 1
        /\ req' = [req EXCEPT ![c] = Filtered(req[c], verdict)]
        /\ sni_context' = [a \in Addrs |->
              IF a = req[c].addr /\ Located(req[c]).scheme = "https" THEN None ELSE sni_context[a]]
        /\ UNCHANGED <<published, solver, relay, http_context, cache, clients, sent>>

\* A step of request c that changes nothing else.
Only(c, r) ==
    /\ req' = [req EXCEPT ![c] = r]
    /\ UNCHANGED <<published, solver, relay, http_context, sni_context, cache, active, clients, sent>>

\* No plan matched: the answer depends on the table that is published by now.
Unmatched(c) ==
    LET r == req[c]
        gateway == Published[published].gateway
    IN  /\ r.phase = "unmatched"
        /\ Only(c, IF r.from.via # "tls" THEN Answer(r, IF gateway # {} THEN 404 ELSE 301)
                   ELSE IF r.ask.host \in gateway THEN [r EXCEPT !.phase = "cache"]
                   ELSE Answer(r, 404))

-----------------------------------------------------------------------------
\* fail_to_proxy for an upstream, a downstream and a timed out upstream.
FailToProxy(r, status) == IF status = 0 THEN [r EXCEPT !.phase = "logging"] ELSE Answer(r, status)

\* request_filter_inner returns to Pingora after the stages; Expect: 100-continue
\* is answered first, to a client that may be gone.
Proceed(c, r) ==
    \/ Only(c, [r EXCEPT !.phase = "cache"])
    \/ r.ask.expect /\ Only(c, FailToProxy(r, 0))

\* The stages of the plan.  The auth service accepts, and may name headers to
\* forward, or denies, or cannot be reached; there is no timeout.
ExecuteAuthStage(c) ==
    LET r == req[c]
    IN  /\ r.phase = "stages" /\ r.plan.stage = "auth"
        /\ \/ \E captured \in BOOLEAN :
                 Proceed(c, [r EXCEPT !.authed = TRUE, !.auth_headers = captured,
                                      !.personal = captured])
           \/ \E status \in {403, 502} : Only(c, Answer(r, status))

\* try_serve finds the file, or the request goes on without an upstream.
ExecuteStaticFilesStage(c) ==
    LET r == req[c]
    IN  /\ r.phase = "stages" /\ r.plan.stage = "static"
        /\ Only(c, Answer(r, 200)) \/ Proceed(c, r)

ExecuteTerminalStage(c) ==
    /\ req[c].phase = "stages" /\ req[c].plan.stage = "terminal"
    /\ Only(c, Answer(req[c], 200))

NoStage(c) ==
    /\ req[c].phase = "stages" /\ req[c].plan.stage = None
    /\ Proceed(c, req[c])

-----------------------------------------------------------------------------
\* cache_key_callback: the host (with path and query) and whether the request
\* carries credentials, never whose.
CacheKey(r) == <<r.ask.host, r.ask.credentials # None>>

\* The captured headers are forgotten.
CachingAllowedAny(r) == r.ask.get /\ r.plan.cached /\ ~r.plan.rewrites
CachingAllowed(r) == r.ask.get /\ r.plan.cached /\ ~r.plan.rewrites /\ ~r.auth_headers

\* request_cache_filter and the lookup: a hit is the response.
RequestCacheFilter(c) ==
    LET r == req[c]
        hit == {e \in cache : e.key = CacheKey(r)}
    IN  /\ r.phase = "cache"
        /\ Only(c, IF ~CachingAllowed(r) THEN [r EXCEPT !.phase = "peer"]
                   ELSE IF hit # {} THEN [Answer(r, 200) EXCEPT !.peer = "cache", !.got = (CHOOSE e \in hit : TRUE).credentials]
                   ELSE [r EXCEPT !.caching = TRUE, !.phase = "peer"])

\* The table is searched again.
UpstreamPeerLookup(c) ==
    LET r == req[c]
        plan == Plan(r.ask.host)
        refused(status) == [Write(r, status) EXCEPT !.peer = "placeholder", !.phase = "connect"]
    IN  /\ r.phase = "peer"
        /\ Only(c, IF r.acme THEN [r EXCEPT !.peer = "solver", !.phase = "connect"]
                   ELSE IF plan = NoPlan THEN refused(404)
                   ELSE [r EXCEPT !.plan = plan, !.peer = "backend", !.phase = "connect"])

\* upstream_peer_inner: the backend, or a response and a peer nobody answers at.
UpstreamPeer(c) ==
    LET r == req[c]
        refused(status) == [Write(r, status) EXCEPT !.peer = "placeholder", !.phase = "connect"]
    IN  /\ r.phase = "peer"
        /\ \/ /\ r.acme
              /\ \/ Only(c, [r EXCEPT !.peer = "solver", !.phase = "connect"])
                 \/ Only(c, refused(502))
           \/ /\ ~r.acme /\ r.plan.upstream = "backends"
              /\ \/ Only(c, [r EXCEPT !.peer = "backend", !.phase = "connect"])
                 \/ Only(c, refused(502))
           \/ /\ ~r.acme /\ r.plan.upstream = "empty"
              /\ Only(c, refused(502))
           \/ /\ ~r.acme /\ r.plan.upstream \in {None, "no plan"}
              /\ Only(c, refused(IF r.plan = NoPlan THEN 404 ELSE IF r.plan.gateway_api THEN 500 ELSE 404))

\* Nothing ends an attempt to connect.
ConnectUpstreamWaits(c) ==
    LET r == req[c]
    IN  /\ r.phase = "connect" /\ r.peer # "placeholder"
        /\ Only(c, [r EXCEPT !.auth_headers = FALSE, !.phase = "sent", !.tries = @ + 1])

\* Pingora connects; upstream_request_filter adds the captured headers and
\* empties the list.  Nobody listens at the placeholder.
ConnectUpstream(c) ==
    LET r == req[c]
    IN  /\ r.phase = "connect"
        /\ \/ /\ r.peer # "placeholder"
              /\ Only(c, [r EXCEPT !.auth_headers = FALSE, !.phase = "sent", !.tries = @ + 1])
           \/ Only(c, FailToProxy(r, 502))

\* The exchange fails: a reused connection is tried again from upstream_peer on
\* (once here), a timeout is 504, the client may be gone.
ExchangeFails(c) ==
    LET r == req[c]
    IN  /\ r.phase = "sent"
        /\ \/ r.tries = 1 /\ Only(c, [r EXCEPT !.phase = "peer"])
           \/ \E status \in {0, 502, 504} : Only(c, FailToProxy(r, status))

\* The response header: upstream_response_filter starts the rewrite buffer,
\* response_cache_filter admits a response the origin lets it keep.
UpstreamResponse(c) ==
    LET r == req[c]
    IN  /\ r.phase = "sent"
        /\ \E keep \in BOOLEAN, rewritable \in BOOLEAN :
              /\ cache' = IF keep /\ r.caching
                          THEN cache \cup {[key |-> CacheKey(r), personal |-> r.personal,
                                            credentials |-> r.ask.credentials]}
                          ELSE cache
              /\ req' = [req EXCEPT ![c] = [Write(r, 200) EXCEPT !.phase = "body",
                            !.buffer = IF r.plan.rewrites /\ rewritable THEN <<>> ELSE @]]
        /\ UNCHANGED <<published, solver, relay, http_context, sni_context, active, clients, sent>>

\* response_body_filter_inner on a chunk, or on none at the end of the stream.
BodyFilterNoFlush(r, data, end) ==
    IF r.buffer = Off THEN [r EXCEPT !.out = @ \o data]
    ELSE IF Len(r.buffer) + Len(data) > RewriteLimit
         THEN [r EXCEPT !.buffer = Off, !.out = @ \o data, !.cut = TRUE]
         ELSE IF end /\ data # <<>> THEN [r EXCEPT !.out = @ \o r.buffer \o data, !.buffer = Off]
              ELSE [r EXCEPT !.buffer = @ \o data]
BodyFilter(r, data, end) ==
    IF r.buffer = Off THEN [r EXCEPT !.out = @ \o data]
    ELSE IF Len(r.buffer) + Len(data) > RewriteLimit
         THEN [r EXCEPT !.buffer = Off, !.out = @ \o data, !.cut = TRUE]
         ELSE IF end THEN [r EXCEPT !.out = @ \o r.buffer \o data, !.buffer = Off]
              ELSE [r EXCEPT !.buffer = @ \o data]

ResponseBody(c) ==
    LET r == req[c]
    IN  /\ r.phase = "body"
        /\ \E more \in BOOLEAN, end \in BOOLEAN :
              /\ more \/ end
              /\ more => r.chunks < MaxChunks
              /\ LET data == IF more THEN <<r.chunks + 1>> ELSE <<>>
                     done == BodyFilter([r EXCEPT !.chunks = @ + Len(data)], data, end)
                 IN  Only(c, IF end THEN [done EXCEPT !.phase = "logging"] ELSE done)

BodyFails(c) ==
    /\ req[c].phase = "body"
    /\ Only(c, [req[c] EXCEPT !.phase = "logging", !.failed = TRUE])

Logging(c) ==
    /\ req[c].phase = "logging"
    /\ active' = active - 1
    /\ req' = [req EXCEPT ![c] = Idle]
    /\ UNCHANGED <<published, solver, relay, http_context, sni_context, cache, clients, sent>>

Phases(c) ==
    \/ RequestFilter(c) \/ Unmatched(c)
    \/ ExecuteStaticFilesStage(c) \/ ExecuteTerminalStage(c) \/ NoStage(c)
    \/ RequestCacheFilter(c) \/ UpstreamPeer(c) \/ ConnectUpstream(c)
    \/ ExchangeFails(c) \/ UpstreamResponse(c) \/ ResponseBody(c) \/ BodyFails(c)
    \/ Logging(c)

RNext ==
    \/ SwapRoutes \/ WatchIngresses
    \/ \E c \in Slots :
          \/ \E a \in Addrs \cup {Remote}, k \in Arrivals : Accept(c, a, k)
          \/ Register(c) \/ CopyEnds(c) \/ Unregister(c) \/ DropSocket(c)
          \/ \E q \in Asks : Arrive(c, q)
          \/ Phases(c) \/ ExecuteAuthStage(c)

\* Pingora bounds the time to connect, to read and to write; reqwest's client for
\* the auth subrequest has no timeout.
RFairness == \A c \in Slots : WF_rvars(Phases(c)) /\ WF_rvars(Register(c))

RSpec == RInit /\ [][RNext]_rvars /\ RFairness

-----------------------------------------------------------------------------
Started(c) == req[c].phase \notin {"none", "filter"}

\* HttpRelayContext "propagated from the L4 HTTP relay" and sni_context: while its
\* connection is open, a request has the scheme, port and client address of that
\* connection, another client's address only when that connection is a trusted
\* proxy's and its headers say so, and a 421 is about the SNI of that connection,
\* however relays that have had the same source address went before.
ScopedToListener ==
    \A c \in Slots :
        LET r == req[c]
        IN  Started(c) /\ relay[c].state = "copying" =>
              /\ (r.scheme = "https") = (r.from.via \in {"terminate", "tls"})
              /\ r.port = r.from.port
              /\ r.client = Believed(r.from.client, r.ask)
              /\ r.answer = 421 => Misdirected(r.from.sni, r.ask.host)

\* "ctx.plan is set exactly once in request_filter and then read, never recomputed":
\* the backend, or the kept response, belongs to the plan that the table held when
\* the request was filtered, whatever is published meanwhile and however often
\* Pingora retries; and if the session has a TLS digest, the auth stage of that very
\* plan has passed.  The binary's listeners give no TLS digest: on the branch their
\* sessions take, the stage does not run (AuthAlwaysRuns).
PlanHolds ==
    \A c \in Slots : req[c].peer \in {"backend", "cache"} =>
        LET r == req[c]
        IN  /\ r.plan = Published[r.seen].plans[r.ask.host]
            /\ r.from.via = "tls" /\ r.plan.stage = "auth" => r.authed

\* config.rs on auth_request: "If set, the proxy makes an HTTP request to this URL
\* before forwarding."  Refuted: a session that comes by the relay reaches the backend
\* of a plan with an auth stage without it.
AuthAlwaysRuns ==
    \A c \in Slots : req[c].peer = "backend" /\ req[c].plan.stage = "auth" => req[c].authed

\* ACTIVE_CONNECTIONS counts the requests being served: incremented in
\* request_filter and decremented in logging, on every path between them.
GaugeBalanced == active = Cardinality({c \in Slots : Started(c)})

\* "Skip cache if auth subrequest captured headers (per-user content)": no response
\* that was made for one user's headers is kept, though they have left the context
\* when the response arrives; and requests with and without credentials have
\* separate entries, so that a response to a user is never given to a client that
\* shows no credentials.  Users are not told apart (CacheKeepsUsers).
CacheImpersonal ==
    /\ \A e \in cache : ~e.personal
    /\ \A c \in Slots : req[c].peer = "cache" =>
          (req[c].got = None) = (req[c].ask.credentials = None)

\* cache_hooks.rs: "This prevents responses for one user's session from being served
\* to another client."  Refuted: the key only says that there are credentials.
CacheKeepsUsers ==
    \A c \in Slots : req[c].peer = "cache" => req[c].got = req[c].ask.credentials

\* response_body_filter loses nothing of a body within the limit, wherever the end
\* of the stream falls.  Of a longer one it drops the chunks that are buffered when
\* the limit is passed, no more than the limit's worth, and delivers every chunk
\* from the one that overflowed on, once and in order.
BodyWhole ==
    \A c \in Slots : req[c].phase = "logging" /\ ~req[c].failed =>
        LET r == req[c]
            lost == r.chunks - Len(r.out)
        IN  /\ r.out = [i \in 1..Len(r.out) |-> lost + i]
            /\ ~r.cut => lost = 0
            /\ lost <= RewriteLimit

\* filters.rs: "Responses larger than this are streamed through without rewriting."
\* Refuted: the chunks buffered before the limit is passed are not sent.
LongBodiesStreamed ==
    \A c \in Slots : req[c].phase = "logging" /\ ~req[c].failed => Len(req[c].out) = req[c].chunks

\* Every request ends in logging, unless its auth service never answers, and is counted as
\* active exactly until then.
RequestEnds ==
    /\ []GaugeBalanced
    /\ \A c \in Slots : req[c].phase = "filter" ~>
          (req[c].phase = "none" \/ (req[c].phase = "stages" /\ req[c].plan.stage = "auth"))

\* docs/architecture.md: request_filter determines "the real downstream scheme and
\* port from the L4 context"; its redirect is "HTTP -> HTTPS".  A request that
\* came by HTTPS is not redirected to HTTPS.
HttpsNotRedirected ==
    \A c \in Slots : req[c].answer = 301 => req[c].scheme = "http"

=============================================================================
