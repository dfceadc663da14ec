---------------------------- MODULE MCProtection ----------------------------
(***************************************************************************)
(* What stands between a client and a backend and keeps state of its own:  *)
(* the rate limiter, the bot allowlist and the trust in backends.  `focus` *)
(* is what a behaviour is about; the rest stays in its initial state.  Of  *)
(* the limiter, it is the tier that clients call in, as keys share nothing *)
(* but the sweep.  Of backends, "policies" is about ticks while the API    *)
(* server comes and goes, and "connections" about requests while trust     *)
(* changes.                                                                *)
(***************************************************************************)
EXTENDS RateLimiter, BotAllowlist, BackendTls

VARIABLE focus

Ip(family, bits) == [family |-> family, bits |-> bits]

\* Two clients with one identity, by cookie and by token, one without, and a bypassed one.
\* A burst of the tier of the third takes longer than StaleAfter to refill.
MCClients ==
    {[cookie |-> "s", bearer |-> "t", ip |-> Ip("v4", <<1, 0>>)],
     [cookie |-> "none", bearer |-> "s", ip |-> Ip("v4", <<1, 1>>)],
     [cookie |-> "none", bearer |-> "none", ip |-> Ip("v4", <<1, 1>>)],
     [cookie |-> "none", bearer |-> "", ip |-> Ip("mapped", <<0, 1>>)]}
MCBypassCidrs == {Ip("v4", <<0>>)}
MCBurst == [t \in Tiers |-> 2]
MCRate == [t \in Tiers |-> IF t = "authenticated" THEN 2 ELSE 1]

\* Two bots verified by DNS, one by its network, a network elsewhere, one not at all.
MCRules ==
    <<[agents |-> {"g"}, cidrs |-> {}, suffixes |-> {<<"g">>}],
      [agents |-> {"b"}, cidrs |-> {"other"}, suffixes |-> {<<"b">>}],
      [agents |-> {"c", "b"}, cidrs |-> {"ip"}, suffixes |-> {}],
      [agents |-> {"d"}, cidrs |-> {"other"}, suffixes |-> {}],
      [agents |-> {"e"}, cidrs |-> {}, suffixes |-> {}]>>
MCHosts == {<<"x", ".", "g">>, <<"b">>}

Target(kind, name, section) == <<[kind |-> kind, name |-> name, section |-> section]>>
CaRef(kind, name) == [kind |-> kind, name |-> name]
\* Two policies for the same Service that differ in their SANs, one for its named port,
\* and one with a target that is no Service.
MCPolicySpec ==
    [p1 |-> [created |-> 1, rank |-> 1, targets |-> Target("Service", "web", Unset),
             refs |-> <<CaRef("ConfigMap", "ca")>>, hostname |-> "web", sans |-> {}],
     p2 |-> [created |-> 2, rank |-> 2, targets |-> Target("Service", "web", Unset),
             refs |-> <<CaRef("ConfigMap", "ca")>>, hostname |-> "web", sans |-> {"id"}],
     p3 |-> [created |-> 1, rank |-> 3, targets |-> Target("Service", "web", "rpc"),
             refs |-> <<>>, hostname |-> "web", sans |-> {}],
     p4 |-> [created |-> 1, rank |-> 4, targets |-> Target("Secret", "web", "rpc"),
             refs |-> <<CaRef("Secret", "ca"), CaRef("ConfigMap", "ca")>>, hostname |-> "web", sans |-> {}]]
MCServiceSpec ==
    [web |-> [headless |-> FALSE, selected |-> TRUE,
              ports |-> <<[port |-> 80, name |-> Unset, target |-> 0, app |-> "Http"],
                          [port |-> 90, name |-> "rpc", target |-> 0, app |-> "Https"]>>],
     pods |-> [headless |-> TRUE, selected |-> TRUE,
               ports |-> <<[port |-> 80, name |-> Unset, target |-> 8080, app |-> "Http"]>>]]
MCEndpointSpec ==
    [e1 |-> [service |-> "pods", ports |-> <<[name |-> "x", port |-> 1], [name |-> "y", port |-> 2]>>]]
Ref(service, port) == [service |-> service, port |-> port]
MCRouteBackends == [HTTPRoute |-> {Ref("web", 80), Ref("pods", 80)}, GRPCRoute |-> {Ref("web", 90), Ref("gone", 80)}]
MCRouteParents == [HTTPRoute |-> {"gw"}, GRPCRoute |-> {}]
Presented(issuer, sans) == [issuer |-> issuer, names |-> sans]
MCCertificates == {Presented("ca1", {"web", "id"}), Presented("public", {"web"})}
MCCluster ==
    [policies |-> {"p2"}, maps |-> [ca |-> "ca1"], ready |-> {"e1"}, secret |-> 0,
     cert |-> [web |-> Presented("ca1", {"web", "id"})]]

protvars == <<rlvars, bavars, btvars, focus>>

ProtectionInit ==
    /\ focus \in Tiers \cup {"allowlist", "policies", "connections"}
    /\ RLInit /\ BAInit /\ BTInit
    /\ focus # "allowlist" => names = [ip \in Addresses |-> NoName] /\ addrs = [h \in Hosts |-> {}]

LimiterNext ==
    /\ focus \in Tiers
    /\ RLNext
    /\ \A t \in Callers : thread'[t] # Idle => TierOf(thread'[t].key) = focus

UpstreamTick == focus \in {"policies", "connections"} /\ TickStep

UpstreamNext ==
    \/ UpstreamTick
    \/ focus \in {"policies", "connections"} /\ EditTrust
    \/ focus = "policies" /\ (ScalePods \/ Outage)
    \/ focus = "connections" /\ (EditCredentials \/ RequestTo("web") \/ Upstream)

ProtectionNext ==
    \/ LimiterNext /\ UNCHANGED <<bavars, btvars, focus>>
    \/ focus = "allowlist" /\ BANext /\ UNCHANGED <<rlvars, btvars, focus>>
    \/ UpstreamNext /\ UNCHANGED <<rlvars, bavars, focus>>

\* The reconcile loop ticks for ever.
ProtectionSpec ==
    ProtectionInit /\ [][ProtectionNext]_protvars /\ WF_btvars(UpstreamTick)

\* BackendsFollow where the reconcile loop runs: whatever changes and whatever lists fail, every
\* backend comes to have the trust of the oldest sound policy for it and the addresses of its
\* ready endpoints once the API server can be reached for good.
TrustFollows == focus = "policies" => BackendsFollow

=============================================================================
