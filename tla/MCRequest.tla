------------------------------ MODULE MCRequest ------------------------------
(***************************************************************************)
(* RequestPath with a few routes of one host, two connections and four     *)
(* published tables.  The pipeline is checked twice: requests one after    *)
(* the other while tables are published and ingresses come and go, and a   *)
(* request on one of two connections.                                      *)
(***************************************************************************)
EXTENDS MCPlanLookup, RequestPath

\* Two connections with different SNI, one without, and one past the relay.
MCArrivals ==
    {[via |-> "terminate", port |-> 443, sni |-> "a"],
     [via |-> "terminate", port |-> 443, sni |-> None],
     [via |-> "relay", port |-> 80, sni |-> None],
     [via |-> "tls", port |-> 443, sni |-> None]}
MCListenerOf == [h \in {"a", "b"} |-> IF h = "a" THEN "*.a" ELSE None]

MCGuess == [scheme |-> "https", port |-> 443]

\* Two users and a client without credentials ask for the same page; a trusted
\* proxy's connection, or an untrusted one, names a client.
Ask(host, kind, credentials, forwarded) ==
    [host |-> host, challenge |-> kind = "challenge", preflight |-> kind = "preflight", get |-> kind # "preflight",
     credentials |-> credentials, forwarded |-> forwarded, expect |-> kind = "expect"]
MCAsks ==
    {Ask("a", "expect", None, 9), Ask("b", "page", "u1", 0), Ask("b", "expect", "u2", 0),
     Ask("b", "page", None, 0), Ask("b", "preflight", None, 0), Ask("b", "challenge", None, 0)}

MCPlan(gateway, stage, upstream, cached, rewrites) ==
    [gateway_api |-> gateway, no_redirect |-> FALSE, stage |-> stage, upstream |-> upstream,
     cached |-> cached, rewrites |-> rewrites, cors |-> gateway]

\* Legacy routes, then Gateway API routes with an authenticated one, then fewer.
MCPublished ==
    <<[plans |-> [h \in {"a", "b"} |-> IF h = "a" THEN MCPlan(FALSE, "static", None, FALSE, FALSE) ELSE NoPlan],
       gateway |-> {}],
      [plans |-> [h \in {"a", "b"} |-> IF h = "a" THEN MCPlan(TRUE, None, "backends", FALSE, TRUE)
                                       ELSE MCPlan(TRUE, "auth", "backends", TRUE, FALSE)],
       gateway |-> {"a", "b"}],
      [plans |-> [h \in {"a", "b"} |-> IF h = "a" THEN MCPlan(TRUE, "terminal", None, FALSE, FALSE)
                                       ELSE MCPlan(TRUE, None, "empty", TRUE, FALSE)],
       gateway |-> {"a"}],
      [plans |-> [h \in {"a", "b"} |-> NoPlan], gateway |-> {"a"}]>>

\* Bounds: the other connection stays as it is, or there is one request on each.
Bounded ==
    /\ focus = "alone" => \A c \in Slots \ {1} : relay'[c] = relay[c]
    /\ focus = "together" => sent' <= 1 /\ published' <= 2 /\ solver' = solver

BoundedSpec == RequestInit /\ [][RequestNext /\ Bounded]_requestvars /\ RequestFairness

=============================================================================
