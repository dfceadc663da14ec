-------------------------- MODULE MCConfigPipeline --------------------------
(***************************************************************************)
(* Instance of ConfigPipeline: tables with and without a listener, in      *)
(* behaviours of PSpec and, when `paced`, of PacedSpec.                    *)
(***************************************************************************)
EXTENDS ConfigPipeline

VARIABLE paced

MCSourceIds == {"gateway-api", "caddyfile", "toml"}
MCPriority == [s \in MCSourceIds |->
                 CASE s = "gateway-api" -> 100 [] s = "caddyfile" -> 50 [] s = "toml" -> 0]
MCIdRank == [s \in MCSourceIds |->
                 CASE s = "caddyfile" -> 1 [] s = "gateway-api" -> 2 [] s = "toml" -> 3]

MCListener(id, addr, protocol, tls) ==
    [id |-> id, bind_addr |-> addr, protocol |-> protocol, tls |-> tls, validation |-> "none"]
MCTable(listeners) == [listeners |-> listeners, hosts |-> <<>>, l4_routes |-> <<>>]

MCWeb == MCTable(<<MCListener("web", 80, "Http", FALSE)>>)

MCTables == {MCTable(<<>>), MCWeb}

MCPipelineInit == PInit /\ paced \in BOOLEAN
MCPipelineNext ==
    \/ paced /\ PacedNext /\ UNCHANGED paced
    \/ ~paced /\ PNext /\ UNCHANGED paced

\* ThreadFairness and the fairness of PacedReceives, of the paced behaviours.
PacedFairness ==
    /\ WF_vars(paced /\ Publishes)
    /\ WF_vars(paced /\ WireL4)
    /\ WF_vars(paced /\ (UpdaterStart \/ UpdaterWake \/ UpdaterLoad))
    /\ WF_vars(paced /\ L4!ManagerStep /\ UNCHANGED <<rmPrivate, updaterVars>>)
    /\ \A k \in Slots : WF_vars(paced /\ L4!TaskStep(k) /\ UNCHANGED <<rmPrivate, updaterVars>>)
    /\ WF_vars(paced /\ PacedReceives)

MCPipelineSpec == MCPipelineInit /\ [][MCPipelineNext]_<<vars, paced>> /\ PacedFairness

-----------------------------------------------------------------------------
\* L4Converges, when updates are far enough apart: the sockets end up those of the table the
\* proxy serves, since apply's signal, the updater thread and the L4 manager carry every
\* change to the listeners.
PacedConverges == paced => L4Converges

=============================================================================
