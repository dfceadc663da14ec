---------------------------- MODULE RequestPath ----------------------------
(***************************************************************************)
(* The path of a request: which plan of its host the compiled table gives  *)
(* it (PlanLookup), and what the pipeline then does with a plan            *)
(* (RequestPipeline).  `focus` is what a behaviour is about: the lookup,   *)
(* requests of one connection, or of several.                              *)
(***************************************************************************)
EXTENDS PlanLookup, RequestPipeline

VARIABLE focus

requestvars == <<vars, rvars, focus>>

RequestInit == Init /\ RInit /\ focus \in {"lookup", "alone", "together"}

RequestNext ==
    \/ focus = "lookup" /\ Next /\ UNCHANGED <<rvars, focus>>
    \/ focus # "lookup" /\ RNext /\ UNCHANGED <<vars, focus>>

RequestFairness == focus # "lookup" => RFairness

RequestSpec == RequestInit /\ [][RequestNext]_requestvars /\ RequestFairness

-----------------------------------------------------------------------------
\* LookupIsBest, of behaviours of the lookup: the trie with its discriminators
\* gives each request the plan that a search of all plans would give it.
LookupBest == focus = "lookup" => LookupIsBest

=============================================================================
