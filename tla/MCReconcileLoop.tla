--------------------------- MODULE MCReconcileLoop ---------------------------
(***************************************************************************)
(* Instance of ReconcileLoop, in the order of reconcile_tick_with_leader:  *)
(* a strict list, the Services that its routes name, and another strict    *)
(* list.  The BackendTLSPolicies, which a tick fetches between them, are   *)
(* lenient like the Services.                                              *)
(***************************************************************************)
EXTENDS ReconcileLoop

MCKindOrder == <<"HTTPRoute", "Services and BackendTLSPolicies", "TLSRoute">>
MCLenient == {"Services and BackendTLSPolicies"}

=============================================================================
