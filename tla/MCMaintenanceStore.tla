------------------------- MODULE MCMaintenanceStore -------------------------
(* Two callers and two requesters; the generations can be exhausted. *)
EXTENDS MaintenanceStore, TLC

Symmetry == Permutations(Requester) \cup Permutations(Caller)
=============================================================================
