------------------------ MODULE MCMaintenanceGrants ------------------------
(* Two callers, two requesters, two generations before exhaustion. *)
EXTENDS MaintenanceGrants, TLC

Symmetry == Permutations(Requester) \cup Permutations(Caller)
=============================================================================
