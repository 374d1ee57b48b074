------------------------ MODULE MCMaintenanceRuntime ------------------------
(* MaintenancePublishers for TLC: two requesters, two generations, one brake  *)
(* command, two hardware publishers of which one may be retired.           *)
EXTENDS MaintenancePublishers, TLC

Symmetry == Permutations(Requester) \cup Permutations(Publisher)
=============================================================================
