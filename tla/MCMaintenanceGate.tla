------------------------- MODULE MCMaintenanceGate -------------------------
(* MaintenanceGate for TLC: one generation can be restored and another one *)
(* requested, two commands compete for one pending entry, two publisher    *)
(* sessions deliver three frames each.                                     *)
EXTENDS MaintenanceGate

MCGeneration == 0..2
MCEpoch == 1..2
MCFrame == 1..3
MCCommandId == 1..2
MCInputStates == {"queued", "sent", "rejected"}
=============================================================================
