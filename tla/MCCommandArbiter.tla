--------------------------- MODULE MCCommandArbiter ---------------------------
(* CommandArbiter for TLC: no node of the repository publishes vision      *)
(* commands, so four sources; three instants; two maintenance generations  *)
(* announced by two sessions of the mission manager or by nobody known.    *)
EXTENDS CommandArbiter
=============================================================================
