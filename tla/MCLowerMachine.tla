---------------------------- MODULE MCLowerMachine ----------------------------
(* LowerMachine for TLC: three commands of three kinds against a queue of  *)
(* three, so that it fills up beside the burst in progress and the stop.   *)
EXTENDS LowerMachine
=============================================================================
