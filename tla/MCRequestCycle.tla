--------------------------- MODULE MCRequestCycle ---------------------------
(* Model-checking instances of RequestCycle. *)
EXTENDS RequestCycleProps, TLC
=============================================================================
