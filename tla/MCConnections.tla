---------------------------- MODULE MCConnections ----------------------------
(* Model-checking instances of Connections. *)
EXTENDS ConnectionsProps, TLC
==============================================================================
