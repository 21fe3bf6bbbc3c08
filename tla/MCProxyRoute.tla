---------------------------- MODULE MCProxyRoute ----------------------------
(* Model-checking instances of ProxyRoute. *)
EXTENDS ProxyRouteProps, TLC
=============================================================================
