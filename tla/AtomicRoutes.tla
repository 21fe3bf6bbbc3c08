----------------------------- MODULE AtomicRoutes -----------------------------
(***************************************************************************)
(* What hot reload promises its requests (the comment at                   *)
(* src/server/listener.rs:123-130, docs/ARCHITECTURE.md:273-281), without  *)
(* files, watchers or tables: every path has a handler at any time, a      *)
(* reload may change the handlers of some paths, and a request is decided  *)
(* at one moment between its arrival and its answer, by the handler its    *)
(* path has at that moment.                                                *)
(***************************************************************************)

CONSTANTS Paths, Handlers, Requests

VARIABLES
  route,  \* the handler of each path
  ask     \* each request

vars == <<route, ask>>

RouteMaps == [Paths -> Handlers]

Requested == [at : {"asked"}, path : Paths]
Decided   == [at : {"decided"}, path : Paths, by : Handlers]
Nothing   == [at |-> "idle"]

Init ==
  /\ route \in RouteMaps
  /\ ask = [r \in Requests |-> Nothing]

\* Some paths get another handler.
Switch ==
  /\ route' \in RouteMaps
  /\ UNCHANGED ask

Ask(r, p) ==
  /\ ask[r] = Nothing
  /\ ask' = [ask EXCEPT ![r] = [at |-> "asked", path |-> p]]
  /\ UNCHANGED route

\* The one moment at which a request reads the routes.
Decide(r) ==
  /\ ask[r] \in Requested
  /\ ask' = [ask EXCEPT ![r] =
               [at |-> "decided", path |-> ask[r].path, by |-> route[ask[r].path]]]
  /\ UNCHANGED route

Finish(r) ==
  /\ ask[r] \in Decided
  /\ ask' = [ask EXCEPT ![r] = Nothing]
  /\ UNCHANGED route

\* The process ends; requests are forgotten.
Reset ==
  /\ route' \in RouteMaps
  /\ ask' = [r \in Requests |-> Nothing]

Next ==
  \/ Switch
  \/ Reset
  \/ \E r \in Requests : \E p \in Paths : Ask(r, p)
  \/ \E r \in Requests : Decide(r) \/ Finish(r)

Spec == Init /\ [][Next]_vars

=============================================================================
