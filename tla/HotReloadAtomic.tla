--------------------------- MODULE HotReloadAtomic ---------------------------
(***************************************************************************)
(* HotReload implements AtomicRoutes for requests whose path is not a      *)
(* proxy route at one time and a WASM route at another.  (For the others   *)
(* it does not: such a request may find its path in neither table, see     *)
(* OneConfigPerRequest.)                                                   *)
(***************************************************************************)
EXTENDS HotReloadProps

ProxyPaths == UNION {Build(c).proxy : c \in Configs}
WasmPaths  == UNION {Build(c).wasm : c \in Configs}

\* Paths whose kind of route never changes.
SteadyPaths == Paths \ (ProxyPaths \cap WasmPaths)

\* The two tables in force, read at the same moment.
RouteNow ==
  [p \in SteadyPaths |->
     IF proxyCur > 0 /\ p \in tables[proxyCur].proxy THEN "proxy"
     ELSE IF wasmCur > 0 /\ p \in tables[wasmCur].wasm THEN "wasm"
     ELSE "static"]

\* A request is decided when it matches a proxy route, or fails to match one
\* with a path that could be nothing else; the others when they look up the
\* WASM routes.
AskOf(q) ==
  IF q.at = "idle" \/ q.path \notin SteadyPaths THEN [at |-> "idle"]
  ELSE CASE q.at = "proxy" \/ (q.at = "wasm" /\ q.path \notin ProxyPaths) ->
              [at |-> "asked", path |-> q.path]
         [] q.at = "wasm" /\ q.path \in ProxyPaths ->
              [at |-> "decided", path |-> q.path, by |-> "static"]
         [] q.at = "relay" -> [at |-> "decided", path |-> q.path, by |-> "proxy"]
         [] q.at = "answered" ->
              [at |-> "decided", path |-> q.path, by |-> q.answer]

AskNow == [r \in Requests |-> AskOf(req[r])]

Atomic == INSTANCE AtomicRoutes
            WITH Paths <- SteadyPaths, route <- RouteNow, ask <- AskNow

\* A request sees the routes as they are at one moment of its life, although
\* the code keeps them in two tables, stored and loaded one after the other
\* (listener.rs:174-175; connection.rs:65, :94).
RoutesAtomic == Atomic!Spec

=============================================================================
