----------------------------- MODULE MCHotReload -----------------------------
(* Model-checking instances of HotReload. *)
EXTENDS HotReloadAtomic, TLC

CONSTANTS p, q, w   \* three request paths

\* p moves between the two kinds of routes and none; q is proxied, or has a
\* module that never loads; w has a module or not. (An unreadable file stands for
\* one with no routes as well.)
MCConfigs ==
  { [proxy |-> {p, q}, wasm |-> {}],
    [proxy |-> {q},    wasm |-> {w}],
    [proxy |-> {},     wasm |-> {p, q}] }
=============================================================================
