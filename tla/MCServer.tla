------------------------------ MODULE MCServer ------------------------------
EXTENDS ServerProps, TLC

CONSTANTS p, q, a, b

\* A proxy route with two upstreams and a WASM route; a rewritten file keeps them,
\* an unreadable or missing one has neither.
MCConfigs == {[proxy |-> {p}, wasm |-> {q}]}

MCUpstreams == (p :> {a, b}) @@ (q :> {b})

=============================================================================
