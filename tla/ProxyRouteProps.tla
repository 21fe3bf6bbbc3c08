--------------------------- MODULE ProxyRouteProps ---------------------------
(***************************************************************************)
(* What the proxy route of ProxyRoute promises.                            *)
(***************************************************************************)
EXTENDS ProxyRoute

\* Round robin: however the fetch_adds of concurrent requests interleave, no
\* slot is ever two visits ahead of another (proxy/mod.rs:38, one atomic
\* read-modify-write per try).
EvenSpread ==
  \A s, t \in Targets : landed[s] - landed[t] \in {-1, 0, 1}

\* The lap that pick_upstream promises (proxy/mod.rs:27-31), as far as requests
\* that share the counter can have it: a target that a pick missed, though it
\* was healthy throughout, is one whose slot another request took meanwhile, or
\* that the wrap of the counter passed over.
MissedTargetsWereTaken ==
  \A r \in Requests : pc[r] = "none" => steady[r] \subseteq taken[r]

\* The same promise without the proviso, as the comment on pick_upstream makes
\* it: "if every target is currently marked unhealthy, returns None".
NoneOnlyIfAllUnhealthy ==
  \A r \in Requests : pc[r] = "none" => steady[r] = {}

\* A pick ends, whatever other requests and the checker do to the shared
\* counter and flags: the loop is bounded by the number of targets.
PickReturns ==
  \A r \in Requests : InLap(r) ~> Returned(r)

\* What a pick still has to do, in atomic operations of its own.
Left(r) ==
  CASE pc[r] = "fetch" -> 2 * (N - tries[r])
    [] pc[r] = "load"  -> 2 * (N - tries[r]) - 1
    [] OTHER           -> 0

\* PickReturns without the runtime's help: no request, probe or wrap of the counter
\* ever adds to what a pick has to do, each operation of its own takes from it, and
\* 2n of them are enough (proxy/mod.rs:36-44: no retry loop, no lock).
PickBounded ==
  /\ [](\A r \in Requests : Left(r) \in 0 .. 2 * N)
  /\ [][\A r \in Requests : InLap(r) =>
           UNCHANGED <<pc[r], idx[r], tries[r]>> \/ Left(r)' < Left(r)]_vars

\* The flags follow the world: a target that stays reachable (unreachable) is
\* eventually marked healthy (unhealthy) for good, although a probe's outcome
\* is stored after the world may have changed again (proxy/mod.rs:110-111).
FlagsConverge ==
  \A t \in Targets : /\ <>[]up[t]   => <>[]healthy[t]
                     /\ <>[]~ up[t] => <>[]~ healthy[t]

\* README.md:79, "dead upstreams are automatically skipped": once a target is
\* down for good, there is a time after which no request is sent to it.
DeadUpstreamDrained ==
  \A t \in Targets :
    <>[]~ up[t] => <>[](\A r \in Requests : ~ (pc[r] = "picked" /\ idx[r] = t))

\* The marks are the flags; a request is asking while its pick is in the loop.
MarkedNow == {t \in Targets : healthy[t]}
PlaceOf(p) ==
  CASE p = "idle" -> "away"
    [] p \in {"fetch", "load"} -> "asking"
    [] p \in {"picked", "none"} -> "answered"
AtNow  == [r \in Requests |-> PlaceOf(pc[r])]
GotNow == [r \in Requests |-> IF pc[r] = "picked" THEN {idx[r]} ELSE {}]

Picks == INSTANCE AtomicPick WITH marked <- MarkedNow, at <- AtNow, got <- GotNow

\* To its request a pick is a single look at the flags, though it is a loop of two
\* atomic operations a turn on a counter and flags that others move meanwhile.
PicksAtomic == Picks!Spec

=============================================================================
