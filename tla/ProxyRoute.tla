----------------------------- MODULE ProxyRoute -----------------------------
(***************************************************************************)
(* One proxy route of src/proxy/mod.rs: a list of upstream targets, the    *)
(* shared round-robin counter, the health flag of each target, the request *)
(* tasks that pick an upstream, and the background health-check task.      *)
(*                                                                         *)
(* The request tasks and the checker share `counter' and `healthy' through *)
(* atomics only (no lock), so each atomic operation is one step here and   *)
(* the steps of different tasks interleave freely.  `up' is the world      *)
(* outside: whether a TCP connect to a target succeeds within the          *)
(* health-check timeout.                                                   *)
(***************************************************************************)
EXTENDS Integers, FiniteSets

CONSTANTS
  N,         \* number of targets of the route
  Wrap,      \* AtomicUsize arithmetic is modulo Wrap (2^64 in the build)
  Requests   \* tasks that may be inside pick_upstream at the same time

\* Config::load drops a proxy_route line without upstreams, so a route always
\* has at least one target.
ASSUME NAssumption    == N \in Nat \ {0}
ASSUME WrapAssumption == Wrap \in Nat \ {0}

Targets == 0 .. N-1

VARIABLES
  counter,   \* ProxyRoute::counter
  healthy,   \* UpstreamTarget::healthy of each target
  up,        \* external: the target accepts a TCP connect in time
  probe,     \* the health-check task: what it does, on which target, `ok'
  pc,        \* each request task's place in pick_upstream
  idx,       \* its local `idx': the slot it fetched last
  tries,     \* completed turns of its `for _ in 0..n' loop
  \* History variables; no guard reads them.
  landed,    \* fetches that fell on each slot since the counter was last 0
  steady,    \* targets whose flag has been set ever since this pick began
  taken      \* slots that others' fetches, or the counter's wrap, took from this pick

routeVars   == <<counter, landed>>
checkerVars == <<healthy, probe>>
localVars   == <<pc, idx, tries>>
historyVars == <<steady, taken>>
vars == <<counter, healthy, up, probe, pc, idx, tries, landed, steady, taken>>

(***************************************************************************)
(* A pick is under way while its task is in the loop; it has returned Some *)
(* in "picked" and None in "none".                                         *)
(***************************************************************************)
InLap(r)    == pc[r] \in {"fetch", "load"}
Returned(r) == pc[r] \in {"picked", "none"}

\* Indices stay within the target list (self.targets[idx] does not panic), and the
\* counter and the turns of the loop within their bounds.
TypeOK ==
  /\ counter \in 0 .. Wrap-1
  /\ healthy \in [Targets -> BOOLEAN]
  /\ up      \in [Targets -> BOOLEAN]
  /\ probe   \in [at : {"connect", "store", "sleep"}, target : Targets, ok : BOOLEAN]
  /\ pc      \in [Requests -> {"idle", "fetch", "load", "picked", "none"}]
  /\ idx     \in [Requests -> Targets]
  /\ tries   \in [Requests -> 0 .. N-1]
  /\ landed  \in [Targets -> Nat]
  /\ steady  \in [Requests -> SUBSET Targets]
  /\ taken   \in [Requests -> SUBSET Targets]

\* from_config: counter 0, every target assumed healthy; the checker task has
\* just been spawned and probes at once.  Upstreams may be in any state.
Init ==
  /\ counter = 0
  /\ healthy = [t \in Targets |-> TRUE]
  /\ up \in [Targets -> BOOLEAN]
  /\ probe = [at |-> "connect", target |-> 0, ok |-> FALSE]
  /\ pc = [r \in Requests |-> "idle"]
  /\ idx = [r \in Requests |-> 0]
  /\ tries = [r \in Requests |-> 0]
  /\ landed = [t \in Targets |-> 0]
  /\ steady = [r \in Requests |-> {}]
  /\ taken = [r \in Requests |-> {}]

-----------------------------------------------------------------------------
(***************************************************************************)
(* Request tasks: ProxyRoute::pick_upstream.                               *)
(***************************************************************************)

\* The history of a pick is dropped when no property needs it any more.
Forget(r) ==
  /\ steady' = [steady EXCEPT ![r] = {}]
  /\ taken' = [taken EXCEPT ![r] = {}]

\* A request matched this route and enters pick_upstream.
Begin(r) ==
  /\ pc[r] = "idle"
  /\ pc' = [pc EXCEPT ![r] = "fetch"]
  /\ steady' = [steady EXCEPT ![r] = {t \in Targets : healthy[t]}]
  /\ taken' = [taken EXCEPT ![r] = {}]
  /\ UNCHANGED <<up, idx, tries, routeVars, checkerVars>>

Slot_OffByOne(c) == c % (N - 1)

\* The index a counter value selects: `% n'.
Slot(c) == c % N

Bump_NoWrap(c) == c + 1

\* fetch_add on an AtomicUsize wraps around.
Bump(c) == (c + 1) % Wrap

\* What a fetch by r takes from a pick of q: its slot if it is another's, and
\* the rest of the lap if the counter starts again before the lap is over.
TakenBy(r, q) ==
  (IF r = q THEN {} ELSE {Slot(counter)})
    \cup (IF Bump(counter) = 0 THEN Slot(counter) + 1 .. N-1 ELSE {})

\* let idx = self.counter.fetch_add(1, Relaxed) % n;
FetchAdd(r) ==
  /\ pc[r] = "fetch"
  /\ pc' = [pc EXCEPT ![r] = "load"]
  /\ idx' = [idx EXCEPT ![r] = Slot(counter)]
  /\ counter' = Bump(counter)
  /\ landed' = IF counter' = 0 THEN [t \in Targets |-> 0]
               ELSE [landed EXCEPT ![Slot(counter)] = @ + 1]
  /\ taken' = [q \in Requests |->
                 IF InLap(q) THEN taken[q] \cup TakenBy(r, q) ELSE taken[q]]
  /\ UNCHANGED <<up, tries, steady, checkerVars>>

LoadHealthy_Unchecked(r) ==
  /\ pc[r] = "load"
  /\ pc' = [pc EXCEPT ![r] = "picked"]
  /\ tries' = [tries EXCEPT ![r] = 0]
  /\ Forget(r)
  /\ UNCHANGED <<up, idx, routeVars, checkerVars>>

\* if target.healthy.load(Relaxed) { return Some(..) }
LoadHealthy(r) ==
  /\ pc[r] = "load"
  /\ healthy[idx[r]]
  /\ pc' = [pc EXCEPT ![r] = "picked"]
  /\ tries' = [tries EXCEPT ![r] = 0]
  /\ Forget(r)
  /\ UNCHANGED <<up, idx, routeVars, checkerVars>>

LoadUnhealthy_ShortLap(r) ==
  /\ pc[r] = "load"
  /\ ~ healthy[idx[r]]
  /\ idx' = [idx EXCEPT ![r] = 0]
  /\ IF tries[r] + 1 >= N - 1
     THEN /\ pc' = [pc EXCEPT ![r] = "none"]
          /\ tries' = [tries EXCEPT ![r] = 0]
     ELSE /\ pc' = [pc EXCEPT ![r] = "fetch"]
          /\ tries' = [tries EXCEPT ![r] = @ + 1]
  /\ UNCHANGED <<up, routeVars, checkerVars, historyVars>>

LoadUnhealthy_Forever(r) ==
  /\ pc[r] = "load"
  /\ ~ healthy[idx[r]]
  /\ idx' = [idx EXCEPT ![r] = 0]
  /\ pc' = [pc EXCEPT ![r] = "fetch"]
  /\ UNCHANGED <<up, tries, routeVars, checkerVars, historyVars>>

\* The flag is clear: next turn of `for _ in 0..n', or None after the n-th.
LoadUnhealthy(r) ==
  /\ pc[r] = "load"
  /\ ~ healthy[idx[r]]
  /\ idx' = [idx EXCEPT ![r] = 0]
  /\ IF tries[r] + 1 = N
     THEN /\ pc' = [pc EXCEPT ![r] = "none"]
          /\ tries' = [tries EXCEPT ![r] = 0]
     ELSE /\ pc' = [pc EXCEPT ![r] = "fetch"]
          /\ tries' = [tries EXCEPT ![r] = @ + 1]
  /\ UNCHANGED <<up, routeVars, checkerVars, historyVars>>

\* fetch_from_upstream goes on with the result (connect, or NotConnected); the
\* task is then free to serve another request.
Finish(r) ==
  /\ Returned(r)
  /\ pc' = [pc EXCEPT ![r] = "idle"]
  /\ idx' = [idx EXCEPT ![r] = 0]
  /\ Forget(r)
  /\ UNCHANGED <<up, tries, routeVars, checkerVars>>

-----------------------------------------------------------------------------
(***************************************************************************)
(* The health-check task: spawn_health_checker.                            *)
(***************************************************************************)

\* tcp_connect_ok(..).await: the outcome is fixed here and stored later.
ProbeConnect ==
  /\ probe.at = "connect"
  /\ probe' = [probe EXCEPT !.at = "store", !.ok = up[probe.target]]
  /\ UNCHANGED <<up, healthy, routeVars, localVars, historyVars>>

\* After the last target the task sleeps, otherwise it probes the next one.
NextProbe ==
  IF probe.target = N - 1
  THEN [at |-> "sleep", target |-> 0, ok |-> FALSE]
  ELSE [at |-> "connect", target |-> probe.target + 1, ok |-> FALSE]

ProbeStore_NeverRecover ==
  /\ probe.at = "store"
  /\ healthy' = [healthy EXCEPT ![probe.target] = @ /\ probe.ok]
  /\ steady' = [r \in Requests |->
                  IF probe.ok THEN steady[r] ELSE steady[r] \ {probe.target}]
  /\ probe' = NextProbe
  /\ UNCHANGED <<up, taken, routeVars, localVars>>

\* target.healthy.store(ok, Relaxed);
ProbeStore ==
  /\ probe.at = "store"
  /\ healthy' = [healthy EXCEPT ![probe.target] = probe.ok]
  /\ steady' = [r \in Requests |->
                  IF probe.ok THEN steady[r] ELSE steady[r] \ {probe.target}]
  /\ probe' = NextProbe
  /\ UNCHANGED <<up, taken, routeVars, localVars>>

\* tokio::time::sleep(interval).await is over: a new pass begins.
Wake ==
  /\ probe.at = "sleep"
  /\ probe' = [probe EXCEPT !.at = "connect"]
  /\ UNCHANGED <<up, healthy, routeVars, localVars, historyVars>>

\* An upstream stops or comes back.
Flip(t) ==
  /\ up' = [up EXCEPT ![t] = ~ @]
  /\ UNCHANGED <<routeVars, checkerVars, localVars, historyVars>>

-----------------------------------------------------------------------------
Checker == ProbeConnect \/ ProbeStore \/ Wake
Pick(r) == FetchAdd(r) \/ LoadHealthy(r) \/ LoadUnhealthy(r) \/ Finish(r)

Next ==
  \/ \E r \in Requests : Begin(r) \/ Pick(r)
  \/ Checker
  \/ \E t \in Targets : Flip(t)

Spec == Init /\ [][Next]_vars

(***************************************************************************)
(* The runtime keeps polling ready tasks: a pick has no await in it, and   *)
(* the checker's awaits (connect under a timeout, sleep) always complete.  *)
(* Nothing makes new requests arrive or upstreams change.                  *)
(***************************************************************************)
FairSpec ==
  /\ Spec
  /\ WF_vars(Checker)
  /\ \A r \in Requests : WF_vars(Pick(r))

=============================================================================
