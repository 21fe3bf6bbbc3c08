------------------------ MODULE HotReloadAtomicProofs ------------------------
(***************************************************************************)
(* HotReload implements AtomicRoutes for paths of one kind, for every set  *)
(* of configurations.                                                      *)
(***************************************************************************)
EXTENDS HotReloadAtomic, HotReloadProofs

-----------------------------------------------------------------------------
(***************************************************************************)
(* What is in the tables comes from configurations.                        *)
(***************************************************************************)

TablesKnown ==
  \A g \in 1 .. Newest : tables[g].proxy \subseteq ProxyPaths
                         /\ tables[g].wasm \subseteq WasmPaths

\* from_config adds no paths, whichever modules load.
LEMMA BuildKnown ==
  ASSUME NEW c \in Configs \cup {NoRoutes}, NEW t \in MayBuild(c)
  PROVE  t.proxy \subseteq ProxyPaths /\ t.wasm \subseteq WasmPaths
<1> DEFINE Known == Build(c).proxy \subseteq ProxyPaths /\ Build(c).wasm \subseteq WasmPaths
<1>1. ASSUME c \in Configs PROVE Known
  BY <1>1 DEF ProxyPaths, WasmPaths
<1>2. ASSUME c = NoRoutes PROVE Known
  BY <1>2 DEF Build, NoRoutes
<1> QED BY <1>1, <1>2, MayBuildType

\* Tables are built from configurations only, by main and by the watcher.
LEMMA KnownStep == TypeOK /\ InOrder /\ TablesKnown /\ [Next]_vars => TablesKnown'
<1> SUFFICES ASSUME TypeOK, InOrder, TablesKnown, [Next]_vars PROVE TablesKnown'
  OBVIOUS
<1>1. CASE UNCHANGED tables
  BY <1>1 DEF TablesKnown, Newest
<1>2. CASE Boot
  <2>1. Newest' = 0
    BY <1>2 DEF Boot, Newest
  <2> QED BY <2>1 DEF TablesKnown
<1>3. CASE MainStart
  <2>1. Newest' = 1 /\ \E t \in MayBuild(cfg) : tables'[1] = t
    BY <1>3, TableStarted
  <2>2. cfg \in Configs \cup {NoRoutes}
    BY DEF TypeOK
  <2> QED BY <2>1, <2>2, BuildKnown DEF TablesKnown
<1>4. CASE LoadConfig
  <2>1. PICK c \in MayLoad(disk) : \E t \in MayBuild(c) : tables'[Newest'] = t
    BY <1>4, TableAdded
  <2>2. c \in Configs \cup {NoRoutes}
    BY MayLoadType DEF TypeOK
  <2>3. /\ Newest \in Nat /\ Newest' = Newest + 1
        /\ \A g \in 1 .. Newest : tables'[g] = tables[g]
    BY <1>4, TableAdded
  <2> QED BY <2>1, <2>2, <2>3, BuildKnown DEF TablesKnown
<1>5. CASE Watcher
  BY <1>1, <1>4, <1>5
     DEF Watcher, Baseline, Poll, SpawnChecker, StoreProxy, StoreWasm, tableVars
<1> QED BY <1>1, <1>2, <1>3, <1>5, TableSteps

-----------------------------------------------------------------------------
(***************************************************************************)
(* The steps, one kind at a time.                                          *)
(***************************************************************************)

\* Whatever the tables, every path has a handler.
LEMMA RoutesTyped == RouteNow \in Atomic!RouteMaps /\ RouteNow' \in Atomic!RouteMaps
BY DEF RouteNow, Atomic!RouteMaps, Handlers

\* A table that is only built is not in force.
LEMMA BuildingKeepsRoutes ==
  ASSUME TypeOK, InOrder, LoadConfig
  PROVE  RouteNow' = RouteNow
<1>1. /\ proxyCur' = proxyCur /\ wasmCur' = wasmCur
      /\ proxyCur \in 0 .. Newest /\ wasmCur \in 0 .. Newest
  BY DEF LoadConfig, TypeOK
<1>2. Newest \in Nat /\ \A g \in 1 .. Newest : tables'[g] = tables[g]
  BY TableAdded
<1>3. proxyCur > 0 => tables'[proxyCur] = tables[proxyCur]
  BY <1>1, <1>2
<1>4. wasmCur > 0 => tables'[wasmCur] = tables[wasmCur]
  BY <1>1, <1>2
<1> QED BY <1>1, <1>3, <1>4 DEF RouteNow

\* The file, main before it serves, and the watcher before it stores change no
\* route; main's start and the two stores change some.
LEMMA TablesImplement ==
  ASSUME TypeOK, InOrder,
         \/ \E d \in Contents \ {Missing} : Edit(d)
         \/ Remove \/ MainLoad \/ MainBindFails \/ MainStart \/ Watcher
  PROVE  [Atomic!Next]_(Atomic!vars)
<1>1. req' = req
  BY DEF Edit, Remove, MainLoad, MainBindFails, MainStart, Watcher, Baseline,
         Poll, LoadConfig, SpawnChecker, StoreProxy, StoreWasm
<1>2. AskNow' = AskNow
  BY <1>1 DEF AskNow, AskOf
<1> QED BY <1>2, RoutesTyped DEF Atomic!Next, Atomic!Switch

\* A process that starts again has forgotten its requests.
LEMMA BootImplements ==
  ASSUME Boot
  PROVE  Atomic!Reset
<1>1. \A r \in Requests : req'[r].at = "idle"
  BY DEF Boot, NoTask, Idle
<1>2. AskNow' = [r \in Requests |-> [at |-> "idle"]]
  BY <1>1 DEF AskNow, AskOf
<1> QED BY <1>2, RoutesTyped DEF Atomic!Reset, Atomic!Nothing

\* A step of one request is a step of the same request, with the same routes.
LEMMA RequestsImplement ==
  ASSUME TypeOK, InOrder, RequestsOK, TablesKnown,
         NEW r \in Requests, NEW p \in Paths, Arrive(r, p) \/ Serve(r)
  PROVE  [Atomic!Next]_(Atomic!vars)
<1>0. /\ req \in [Requests -> RequestType] /\ req[r] \in RequestType
      /\ ReqOK(req[r])
      /\ proxyCur \in 0 .. Newest /\ wasmCur \in 0 .. Newest /\ Newest \in Nat
      /\ wasmCur <= proxyCur /\ req[r].from \in Nat
  BY DEF TypeOK, RequestsOK, InOrder, Newest, RequestType
<1>1. RouteNow' = RouteNow
  BY RequestSteps DEF OnlyRequests, tableVars, RouteNow
<1>2. \A s \in Requests \ {r} : req'[s] = req[s]
  BY DEF TypeOK, Arrive, Serve, MatchProxy, Relayed, MatchWasm, Done
<1>3. req'[r] \in RequestType
  BY RequestSteps
<1>ask. AskNow' = [s \in Requests |-> AskOf(req'[s])]
  BY DEF AskNow, AskOf
<1>4. AskNow' = [AskNow EXCEPT ![r] = AskOf(req'[r])]
  BY <1>2, <1>ask DEF AskNow
<1>5. AskNow[r] = AskOf(req[r])
  BY DEF AskNow
<1>6. AskOf(req'[r]) = AskOf(req[r]) => AskNow' = AskNow
  BY <1>2, <1>ask DEF AskNow
<1>7. req[r].path \in Paths /\ req'[r].path \in Paths
  BY <1>0, <1>3 DEF RequestType
<1>steady. \A x \in SteadyPaths : x \in Paths /\ (x \notin ProxyPaths \/ x \notin WasmPaths)
  BY DEF SteadyPaths
<1>decide. ASSUME req[r].path \in SteadyPaths,
             AskOf(req[r]) = [at |-> "asked", path |-> req[r].path],
             AskOf(req'[r]) = [at |-> "decided", path |-> req[r].path,
                               by |-> RouteNow[req[r].path]]
      PROVE  [Atomic!Next]_(Atomic!vars)
  <2>1. AskNow[r] \in Atomic!Requested /\ AskNow[r].path = req[r].path
    BY <1>5, <1>decide DEF Atomic!Requested
  <2>2. AskNow' = [AskNow EXCEPT ![r] =
                     [at |-> "decided", path |-> AskNow[r].path,
                      by |-> RouteNow[AskNow[r].path]]]
    BY <1>4, <1>decide, <2>1
  <2>3. Atomic!Decide(r)
    BY <1>1, <2>1, <2>2 DEF Atomic!Decide
  <2> QED BY <2>3 DEF Atomic!Next
<1>aside. CASE req[r].path \notin SteadyPaths /\ Serve(r)
  <2>1. req'[r].path = req[r].path \/ req'[r].at = "idle"
    BY <1>0, <1>aside DEF Serve, MatchProxy, Relayed, MatchWasm, Done, Idle, RequestType
  <2>2. AskOf(req'[r]) = AskOf(req[r])
    BY <1>aside, <2>1 DEF AskOf
  <2> QED BY <1>1, <1>6, <2>2 DEF Atomic!vars
<1>8. CASE Arrive(r, p)
  <2>1. req[r].at = "idle" /\ req'[r].at = "proxy" /\ req'[r].path = p
    BY <1>0, <1>8 DEF Arrive, Idle
  <2>2. AskOf(req[r]) = Atomic!Nothing
    BY <2>1 DEF AskOf, Atomic!Nothing
  <2>3. CASE p \in SteadyPaths
    <3>1. AskOf(req'[r]) = [at |-> "asked", path |-> p]
      BY <2>1, <2>3 DEF AskOf
    <3>2. Atomic!Ask(r, p)
      BY <1>1, <1>4, <1>5, <2>2, <3>1 DEF Atomic!Ask
    <3> QED BY <2>3, <3>2 DEF Atomic!Next
  <2>4. CASE p \notin SteadyPaths
    <3>1. AskOf(req'[r]) = AskOf(req[r])
      BY <2>1, <2>4 DEF AskOf
    <3> QED BY <1>1, <1>6, <3>1 DEF Atomic!vars
  <2> QED BY <2>3, <2>4
<1>9. CASE req[r].path \in SteadyPaths /\ MatchProxy(r)
  <2>1. /\ req[r].at = "proxy" /\ req'[r].path = req[r].path
        /\ req'[r].at = IF req[r].path \in tables[proxyCur].proxy
                        THEN "relay" ELSE "wasm"
    BY <1>0, <1>9 DEF MatchProxy, RequestType
  <2>2. proxyCur \in 1 .. Newest /\ wasmCur \in 1 .. Newest
    BY <1>0, <2>1 DEF ReqOK
  <2>3. AskOf(req[r]) = [at |-> "asked", path |-> req[r].path]
    BY <1>9, <2>1 DEF AskOf
  <2>4. CASE req[r].path \in tables[proxyCur].proxy
    <3>1. AskOf(req'[r]) = [at |-> "decided", path |-> req[r].path, by |-> "proxy"]
      BY <1>9, <2>1, <2>4 DEF AskOf
    <3>2. RouteNow[req[r].path] = "proxy"
      BY <1>9, <1>steady, <2>2, <2>4 DEF RouteNow
    <3> QED BY <1>decide, <1>9, <2>3, <3>1, <3>2
  <2>5. CASE req[r].path \notin tables[proxyCur].proxy /\ req[r].path \in ProxyPaths
    <3>1. AskOf(req'[r]) = [at |-> "decided", path |-> req[r].path, by |-> "static"]
      BY <1>9, <2>1, <2>5 DEF AskOf
    <3>2. RouteNow[req[r].path] = "static"
      BY <1>9, <1>steady, <2>2, <2>5 DEF RouteNow, TablesKnown
    <3> QED BY <1>decide, <1>9, <2>3, <3>1, <3>2
  <2>6. CASE req[r].path \notin tables[proxyCur].proxy /\ req[r].path \notin ProxyPaths
    <3>1. AskOf(req'[r]) = AskOf(req[r])
      BY <1>9, <2>1, <2>3, <2>6 DEF AskOf
    <3> QED BY <1>1, <1>6, <3>1 DEF Atomic!vars
  <2> QED BY <2>4, <2>5, <2>6
<1>10. CASE req[r].path \in SteadyPaths /\ Relayed(r)
  <2>1. /\ req[r].at = "relay" /\ req'[r].path = req[r].path
        /\ req'[r].at = "answered" /\ req'[r].answer = "proxy"
    BY <1>0, <1>10 DEF Relayed, RequestType
  <2>2. AskOf(req'[r]) = AskOf(req[r])
    BY <1>10, <2>1 DEF AskOf
  <2> QED BY <1>1, <1>6, <2>2 DEF Atomic!vars
<1>11. CASE req[r].path \in SteadyPaths /\ MatchWasm(r)
  <2>1. /\ req[r].at = "wasm" /\ req'[r].path = req[r].path
        /\ req'[r].at = "answered"
        /\ req'[r].answer = IF req[r].path \in tables[wasmCur].wasm
                            THEN "wasm" ELSE "static"
    BY <1>0, <1>11 DEF MatchWasm, RequestType
  <2>2. proxyCur \in 1 .. Newest /\ wasmCur \in 1 .. Newest
    BY <1>0, <2>1 DEF ReqOK
  <2>3. AskOf(req'[r]) =
          [at |-> "decided", path |-> req[r].path, by |-> req'[r].answer]
    BY <1>11, <2>1 DEF AskOf
  <2>4. CASE req[r].path \in ProxyPaths
    <3>1. req[r].path \notin tables[wasmCur].wasm
      BY <1>11, <1>steady, <2>2, <2>4 DEF TablesKnown
    <3>2. AskOf(req'[r]) = AskOf(req[r])
      BY <1>11, <2>1, <2>3, <2>4, <3>1 DEF AskOf
    <3> QED BY <1>1, <1>6, <3>2 DEF Atomic!vars
  <2>5. CASE req[r].path \notin ProxyPaths
    <3>1. AskOf(req[r]) = [at |-> "asked", path |-> req[r].path]
      BY <1>11, <2>1, <2>5 DEF AskOf
    <3>2. RouteNow[req[r].path] = req'[r].answer
      BY <1>11, <1>steady, <2>1, <2>2, <2>5 DEF RouteNow, TablesKnown
    <3> QED BY <1>decide, <1>11, <2>3, <3>1, <3>2
  <2> QED BY <2>4, <2>5
<1>12. CASE req[r].path \in SteadyPaths /\ Done(r)
  <2>1. req[r].at = "answered" /\ req'[r].at = "idle" /\ req[r].answer \in Handlers
    BY <1>0, <1>12 DEF Done, Idle, RequestType
  <2>2. /\ AskOf(req[r]) = [at |-> "decided", path |-> req[r].path, by |-> req[r].answer]
        /\ AskOf(req'[r]) = Atomic!Nothing
    BY <1>12, <2>1 DEF AskOf, Atomic!Nothing
  <2>3. AskOf(req[r]) \in Atomic!Decided
    BY <1>12, <2>1, <2>2 DEF Atomic!Decided
  <2>4. Atomic!Finish(r)
    BY <1>1, <1>4, <1>5, <2>2, <2>3 DEF Atomic!Finish
  <2> QED BY <2>4 DEF Atomic!Next
<1> QED BY <1>aside, <1>8, <1>9, <1>10, <1>11, <1>12 DEF Serve

\* Every request for a path that keeps to one kind of route is decided by the
\* routes of one moment of its life, however reloads, faults and crashes fall.
THEOREM ReloadIsAtomic == Spec => RoutesAtomic
<1>1. Init => Atomic!Init /\ TablesKnown /\ RequestsOK
  <2> SUFFICES ASSUME Init PROVE Atomic!Init /\ TablesKnown /\ RequestsOK
    OBVIOUS
  <2>1. \A r \in Requests : req[r].at = "idle"
    BY DEF Init, NoTask, Idle
  <2>2. AskNow = [r \in Requests |-> Atomic!Nothing]
    BY <2>1 DEF AskNow, AskOf, Atomic!Nothing
  <2>3. TablesKnown /\ RequestsOK
    BY <2>1 DEF Init, TablesKnown, Newest, RequestsOK, ReqOK
  <2> QED BY <2>2, <2>3, RoutesTyped DEF Atomic!Init
<1>2. TypeOK /\ InOrder /\ RequestsOK /\ TablesKnown /\ [Next]_vars
        => [Atomic!Next]_(Atomic!vars)
  <2> SUFFICES ASSUME TypeOK, InOrder, RequestsOK, TablesKnown, [Next]_vars
               PROVE  [Atomic!Next]_(Atomic!vars)
    OBVIOUS
  <2>1. CASE UNCHANGED vars
    BY <2>1 DEF vars, Atomic!vars, RouteNow, AskNow, AskOf
  <2>2. CASE Crash \/ Restart
    BY <2>2, BootImplements DEF Crash, Restart, Atomic!Next
  <2> QED BY <2>1, <2>2, TablesImplement, RequestsImplement, PathsAssumption
          DEF Next, Main
<1> QED BY <1>1, <1>2, KnownStep, RequestsStep, TypeCorrect, TablesInOrder, PTL
        DEF Spec, RoutesAtomic, Atomic!Spec

=============================================================================
