--------------------------- MODULE HotReloadProofs ---------------------------
(***************************************************************************)
(* Proofs about HotReload, for every set of paths, configurations and      *)
(* request tasks.                                                          *)
(***************************************************************************)
EXTENDS HotReloadProps, TLAPS

-----------------------------------------------------------------------------
(***************************************************************************)
(* Data.                                                                   *)
(***************************************************************************)

\* The default configuration is one.
LEMMA NoRoutesType == NoRoutes \in Tables
BY DEF NoRoutes, Tables

\* Config::load always yields a configuration.
LEMMA LoadType ==
  ASSUME NEW d \in Contents
  PROVE  Load(d) \in Configs \cup {NoRoutes}
BY DEF Load, Contents

\* So it does when the read fails.
LEMMA MayLoadType ==
  ASSUME NEW d \in Contents
  PROVE  MayLoad(d) \subseteq Configs \cup {NoRoutes}
BY LoadType DEF MayLoad

\* from_config always yields tables.
LEMMA BuildType ==
  ASSUME NEW c \in Configs \cup {NoRoutes}
  PROVE  Build(c) \in Tables
BY NoRoutesType, ConfigsAssumption DEF Build, Tables

\* Whichever of its modules load: what is left out are WASM routes.
LEMMA MayBuildType ==
  ASSUME NEW c \in Configs \cup {NoRoutes}, NEW t \in MayBuild(c)
  PROVE  t \in Tables /\ t.proxy = Build(c).proxy /\ t.wasm \subseteq Build(c).wasm
<1>1. CASE t = Build(c)
  BY <1>1, BuildType
<1>2. CASE \E W \in SUBSET Build(c).wasm : t = [Build(c) EXCEPT !.wasm = W]
  BY <1>2, BuildType DEF Tables
<1> QED BY <1>1, <1>2 DEF MayBuild

\* A task that has nothing to do is a request task.
LEMMA IdleType ==
  ASSUME NEW p \in Paths
  PROVE  Idle(p) \in RequestType
BY DEF Idle, RequestType, Handlers

\* So are those of a process that has just begun.
LEMMA NoTaskType == NoTask \in [Requests -> RequestType]
<1>1. AnyPath \in Paths
  BY PathsAssumption DEF AnyPath
<1> QED BY <1>1, IdleType DEF NoTask

-----------------------------------------------------------------------------
(***************************************************************************)
(* Type correctness.                                                       *)
(***************************************************************************)

\* What each kind of step leaves alone; used all over the step lemmas.
OnlyRequests == UNCHANGED <<fileVars, serverVars, tableVars, watcher>>
OnlyFile     == UNCHANGED <<serverVars, tableVars, watcher, req>>

\* A request changes nothing but itself.
LEMMA RequestSteps ==
  ASSUME TypeOK, NEW r \in Requests, NEW p \in Paths,
         Arrive(r, p) \/ Serve(r)
  PROVE  OnlyRequests /\ req' \in [Requests -> RequestType]
<1>1. proxyCur \in Nat /\ wasmCur \in Nat
  BY DEF TypeOK, Newest
<1>2. req \in [Requests -> RequestType] /\ req[r] \in RequestType
  BY DEF TypeOK
<1>3. CASE Arrive(r, p)
  BY <1>1, <1>2, <1>3 DEF Arrive, OnlyRequests, Idle, RequestType, Handlers
<1>4. CASE MatchProxy(r)
  BY <1>1, <1>2, <1>4 DEF MatchProxy, OnlyRequests, RequestType, Handlers
<1>5. CASE Relayed(r)
  BY <1>1, <1>2, <1>5 DEF Relayed, OnlyRequests, RequestType, Handlers
<1>6. CASE MatchWasm(r)
  BY <1>1, <1>2, <1>6 DEF MatchWasm, OnlyRequests, RequestType, Handlers
<1>7. CASE Done(r)
  BY <1>1, <1>2, <1>7, PathsAssumption, IdleType DEF Done, OnlyRequests, AnyPath
<1> QED BY <1>3, <1>4, <1>5, <1>6, <1>7 DEF Serve

\* A reload adds one table at the end.
LEMMA TableAdded ==
  ASSUME TypeOK, LoadConfig
  PROVE  /\ Newest \in Nat /\ Newest' = Newest + 1
         /\ tables' \in Seq(Tables)
         /\ \A g \in 1 .. Newest : tables'[g] = tables[g]
         /\ \E c \in MayLoad(disk) : \E t \in MayBuild(c) :
              /\ tables'[Newest'] = t
              /\ hidden' = (c # Load(disk) \/ t # Build(c))
              /\ watcher'.at = IF t.proxy # {} THEN "spawn" ELSE "proxy"
         /\ watcher'.last = watcher.last
<1>1. PICK c \in MayLoad(disk) : \E t \in MayBuild(c) :
        /\ tables' = Append(tables, t)
        /\ hidden' = (c # Load(disk) \/ t # Build(c))
        /\ watcher' = [watcher EXCEPT !.at =
                         IF t.proxy # {} THEN "spawn" ELSE "proxy"]
  BY DEF LoadConfig
<1>t. PICK t \in MayBuild(c) :
        /\ tables' = Append(tables, t)
        /\ hidden' = (c # Load(disk) \/ t # Build(c))
        /\ watcher' = [watcher EXCEPT !.at =
                         IF t.proxy # {} THEN "spawn" ELSE "proxy"]
  BY <1>1
<1>2. t \in Tables /\ tables \in Seq(Tables)
  BY MayLoadType, MayBuildType DEF TypeOK
<1>3. /\ watcher'.last = watcher.last
      /\ watcher'.at = IF t.proxy # {} THEN "spawn" ELSE "proxy"
  BY <1>t DEF TypeOK, WatcherType
<1>4. tables'[Newest'] = t /\ \A g \in 1 .. Newest : tables'[g] = tables[g]
  BY <1>t, <1>2 DEF Newest
<1> QED BY <1>t, <1>2, <1>3, <1>4 DEF Newest

\* So does startup, as the first one.
LEMMA TableStarted ==
  ASSUME TypeOK, MainStart
  PROVE  /\ Newest' = 1 /\ tables' \in Seq(Tables)
         /\ \E t \in MayBuild(cfg) :
              /\ tables'[1] = t
              /\ checkers' = IF t.proxy # {} THEN {1} ELSE {}
              /\ hidden' = (hidden \/ t # Build(cfg))
<1>1. PICK t \in MayBuild(cfg) :
        /\ tables' = <<t>>
        /\ checkers' = IF t.proxy # {} THEN {1} ELSE {}
        /\ hidden' = (hidden \/ t # Build(cfg))
  BY DEF MainStart
<1>2. t \in Tables
  BY MayBuildType DEF TypeOK
<1> QED BY <1>1, <1>2 DEF Newest

\* Once the watcher runs there is a table.
Started == watcher.at # "none" => Newest >= 1

\* Types, together with what they need: the watcher never runs without a table.
LEMMA TypeStarted == Spec => [](TypeOK /\ Started)
<1>1. Init => TypeOK /\ Started
  <2> SUFFICES ASSUME Init PROVE TypeOK /\ Started
    OBVIOUS
  <2>1. tables \in Seq(Tables) /\ Newest = 0 /\ watcher \in WatcherType
    BY DEF Init, Newest, WatcherType
  <2>2. mtime \in 0 .. writes /\ writes \in 0 .. MaxEdits
    BY MaxEditsAssumption DEF Init
  <2>3. disk \in Contents /\ hidden \in BOOLEAN
    BY DEF Init
  <2> QED BY <2>1, <2>2, <2>3, NoTaskType DEF Init, TypeOK, Started
<1>2. TypeOK /\ Started /\ [Next]_vars => TypeOK'
  <2> SUFFICES ASSUME TypeOK, Started, [Next]_vars PROVE TypeOK'
    OBVIOUS
  <2>1. ASSUME NEW d \in Contents \ {Missing}, Edit(d) PROVE TypeOK'
    BY <2>1, MaxEditsAssumption DEF Edit, MayEdit, TypeOK, serverVars, tableVars, Newest
  <2>2. CASE Remove
    BY <2>2 DEF Remove, TypeOK, serverVars, tableVars, Newest, Contents
  <2>3. CASE MainLoad
    BY <2>3, MayLoadType DEF MainLoad, TypeOK, fileVars, tableVars, Newest
  <2>4. CASE MainStart
    <3>1. tables' \in Seq(Tables) /\ Newest' = 1
      BY <2>4, TableStarted
    <3>2. checkers' \subseteq 1 .. Newest'
      BY <2>4, TableStarted
    <3>3. hidden' \in BOOLEAN
      BY <2>4, TableStarted DEF TypeOK
    <3>4. watcher' \in WatcherType
      BY <2>4 DEF MainStart, TypeOK, WatcherType
    <3> QED BY <2>4, <3>1, <3>2, <3>3, <3>4 DEF MainStart, TypeOK
  <2>5. CASE MainBindFails
    BY <2>5 DEF MainBindFails, TypeOK, fileVars, tableVars, Newest
  <2>6. CASE Crash \/ Restart
    <3>1. Boot
      BY <2>6 DEF Crash, Restart
    <3>2. watcher' \in WatcherType
      BY <3>1 DEF Boot, WatcherType
    <3>3. /\ tables' \in Seq(Tables) /\ Newest' = 0
          /\ proxyCur' = 0 /\ wasmCur' = 0 /\ checkers' = {}
      BY <3>1 DEF Boot, Newest
    <3>4. /\ disk' \in Contents /\ writes' \in 0 .. MaxEdits /\ mtime' \in 0 .. writes'
          /\ hidden' \in BOOLEAN
      BY <3>1 DEF Boot, TypeOK, fileVars
    <3> QED BY <3>1, <3>2, <3>3, <3>4, NoTaskType DEF Boot, TypeOK
  <2>7. CASE Baseline \/ Poll
    <3>1. mtime \in 0 .. MaxEdits
      BY MaxEditsAssumption DEF TypeOK
    <3>2. watcher' \in WatcherType
      BY <2>7, <3>1 DEF Baseline, Poll, ModifiedTime, TypeOK, WatcherType
    <3> QED BY <2>7, <3>2
            DEF Baseline, Poll, TypeOK, fileVars, serverVars, tableVars, Newest
  <2>8. CASE LoadConfig
    <3>1. tables' \in Seq(Tables) /\ Newest' = Newest + 1 /\ Newest \in Nat
      BY <2>8, TableAdded
    <3>2. watcher' \in WatcherType
      BY <2>8 DEF LoadConfig, TypeOK, WatcherType
    <3>3. hidden' \in BOOLEAN
      BY <2>8, TableAdded
    <3>4. UNCHANGED <<disk, mtime, writes, serverVars, proxyCur, wasmCur, checkers, req>>
      BY <2>8 DEF LoadConfig
    <3> QED BY <3>1, <3>2, <3>3, <3>4 DEF TypeOK, serverVars
  <2>9. CASE SpawnChecker \/ StoreProxy \/ StoreWasm
    <3>1. Newest \in Nat
      BY DEF TypeOK, Newest
    <3>2. CASE SpawnChecker
      <4>1. Newest \in 1 .. Newest
        BY <3>1, <3>2 DEF SpawnChecker, Started
      <4> QED BY <3>1, <3>2, <4>1 DEF SpawnChecker, TypeOK, WatcherType, fileVars, serverVars, Newest
    <3>3. CASE StoreProxy
      BY <3>1, <3>3 DEF StoreProxy, TypeOK, WatcherType, fileVars, serverVars, Newest
    <3>4. CASE StoreWasm
      BY <3>1, <3>4 DEF StoreWasm, TypeOK, WatcherType, fileVars, serverVars, Newest
    <3> QED BY <2>9, <3>2, <3>3, <3>4
  <2>10. ASSUME NEW r \in Requests, NEW p \in Paths, Arrive(r, p) \/ Serve(r)
         PROVE  TypeOK'
    BY <2>10, RequestSteps
       DEF TypeOK, OnlyRequests, fileVars, serverVars, tableVars, Newest
  <2>11. CASE UNCHANGED vars
    BY <2>11 DEF vars, fileVars, TypeOK, Newest
  <2> QED BY <2>1, <2>2, <2>3, <2>4, <2>5, <2>6, <2>7, <2>8, <2>9, <2>10, <2>11,
             PathsAssumption
          DEF Next, Main, Watcher
<1>3. TypeOK /\ Started /\ [Next]_vars => Started'
  <2> SUFFICES ASSUME TypeOK, Started, [Next]_vars PROVE Started'
    OBVIOUS
  <2> USE DEF Started, Newest
  <2>1. CASE UNCHANGED <<tables, watcher>>
    BY <2>1
  <2>2. CASE (\E d \in Contents \ {Missing} : Edit(d)) \/ Remove
    BY <2>1, <2>2 DEF Edit, Remove, tableVars
  <2>3. CASE MainLoad \/ MainBindFails
    BY <2>1, <2>3 DEF MainLoad, MainBindFails, tableVars
  <2>4. CASE MainStart
    BY <2>4 DEF MainStart
  <2>5. CASE Crash \/ Restart
    BY <2>5 DEF Crash, Restart, Boot
  <2>6. CASE Baseline
    BY <2>6 DEF Baseline, tableVars
  <2>7. CASE Poll
    BY <2>7 DEF Poll, tableVars
  <2>8. CASE LoadConfig
    BY <2>8, TableAdded
  <2>9. CASE SpawnChecker \/ StoreProxy \/ StoreWasm
    BY <2>9 DEF SpawnChecker, StoreProxy, StoreWasm
  <2>10. ASSUME NEW r \in Requests, NEW p \in Paths, Arrive(r, p) \/ Serve(r)
         PROVE  Started'
    BY <2>1, <2>10, RequestSteps DEF OnlyRequests, tableVars
  <2>11. CASE UNCHANGED vars
    BY <2>1, <2>11 DEF vars
  <2> QED BY <2>2, <2>3, <2>4, <2>5, <2>6, <2>7, <2>8, <2>9, <2>10, <2>11,
             PathsAssumption
          DEF Next, Main, Watcher
<1> QED BY <1>1, <1>2, <1>3, PTL DEF Spec

\* Every variable keeps its type: the numbers in the two ArcSwaps, and those of
\* the checkers, are always numbers of tables that have been built.
THEOREM TypeCorrect == Spec => []TypeOK
BY TypeStarted, PTL

-----------------------------------------------------------------------------
(***************************************************************************)
(* The order of the tables.  The WASM table in force is never newer than   *)
(* the proxy table in force, and only the watcher's place in its loop lets *)
(* them differ.                                                            *)
(***************************************************************************)

InOrder ==
  /\ main = "serving" <=> watcher.at # "none"
  /\ watcher.at = "none" => proxyCur = 0 /\ wasmCur = 0 /\ Newest = 0
  /\ watcher.at # "none" => 1 <= wasmCur
  /\ wasmCur <= proxyCur /\ proxyCur <= Newest
  /\ watcher.at \in {"baseline", "sleep", "load"} => wasmCur = Newest
  /\ watcher.at \in {"spawn", "proxy"} => proxyCur < Newest
  /\ watcher.at = "wasm" => proxyCur = Newest

\* How each kind of step moves the tables.
LEMMA TableSteps ==
  ASSUME TypeOK, InOrder, [Next]_vars
  PROVE  \/ /\ UNCHANGED <<tables, proxyCur, wasmCur>>
            /\ (main = "serving") = (main' = "serving")
            /\ watcher' = watcher
         \/ main' # "serving" /\ Boot
         \/ MainStart
         \/ Watcher
<1>1. ASSUME NEW d \in Contents, Edit(d) PROVE UNCHANGED <<tables, proxyCur, wasmCur, main, watcher>>
  BY <1>1 DEF Edit, serverVars, tableVars
<1>2. CASE Remove
  BY <1>2 DEF Remove, serverVars, tableVars
<1>3. CASE MainLoad \/ MainBindFails
  BY <1>3 DEF MainLoad, MainBindFails, tableVars
<1>4. CASE Crash \/ Restart
  BY <1>4 DEF Crash, Restart, Boot
<1>5. ASSUME NEW r \in Requests, NEW p \in Paths, Arrive(r, p) \/ Serve(r)
      PROVE  UNCHANGED <<tables, proxyCur, wasmCur, main, watcher>>
  BY <1>5, RequestSteps DEF OnlyRequests, tableVars, serverVars
<1>6. CASE UNCHANGED vars
  BY <1>6 DEF vars
<1> QED BY <1>1, <1>2, <1>3, <1>4, <1>5, <1>6, PathsAssumption DEF Next, Main

\* The watcher builds, stores the proxy table, then the WASM table; nobody else
\* touches them but main, once, and a crash.
LEMMA OrderStep == TypeOK /\ InOrder /\ [Next]_vars => InOrder'
<1> SUFFICES ASSUME TypeOK, InOrder, [Next]_vars PROVE InOrder'
  OBVIOUS
<1>0. /\ Newest \in Nat /\ proxyCur \in Nat /\ wasmCur \in Nat
      /\ watcher \in WatcherType /\ tables \in Seq(Tables)
  BY DEF TypeOK, Newest
<1>1. CASE /\ UNCHANGED <<tables, proxyCur, wasmCur>>
           /\ (main = "serving") = (main' = "serving")
           /\ watcher' = watcher
  BY <1>1 DEF InOrder, Newest
<1>2. CASE main' # "serving" /\ Boot
  BY <1>2 DEF Boot, InOrder, Newest
<1>3. CASE MainStart
  <2>1. watcher'.at = "baseline"
    BY <1>0, <1>3 DEF MainStart, WatcherType
  <2> QED BY <1>3, <2>1 DEF MainStart, InOrder, Newest
<1>4. CASE Watcher
  <2>0. main' = main
    BY <1>4 DEF Watcher, Baseline, Poll, LoadConfig, SpawnChecker, StoreProxy,
                StoreWasm, serverVars
  <2>1. CASE Baseline \/ Poll
    BY <1>0, <2>0, <2>1 DEF Baseline, Poll, InOrder, tableVars, Newest
  <2>2. CASE LoadConfig
    <3>1. Newest' = Newest + 1 /\ watcher'.at \in {"spawn", "proxy"}
      BY <2>2, TableAdded
    <3> QED BY <1>0, <2>0, <2>2, <3>1 DEF LoadConfig, InOrder
  <2>3. CASE SpawnChecker
    <3>1. watcher'.at = "proxy"
      BY <1>0, <2>3 DEF SpawnChecker, WatcherType
    <3> QED BY <1>0, <2>0, <2>3, <3>1 DEF SpawnChecker, InOrder, Newest
  <2>4. CASE StoreProxy
    <3>1. watcher'.at = "wasm"
      BY <1>0, <2>4 DEF StoreProxy, WatcherType
    <3> QED BY <1>0, <2>0, <2>4, <3>1 DEF StoreProxy, InOrder, Newest
  <2>5. CASE StoreWasm
    <3>1. watcher'.at = "sleep"
      BY <1>0, <2>5 DEF StoreWasm, WatcherType
    <3> QED BY <1>0, <2>0, <2>5, <3>1 DEF StoreWasm, InOrder, Newest
  <2> QED BY <1>4, <2>1, <2>2, <2>3, <2>4, <2>5 DEF Watcher
<1> QED BY <1>1, <1>2, <1>3, <1>4, TableSteps

\* The order of the tables holds throughout.
LEMMA TablesInOrder == Spec => []InOrder
<1>1. Init => InOrder
  BY DEF Init, InOrder, Newest
<1> QED BY <1>1, OrderStep, TypeCorrect, PTL DEF Spec

-----------------------------------------------------------------------------
(***************************************************************************)
(* Requests.  The two snapshots a request decides by lie between the       *)
(* tables in force when it arrived and those in force when it is answered. *)
(***************************************************************************)

\* One table between accounts for the proxy decision, one (perhaps another)
\* for the WASM decision.
Accounted(q) ==
  \E g, h \in q.from .. q.upto :
    IF q.answer = "proxy" THEN q.path \in tables[g].proxy
    ELSE /\ q.path \notin tables[g].proxy
         /\ q.answer = "wasm" <=> q.path \in tables[h].wasm

ReqOK(q) ==
  /\ q.at # "idle" => 1 <= q.from /\ main = "serving"
  /\ q.at \in {"proxy", "relay", "wasm"} => q.from <= wasmCur
  /\ q.at \in {"relay", "wasm"} => q.from <= q.seen /\ q.seen <= proxyCur
  /\ q.at = "relay" => q.path \in tables[q.seen].proxy
  /\ q.at = "wasm" => q.path \notin tables[q.seen].proxy
  /\ q.at = "answered" => q.upto <= Newest /\ Accounted(q)

RequestsOK == \A r \in Requests : ReqOK(req[r])

\* Tables are only added, and those in force only get newer.
Growth ==
  /\ main = "serving" => main' = "serving"
  /\ Newest <= Newest' /\ proxyCur <= proxyCur' /\ wasmCur <= wasmCur'
  /\ \A g \in 1 .. Newest : tables'[g] = tables[g]

\* A reload adds a table and puts newer ones in force.
LEMMA WatcherGrowth ==
  ASSUME TypeOK, InOrder, Watcher
  PROVE  Growth /\ req' = req
<1>0. /\ Newest \in Nat /\ proxyCur \in Nat /\ wasmCur \in Nat
      /\ tables \in Seq(Tables)
  BY DEF TypeOK, Newest
<1>1. main' = main /\ req' = req
  BY DEF Watcher, Baseline, Poll, LoadConfig, SpawnChecker, StoreProxy,
         StoreWasm, serverVars
<1>2. CASE Baseline \/ Poll \/ SpawnChecker
  <2>1. UNCHANGED <<tables, proxyCur, wasmCur>>
    BY <1>2 DEF Baseline, Poll, SpawnChecker, tableVars
  <2> QED BY <1>0, <1>1, <2>1 DEF Newest, Growth
<1>3. CASE LoadConfig
  <2>1. Newest' = Newest + 1 /\ \A g \in 1 .. Newest : tables'[g] = tables[g]
    BY <1>3, TableAdded
  <2>2. proxyCur' = proxyCur /\ wasmCur' = wasmCur
    BY <1>3 DEF LoadConfig
  <2> QED BY <1>0, <1>1, <2>1, <2>2 DEF Growth
<1>4. CASE StoreProxy \/ StoreWasm
  <2>1. tables' = tables /\ Newest' = Newest
    BY <1>4 DEF StoreProxy, StoreWasm, Newest
  <2>2. wasmCur <= Newest /\ proxyCur <= Newest
    BY <1>0 DEF InOrder
  <2>3. CASE StoreProxy
    BY <1>0, <1>1, <2>1, <2>2, <2>3 DEF StoreProxy, Growth
  <2>4. CASE StoreWasm
    BY <1>0, <1>1, <2>1, <2>2, <2>4 DEF StoreWasm, Growth
  <2> QED BY <1>4, <2>3, <2>4
<1> QED BY <1>2, <1>3, <1>4 DEF Watcher

\* What holds of a request goes on holding while the tables grow.
LEMMA GrowthKeeps ==
  ASSUME TypeOK, TypeOK', InOrder, Growth, NEW q \in RequestType, ReqOK(q)
  PROVE  ReqOK(q)'
<1>0. /\ Newest \in Nat /\ proxyCur \in Nat /\ wasmCur \in Nat
      /\ wasmCur <= proxyCur /\ proxyCur <= Newest
      /\ Newest <= Newest' /\ proxyCur <= proxyCur' /\ wasmCur <= wasmCur'
      /\ main = "serving" => main' = "serving"
      /\ \A g \in 1 .. Newest : tables'[g] = tables[g]
      /\ q.from \in Nat /\ q.seen \in Nat /\ q.upto \in Nat
  BY DEF TypeOK, Newest, InOrder, Growth, RequestType
<1>1. Newest' \in Nat /\ proxyCur' \in Nat /\ wasmCur' \in Nat
  BY DEF TypeOK, Newest
<1>2. q.at \in {"relay", "wasm"} => tables'[q.seen] = tables[q.seen]
  BY <1>0 DEF ReqOK
<1>3. q.at = "answered" =>
        q.upto <= Newest' /\ \A g \in q.from .. q.upto : tables'[g] = tables[g]
  BY <1>0, <1>1 DEF ReqOK
<1>4. q.at = "answered" => Accounted(q)'
  BY <1>3 DEF ReqOK, Accounted
<1> QED BY <1>0, <1>1, <1>2, <1>3, <1>4 DEF ReqOK

\* The steps of a request itself.
LEMMA RequestKeeps ==
  ASSUME TypeOK, InOrder, RequestsOK, NEW r \in Requests, NEW p \in Paths,
         Arrive(r, p) \/ Serve(r)
  PROVE  ReqOK(req[r])'
<1>0. /\ Newest \in Nat /\ proxyCur \in Nat /\ wasmCur \in Nat
      /\ wasmCur <= proxyCur /\ proxyCur <= Newest
      /\ req \in [Requests -> RequestType] /\ req[r] \in RequestType
      /\ req[r].from \in Nat /\ req[r].seen \in Nat
  BY DEF TypeOK, Newest, InOrder, RequestType
<1>1. ReqOK(req[r])
  BY DEF RequestsOK
<1>2. UNCHANGED <<main, tables, proxyCur, wasmCur, Newest>>
  BY RequestSteps DEF OnlyRequests, serverVars, tableVars, Newest
<1>3. CASE Arrive(r, p)
  <2>1. req'[r].at = "proxy" /\ req'[r].from = wasmCur
    BY <1>0, <1>3 DEF Arrive, Idle
  <2>2. main = "serving" /\ 1 <= wasmCur
    BY <1>3 DEF Arrive, InOrder
  <2> QED BY <1>0, <1>2, <2>1, <2>2 DEF ReqOK
<1>4. CASE MatchProxy(r)
  <2>1. /\ req[r].at = "proxy"
        /\ req'[r].path = req[r].path /\ req'[r].from = req[r].from
        /\ req'[r].seen = proxyCur
        /\ req'[r].at = IF req[r].path \in tables[proxyCur].proxy
                        THEN "relay" ELSE "wasm"
    BY <1>0, <1>4 DEF MatchProxy, RequestType
  <2>2. req[r].from <= proxyCur
    BY <1>0, <1>1, <2>1 DEF ReqOK
  <2> QED BY <1>0, <1>1, <1>2, <2>1, <2>2 DEF ReqOK
<1>5. CASE Relayed(r)
  <2>1. /\ req[r].at = "relay"
        /\ req'[r].path = req[r].path /\ req'[r].from = req[r].from
        /\ req'[r].upto = proxyCur /\ req'[r].answer = "proxy"
        /\ req'[r].at = "answered"
    BY <1>0, <1>5 DEF Relayed, RequestType
  <2>2. req[r].seen \in req[r].from .. proxyCur
        /\ req[r].path \in tables[req[r].seen].proxy
    BY <1>0, <1>1, <2>1 DEF ReqOK
  <2>3. Accounted(req[r])'
    BY <1>2, <2>1, <2>2 DEF Accounted
  <2> QED BY <1>0, <1>1, <1>2, <2>1, <2>3 DEF ReqOK
<1>6. CASE MatchWasm(r)
  <2>1. /\ req[r].at = "wasm"
        /\ req'[r].path = req[r].path /\ req'[r].from = req[r].from
        /\ req'[r].upto = proxyCur /\ req'[r].at = "answered"
        /\ req'[r].answer = IF req[r].path \in tables[wasmCur].wasm
                            THEN "wasm" ELSE "static"
    BY <1>0, <1>6 DEF MatchWasm, RequestType
  <2>2. req[r].seen \in req[r].from .. proxyCur
        /\ req[r].path \notin tables[req[r].seen].proxy
    BY <1>0, <1>1, <2>1 DEF ReqOK
  <2>3. wasmCur \in req[r].from .. proxyCur
    BY <1>0, <1>1, <2>1 DEF ReqOK
  <2>4. Accounted(req[r])'
    BY <1>2, <2>1, <2>2, <2>3 DEF Accounted
  <2> QED BY <1>0, <1>1, <1>2, <2>1, <2>4 DEF ReqOK
<1>7. CASE Done(r)
  <2>1. req'[r].at = "idle"
    BY <1>0, <1>7 DEF Done, Idle
  <2> QED BY <2>1 DEF ReqOK
<1> QED BY <1>3, <1>4, <1>5, <1>6, <1>7 DEF Serve

\* Every step keeps the account of every request.
LEMMA RequestsStep ==
  TypeOK /\ TypeOK' /\ InOrder /\ RequestsOK /\ [Next]_vars => RequestsOK'
<1> SUFFICES ASSUME TypeOK, TypeOK', InOrder, RequestsOK, [Next]_vars,
                    NEW q \in Requests
             PROVE  ReqOK(req[q])'
  BY DEF RequestsOK
<1>0. req[q] \in RequestType /\ ReqOK(req[q])
  BY DEF TypeOK, RequestsOK
<1>1. ASSUME Growth, req'[q] = req[q] PROVE ReqOK(req[q])'
  BY <1>0, <1>1, GrowthKeeps DEF ReqOK, Accounted
<1>2. ASSUME UNCHANGED <<tables, proxyCur, wasmCur, main, req>>
      PROVE  ReqOK(req[q])'
  BY <1>0, <1>2 DEF ReqOK, Accounted, Newest
<1>3. ASSUME NEW d \in Contents, Edit(d) PROVE ReqOK(req[q])'
  BY <1>2, <1>3 DEF Edit, serverVars, tableVars
<1>4. CASE Remove
  BY <1>2, <1>4 DEF Remove, serverVars, tableVars
<1>5. CASE MainLoad \/ MainBindFails \/ MainStart
  <2>1. req[q].at = "idle"
    BY <1>0, <1>5 DEF ReqOK, MainLoad, MainBindFails, MainStart
  <2>2. req' = req
    BY <1>5 DEF MainLoad, MainBindFails, MainStart
  <2> QED BY <2>1, <2>2 DEF ReqOK
<1>6. CASE Crash \/ Restart
  <2>1. req'[q].at = "idle"
    BY <1>6 DEF Crash, Restart, Boot, NoTask, Idle
  <2> QED BY <2>1 DEF ReqOK
<1>7. CASE Watcher
  BY <1>1, <1>7, WatcherGrowth
<1>8. ASSUME NEW r \in Requests, NEW p \in Paths, Arrive(r, p) \/ Serve(r)
      PROVE  ReqOK(req[q])'
  <2>1. CASE r = q
    BY <1>8, <2>1, RequestKeeps
  <2>2. CASE r # q
    <3>1. req'[q] = req[q]
      BY <1>8, <2>2 DEF TypeOK, Arrive, Serve, MatchProxy, Relayed, MatchWasm, Done
    <3>2. UNCHANGED <<tables, proxyCur, wasmCur, main>>
      BY <1>8, RequestSteps DEF OnlyRequests, serverVars, tableVars
    <3> QED BY <1>0, <3>1, <3>2 DEF ReqOK, Accounted, Newest
  <2> QED BY <2>1, <2>2
<1>9. CASE UNCHANGED vars
  BY <1>2, <1>9 DEF vars
<1> QED BY <1>3, <1>4, <1>5, <1>6, <1>7, <1>8, <1>9, PathsAssumption DEF Next, Main

\* All requests, throughout.
LEMMA RequestsAccounted == Spec => []RequestsOK
<1>1. Init => RequestsOK
  BY DEF Init, NoTask, Idle, RequestsOK, ReqOK
<1> QED BY <1>1, RequestsStep, TypeCorrect, TablesInOrder, PTL DEF Spec

\* A path that every table in force during a request sends to the same handler
\* is answered by that handler, whatever the watcher stores meanwhile.
THEOREM ReloadLeavesRequestsAlone == Spec => []UnaffectedByReload
<1>1. TypeOK /\ RequestsOK => UnaffectedByReload
  <2> SUFFICES ASSUME TypeOK, NEW r \in Requests, ReqOK(req[r]), req[r].at = "answered",
                      NEW h \in Handlers,
                      \A g \in req[r].from .. req[r].upto :
                        Decide(tables[g], req[r].path) = h
               PROVE  req[r].answer = h
    BY DEF RequestsOK, UnaffectedByReload
  <2>1. req[r].answer \in Handlers
    BY DEF TypeOK, RequestType
  <2>2. Accounted(req[r])
    BY DEF ReqOK
  <2> QED BY <2>1, <2>2 DEF Accounted, Decide, Handlers
<1> QED BY <1>1, RequestsAccounted, TypeCorrect, PTL

-----------------------------------------------------------------------------
(***************************************************************************)
(* Health checkers: only the table the watcher is about to give a checker  *)
(* may lack one.                                                           *)
(***************************************************************************)

Checked ==
  \A g \in 1 .. Newest :
    \/ tables[g].proxy = {}
    \/ g \in checkers
    \/ g = Newest /\ watcher.at = "spawn"

\* The watcher spawns the checker of a table before it can store it.
LEMMA CheckedStep ==
  TypeOK /\ InOrder /\ Checked /\ [Next]_vars => Checked'
<1> SUFFICES ASSUME TypeOK, InOrder, Checked, [Next]_vars PROVE Checked'
  OBVIOUS
<1>0. Newest \in Nat /\ tables \in Seq(Tables) /\ watcher \in WatcherType
  BY DEF TypeOK, Newest
<1>1. ASSUME UNCHANGED <<tables, checkers>>, watcher.at # "spawn" \/ watcher' = watcher
      PROVE  Checked'
  BY <1>1 DEF Checked, Newest
<1>2. (\E d \in Contents : Edit(d)) \/ Remove \/ MainLoad \/ MainBindFails => Checked'
  BY <1>1 DEF Edit, Remove, MainLoad, MainBindFails, tableVars
<1>3. CASE MainStart
  <2>1. Newest' = 1 /\ (tables'[1].proxy # {} => 1 \in checkers')
    BY <1>3, TableStarted
  <2> QED BY <2>1 DEF Checked
<1>4. CASE Crash \/ Restart
  <2>1. Newest' = 0
    BY <1>4 DEF Crash, Restart, Boot, Newest
  <2> QED BY <2>1 DEF Checked
<1>5. CASE Baseline \/ Poll \/ StoreProxy \/ StoreWasm
  BY <1>1, <1>5 DEF Baseline, Poll, StoreProxy, StoreWasm, tableVars
<1>6. CASE LoadConfig
  <2>1. /\ Newest' = Newest + 1
        /\ \A g \in 1 .. Newest : tables'[g] = tables[g]
        /\ tables'[Newest'].proxy # {} => watcher'.at = "spawn"
    BY <1>6, TableAdded
  <2>2. watcher.at # "spawn" /\ checkers' = checkers
    BY <1>6 DEF LoadConfig
  <2> QED BY <1>0, <2>1, <2>2 DEF Checked
<1>7. CASE SpawnChecker
  BY <1>0, <1>7 DEF SpawnChecker, Checked, Newest
<1>8. ASSUME NEW r \in Requests, NEW p \in Paths, Arrive(r, p) \/ Serve(r)
      PROVE  Checked'
  BY <1>1, <1>8, RequestSteps DEF OnlyRequests, tableVars
<1>9. CASE UNCHANGED vars
  BY <1>1, <1>9 DEF vars
<1> QED BY <1>2, <1>3, <1>4, <1>5, <1>6, <1>7, <1>8, <1>9, PathsAssumption
        DEF Next, Main, Watcher

\* A proxy table is given its health checker before any request can use it.
THEOREM NoTableUnchecked == Spec => []CheckedBeforeServed
<1>1. Init => Checked
  BY DEF Init, Checked, Newest
<1>2. TypeOK /\ InOrder /\ RequestsOK /\ Checked => CheckedBeforeServed
  <2> SUFFICES ASSUME TypeOK, InOrder, RequestsOK, Checked, NEW g,
                      \/ g = proxyCur
                      \/ \E r \in Requests : req[r].at = "relay" /\ g = req[r].seen,
                      g > 0, tables[g].proxy # {}
               PROVE  g \in checkers
    BY DEF CheckedBeforeServed
  <2>1. /\ proxyCur \in Nat /\ Newest \in Nat /\ proxyCur <= Newest
        /\ watcher.at = "spawn" => proxyCur < Newest
    BY DEF TypeOK, InOrder, Newest
  <2>2. g \in Nat /\ g <= proxyCur
    BY <2>1 DEF RequestsOK, ReqOK, TypeOK, RequestType
  <2>3. g \in 1 .. Newest /\ (g = Newest => watcher.at # "spawn")
    BY <2>1, <2>2
  <2> QED BY <2>3 DEF Checked
<1> QED BY <1>1, <1>2, CheckedStep, RequestsAccounted, TypeCorrect, TablesInOrder, PTL
        DEF Spec

-----------------------------------------------------------------------------
(***************************************************************************)
(* Nothing is missed.  The newest tables are what the file says, unless    *)
(* the file's modification time tells otherwise.                           *)
(***************************************************************************)

UpToDate == disk # Missing => tables[Newest] = Build(Load(disk))

NoEditMissed ==
  /\ watcher.last <= mtime
  /\ ~ hidden =>
       /\ main = "start" /\ disk # Missing => cfg = Load(disk)
       /\ watcher.at = "baseline" => UpToDate
       /\ watcher.at \in {"sleep", "spawn", "proxy", "wasm"} /\ watcher.last = mtime
            => UpToDate

\* An edit after the load gets a time that last_modified does not have yet.
LEMMA NoEditMissedStep ==
  TypeOK /\ InOrder /\ NoEditMissed /\ [Next]_vars => NoEditMissed'
<1> SUFFICES ASSUME TypeOK, InOrder, NoEditMissed, [Next]_vars PROVE NoEditMissed'
  OBVIOUS
<1>0. /\ Newest \in Nat /\ tables \in Seq(Tables) /\ watcher \in WatcherType
      /\ watcher.last \in Int /\ mtime \in Nat /\ writes \in Nat /\ mtime <= writes
  BY MaxEditsAssumption DEF TypeOK, Newest, WatcherType, NoTime
<1>1. ASSUME UNCHANGED <<disk, mtime, hidden, main, cfg, tables, watcher>> PROVE NoEditMissed'
  BY <1>1 DEF NoEditMissed, UpToDate, Newest
<1>2. ASSUME NEW d \in Contents, Edit(d) PROVE NoEditMissed'
  <2>1. /\ mtime' \in {mtime, writes + 1} /\ watcher' = watcher /\ main' = main
        /\ hidden' = (mtime' = mtime \/ watcher.at \in {"none", "baseline"})
    BY <1>2 DEF Edit, serverVars
  <2>2. watcher'.last <= mtime'
    BY <1>0, <2>1 DEF NoEditMissed
  <2>3. ASSUME ~ hidden'
        PROVE  /\ watcher'.last # mtime' /\ watcher'.at \notin {"none", "baseline"}
               /\ main' # "start"
    <3>1. mtime' # mtime /\ watcher.at \notin {"none", "baseline"}
      BY <2>1, <2>3
    <3>2. mtime' = writes + 1
      BY <2>1, <3>1
    <3>3. watcher'.last # mtime'
      BY <1>0, <2>1, <3>2 DEF NoEditMissed
    <3> QED BY <2>1, <3>1, <3>3 DEF InOrder
  <2> QED BY <2>2, <2>3 DEF NoEditMissed
<1>3. CASE Remove
  <2>1. disk' = Missing /\ UNCHANGED <<mtime, watcher>>
    BY <1>3 DEF Remove
  <2> QED BY <2>1 DEF NoEditMissed, UpToDate
<1>4. CASE MainLoad
  <2>1. watcher.at = "none"
    BY <1>4 DEF MainLoad, InOrder
  <2>2. main' = "start" /\ hidden' = (cfg' # Load(disk)) /\ UNCHANGED <<disk, mtime, watcher>>
    BY <1>4 DEF MainLoad
  <2> QED BY <1>0, <2>1, <2>2 DEF NoEditMissed
<1>5. CASE MainStart
  <2>1. Newest' = 1 /\ (~ hidden' => ~ hidden /\ tables'[1] = Build(cfg))
    BY <1>5, TableStarted
  <2>2. main = "start" /\ disk' = disk
    BY <1>5 DEF MainStart
  <2>3. ~ hidden' /\ disk # Missing => tables'[1] = Build(Load(disk))
    BY <2>1, <2>2 DEF NoEditMissed
  <2>4. watcher'.at = "baseline" /\ watcher'.last = watcher.last /\ mtime' = mtime
        /\ main' = "serving"
    BY <1>0, <1>5 DEF MainStart, WatcherType
  <2> QED BY <1>0, <2>1, <2>2, <2>3, <2>4 DEF NoEditMissed, UpToDate
<1>6. CASE MainBindFails
  BY <1>6 DEF MainBindFails, NoEditMissed, UpToDate, fileVars, tableVars, Newest
<1>7. CASE Crash \/ Restart
  <2>1. main' = "load" /\ watcher'.at = "none" /\ watcher'.last = NoTime /\ mtime' = mtime
    BY <1>7 DEF Crash, Restart, Boot, fileVars
  <2>2. watcher'.last <= mtime'
    BY <1>0, <2>1 DEF NoTime
  <2> QED BY <2>1, <2>2 DEF NoEditMissed
<1>8. CASE Baseline
  <2>1. watcher'.at = "sleep" /\ UNCHANGED <<disk, mtime, hidden, main, cfg, tables, Newest>>
    BY <1>8 DEF Baseline, fileVars, serverVars, tableVars, Newest
  <2>2. watcher'.last = IF disk = Missing THEN NoTime ELSE mtime
    BY <1>8 DEF Baseline, ModifiedTime
  <2>3. watcher'.last <= mtime'
    BY <1>0, <2>1, <2>2 DEF NoTime
  <2>4. ~ hidden' => UpToDate'
    BY <1>8, <2>1 DEF Baseline, NoEditMissed, UpToDate
  <2> QED BY <1>8, <2>1, <2>3, <2>4 DEF NoEditMissed
<1>9. CASE Poll
  BY <1>0, <1>9 DEF Poll, NoEditMissed, fileVars, serverVars
<1>10. CASE LoadConfig
  <2>1. /\ ~ hidden' => tables'[Newest'] = Build(Load(disk))
        /\ watcher'.last = watcher.last /\ watcher'.at \in {"spawn", "proxy"}
    BY <1>0, <1>10, TableAdded
  <2>2. UNCHANGED <<disk, mtime, main, cfg>>
    BY <1>10 DEF LoadConfig, serverVars
  <2>3. main # "start"
    BY <1>10 DEF LoadConfig, InOrder
  <2> QED BY <2>3, <2>1, <2>2 DEF NoEditMissed, UpToDate
<1>11. CASE SpawnChecker \/ StoreProxy \/ StoreWasm
  <2>1. UNCHANGED <<disk, mtime, hidden, main, cfg, tables, Newest>>
    BY <1>11 DEF SpawnChecker, StoreProxy, StoreWasm, fileVars, serverVars, Newest
  <2>2. /\ watcher'.last = watcher.last
        /\ watcher.at \in {"spawn", "proxy", "wasm"}
        /\ watcher'.at \in {"proxy", "wasm", "sleep"}
    BY <1>0, <1>11 DEF SpawnChecker, StoreProxy, StoreWasm, WatcherType
  <2> QED BY <2>1, <2>2 DEF NoEditMissed, UpToDate
<1>12. ASSUME NEW r \in Requests, NEW p \in Paths, Arrive(r, p) \/ Serve(r)
       PROVE  NoEditMissed'
  BY <1>1, <1>12, RequestSteps DEF OnlyRequests, fileVars, serverVars, tableVars
<1>13. CASE UNCHANGED vars
  BY <1>1, <1>13 DEF vars, fileVars
<1> QED BY <1>2, <1>3, <1>4, <1>5, <1>6, <1>7, <1>8, <1>9, <1>10, <1>11, <1>12,
           <1>13, PathsAssumption
        DEF Next, Main, Watcher

\* A sleeping watcher that sees nothing new leaves tables in force that say
\* what the file says, unless it was changed without a sign or not read.
THEOREM ReloadsCatchUp == Spec => []CaughtUp
<1>1. Init => NoEditMissed
  BY DEF Init, NoEditMissed, NoTime
<1>2. TypeOK /\ InOrder /\ NoEditMissed => CaughtUp
  BY DEF TypeOK, InOrder, NoEditMissed, UpToDate, CaughtUp, Newest
<1> QED BY <1>1, <1>2, NoEditMissedStep, TypeCorrect, TablesInOrder, PTL DEF Spec

=============================================================================
