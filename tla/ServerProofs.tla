---------------------------- MODULE ServerProofs ----------------------------
(***************************************************************************)
(* Theorems about Server: what is proved of HotReload holds of it, and its *)
(* flags fit its tables.                                                   *)
(***************************************************************************)
EXTENDS ServerProps, HotReloadAtomicProofs

\* What HotReload's variables do in a step of the whole.
Quiet == UNCHANGED vars

-----------------------------------------------------------------------------
(***************************************************************************)
(* Server implements HotReload.                                            *)
(***************************************************************************)

\* Each step is one of HotReload's or does not concern it.
LEMMA StepImplements == [ServerNext]_allVars => [Next]_vars
<1> SUFFICES ASSUME [ServerNext]_allVars PROVE Next \/ Quiet
  BY DEF Quiet
<1>1. CASE UNCHANGED allVars
  BY <1>1 DEF allVars, Quiet
<1>2. CASE MainStep \/ WatcherStep \/ CrashStep
  BY <1>2 DEF MainStep, WatcherStep, CrashStep, Next
<1>3. CASE EditStep
  BY <1>3 DEF EditStep, Next
<1>4. CASE Trouble
  BY <1>4 DEF Trouble, Quiet
<1>5. ASSUME NEW g \in Generations, Probe(g) PROVE Quiet
  BY <1>5 DEF Probe, Quiet
<1>6. ASSUME NEW r \in Requests, ArriveStep(r) \/ ServeStep(r) PROVE Next \/ Quiet
  <2>1. CASE ArriveStep(r)
    <3>1. PICK p \in Paths : Arrive(r, p)
      BY <2>1 DEF ArriveStep
    <3> QED BY <3>1 DEF Next
  <2>2. CASE MatchStep(r) \/ RelayStep(r) \/ DoneStep(r)
    BY <2>2 DEF MatchStep, RelayStep, DoneStep, Serve, Next
  <2>3. CASE Pick(r)
    BY <2>3 DEF Pick, Quiet
  <2> QED BY <1>6, <2>1, <2>2, <2>3 DEF ServeStep
<1> QED BY <1>1, <1>2, <1>3, <1>4, <1>5, <1>6 DEF ServerNext

\* Requests that are relayed, checkers that probe and upstreams that come and go
\* leave the reload protocol as it is (listener.rs:135-183).
THEOREM ServerIsHotReload == ServerSpec => Spec
<1>1. ServerInit => Init
  BY DEF ServerInit
<1> QED BY <1>1, StepImplements, PTL DEF ServerSpec, Spec

\* So no table is relayed by without a checker of its own, no reload answers a
\* request from a table that does not concern it, and requests for paths of one
\* kind see the routes of one moment (listener.rs:166-175, connection.rs:44-46).
THEOREM ServerReloads ==
  ServerSpec => /\ []CheckedBeforeServed
                /\ []UnaffectedByReload
                /\ RoutesAtomic
BY ServerIsHotReload, NoTableUnchecked, ReloadLeavesRequestsAlone, ReloadIsAtomic, PTL

\* And no edit that shows is missed (listener.rs:149-175).
THEOREM ServerCatchesUp == ServerSpec => []CaughtUp
BY ServerIsHotReload, ReloadsCatchUp, PTL

-----------------------------------------------------------------------------
(***************************************************************************)
(* Flags and relays.                                                       *)
(***************************************************************************)

\* Every table has flags, of its own targets.
FlagsOK ==
  /\ dead \in Seq(SUBSET Targets) /\ round \in Seq(SUBSET Targets)
  /\ Len(dead) = Newest /\ Len(round) = Newest
  /\ \A g \in 1 .. Newest :
       dead[g] \subseteq TargetsOf(tables[g]) /\ round[g] \subseteq TargetsOf(tables[g])

\* A request has been relayed with a status.
RelaysOK ==
  /\ relay \in [Requests -> RelayType]
  /\ \A r \in Requests :
       req[r].at = "answered" /\ req[r].answer = "proxy" => relay[r].status # 0

WorldOK ==
  up \cup unwell \subseteq Hosts /\ short \in BOOLEAN /\ troubles \in 0 .. MaxTroubles

\* What is listed for 1 to n is a sequence of n.
LEMMA Listed ==
  ASSUME NEW S, NEW n \in Nat, NEW f \in [1 .. n -> S]
  PROVE  f \in Seq(S) /\ Len(f) = n
OBVIOUS

\* New flags, as long as no table that has some is changed.
LEMMA NewFlags ==
  ASSUME FlagsOK, Flags, Newest \in Nat, Newest' \in Nat,
         \A g \in 1 .. Newest' : g <= Newest => tables'[g] = tables[g]
  PROVE  FlagsOK'
<1>1. \A g \in 1 .. Newest' : g <= Newest => g \in 1 .. Newest
  OBVIOUS
<1>2. \A t : TargetsOf(t) \subseteq Targets
  BY DEF TargetsOf
<1>3. \A g \in 1 .. Newest : dead[g] \subseteq Targets /\ round[g] \subseteq Targets
  BY <1>2 DEF FlagsOK
<1>4. /\ dead' = [g \in 1 .. Newest' |-> IF g <= Newest THEN dead[g] ELSE {}]
      /\ round' = [g \in 1 .. Newest' |->
                     IF g <= Newest THEN round[g] ELSE TargetsOf(tables'[g])]
  BY DEF Flags
<1>5. /\ dead' \in Seq(SUBSET Targets) /\ Len(dead') = Newest'
      /\ round' \in Seq(SUBSET Targets) /\ Len(round') = Newest'
  <2>1. \A g \in 1 .. Newest' : (IF g <= Newest THEN dead[g] ELSE {}) \in SUBSET Targets
    BY <1>1, <1>3
  <2>2. \A g \in 1 .. Newest' :
          (IF g <= Newest THEN round[g] ELSE TargetsOf(tables'[g])) \in SUBSET Targets
    BY <1>1, <1>2, <1>3
  <2>3. dead' \in [1 .. Newest' -> SUBSET Targets]
    BY <1>4, <2>1, Zenon
  <2>4. round' \in [1 .. Newest' -> SUBSET Targets]
    BY <1>4, <2>2, Zenon
  <2> QED BY <2>3, <2>4, Listed
<1>6. ASSUME NEW g \in 1 .. Newest'
      PROVE  dead'[g] \subseteq TargetsOf(tables'[g]) /\ round'[g] \subseteq TargetsOf(tables'[g])
  <2>1. CASE g <= Newest
    BY <1>1, <1>4, <2>1 DEF FlagsOK
  <2>2. CASE ~ (g <= Newest)
    BY <1>4, <2>2
  <2> QED BY <2>1, <2>2
<1> QED BY <1>5, <1>6 DEF FlagsOK

\* Main and the watcher change no table that has flags.
LEMMA TablesKept ==
  ASSUME TypeOK, TypeOK', InOrder, Main \/ Watcher
  PROVE  /\ Newest \in Nat /\ Newest' \in Nat
         /\ \A g \in 1 .. Newest' : g <= Newest => tables'[g] = tables[g]
<1>1. Newest \in Nat /\ Newest' \in Nat
  BY DEF TypeOK, Newest
<1>2. CASE UNCHANGED tables
  BY <1>1, <1>2
<1>3. CASE MainStart
  <2>1. Newest = 0
    <3>1. main # "serving"
      BY <1>3 DEF MainStart
    <3> QED BY <3>1 DEF InOrder
  <2> QED BY <1>1, <2>1
<1>4. CASE tables' = <<>>
  BY <1>1, <1>4 DEF Newest
<1>5. CASE LoadConfig
  BY <1>1, <1>5, TableAdded
<1>6. \/ UNCHANGED tables \/ MainStart \/ tables' = <<>> \/ LoadConfig
  BY DEF Main, Watcher, MainLoad, MainBindFails, Restart, Boot, Baseline, Poll, SpawnChecker,
         StoreProxy, StoreWasm, tableVars
<1> QED BY <1>1, <1>2, <1>3, <1>4, <1>5, <1>6

\* A probe sets or clears the flag of one of its table's targets.
LEMMA ProbeFlags ==
  ASSUME TypeOK, FlagsOK, NEW g \in Generations, Probe(g)
  PROVE  FlagsOK'
<1> DEFINE x == CHOOSE y \in round[g] : TRUE
           T == TargetsOf(tables[g])
           d(ok) == IF ok THEN dead[g] \ {x} ELSE dead[g] \cup {x}
           o == IF round[g] = {x} THEN T ELSE round[g] \ {x}
<1>1. g \in 1 .. Newest
  BY DEF Probe, TypeOK
<1>2. UNCHANGED vars /\ tables' = tables /\ Newest' = Newest
  BY DEF Probe, vars, Newest
<1>3. round' = [round EXCEPT ![g] = o]
  BY DEF Probe
<1>ok. PICK ok \in Connects(x[2]) : dead' = [dead EXCEPT ![g] = d(ok)]
  BY DEF Probe
<1>4. dead[g] \subseteq T /\ round[g] \subseteq T /\ T \subseteq Targets
  BY <1>1 DEF FlagsOK, TargetsOf
<1> HIDE DEF T
<1>5. x \in round[g]
  BY DEF Probe
<1> HIDE DEF x
<1>6. d(ok) \subseteq T /\ o \subseteq T
  BY <1>4, <1>5
<1> HIDE DEF d, o
<1>7. /\ dead' \in Seq(SUBSET Targets) /\ Len(dead') = Newest'
      /\ round' \in Seq(SUBSET Targets) /\ Len(round') = Newest'
  BY <1>1, <1>2, <1>3, <1>ok, <1>4, <1>6 DEF FlagsOK
<1>8. ASSUME NEW k \in 1 .. Newest
      PROVE  dead'[k] \subseteq TargetsOf(tables[k]) /\ round'[k] \subseteq TargetsOf(tables[k])
  BY <1>1, <1>3, <1>ok, <1>6 DEF FlagsOK, T
<1> QED BY <1>2, <1>7, <1>8 DEF FlagsOK

\* Every step keeps flags, relays and the world in order.
LEMMA ServerStep ==
  TypeOK /\ TypeOK' /\ InOrder /\ FlagsOK /\ RelaysOK /\ WorldOK /\ [ServerNext]_allVars
    => FlagsOK' /\ RelaysOK' /\ WorldOK'
<1> SUFFICES ASSUME TypeOK, TypeOK', InOrder, FlagsOK, RelaysOK, WorldOK, [ServerNext]_allVars
             PROVE  FlagsOK' /\ RelaysOK' /\ WorldOK'
  OBVIOUS
<1>0. NoRelay \in RelayType /\ troubles \in Nat
  BY TroublesAssumption DEF NoRelay, RelayType, WorldOK
<1>w. ASSUME UNCHANGED world PROVE WorldOK'
  BY <1>w DEF world, WorldOK
<1>a. ASSUME UNCHANGED <<tables, dead, round>> PROVE FlagsOK'
  BY <1>a DEF FlagsOK, Newest
<1>1. CASE UNCHANGED allVars
  BY <1>1, <1>a, <1>w DEF allVars, vars, proxyVars, RelaysOK
<1>2. CASE MainStep \/ WatcherStep
  <2>1. (Main \/ Watcher) /\ Flags /\ UNCHANGED <<world, relay>>
    BY <1>2 DEF MainStep, WatcherStep
  <2>2. FlagsOK'
    BY <2>1, TablesKept, NewFlags
  <2>3. req' = req \/ \A r \in Requests : req'[r].at = "idle"
    BY <2>1 DEF Main, Watcher, MainLoad, MainStart, MainBindFails, Restart, Boot, Baseline, Poll,
                LoadConfig, SpawnChecker, StoreProxy, StoreWasm, NoTask, Idle
  <2> QED BY <2>1, <2>2, <2>3, <1>w DEF RelaysOK
<1>3. CASE EditStep
  <2>1. UNCHANGED <<tables, req, world, dead, round, relay>>
    BY <1>3 DEF EditStep, Remove, Edit, tableVars, proxyVars
  <2> QED BY <2>1, <1>a, <1>w DEF RelaysOK
<1>4. CASE CrashStep
  <2>1. /\ tables' = <<>> /\ dead' = <<>> /\ round' = <<>>
        /\ relay' = [r \in Requests |-> NoRelay] /\ req' = NoTask
        /\ UNCHANGED <<up, unwell>> /\ short' = FALSE
        /\ troubles' = troubles + 1 /\ troubles < MaxTroubles
    BY <1>4 DEF CrashStep, Crash, Boot
  <2>2. FlagsOK'
    BY <2>1 DEF FlagsOK, Newest
  <2>3. RelaysOK'
    BY <1>0, <2>1 DEF RelaysOK, NoTask, Idle
  <2>4. troubles' \in 0 .. MaxTroubles
    BY <1>0, <2>1, TroublesAssumption
  <2>5. WorldOK'
    BY <2>1, <2>4 DEF WorldOK
  <2> QED BY <2>2, <2>3, <2>5
<1>5. CASE Trouble
  <2>1. UNCHANGED <<tables, req, dead, round, relay>>
    BY <1>5 DEF Trouble, vars
  <2>2. troubles' \in 0 .. MaxTroubles
    BY <1>0, <1>5, TroublesAssumption DEF Trouble, WorldOK
  <2>3. up' \cup unwell' \subseteq Hosts /\ short' \in BOOLEAN
    BY <1>5 DEF Trouble, Toggle, WorldOK
  <2> QED BY <2>1, <2>2, <2>3, <1>a DEF RelaysOK, WorldOK
<1>6. ASSUME NEW g \in Generations, Probe(g) PROVE FlagsOK' /\ RelaysOK' /\ WorldOK'
  <2>1. UNCHANGED <<req, world, relay>>
    BY <1>6 DEF Probe, vars
  <2> QED BY <1>6, <2>1, <1>w, ProbeFlags DEF RelaysOK
<1>7. ASSUME NEW r \in Requests, ArriveStep(r) \/ ServeStep(r)
      PROVE  FlagsOK' /\ RelaysOK' /\ WorldOK'
  <2>1. UNCHANGED <<tables, dead, round, world>>
    <3>1. CASE ArriveStep(r)
      BY <3>1 DEF ArriveStep, Arrive, tableVars, proxyVars
    <3>2. CASE MatchStep(r)
      BY <3>2 DEF MatchStep, MatchProxy, MatchWasm, tableVars, proxyVars
    <3>3. CASE Pick(r)
      BY <3>3 DEF Pick, vars, proxyVars
    <3>4. CASE RelayStep(r) \/ DoneStep(r)
      BY <3>4 DEF RelayStep, DoneStep, Relayed, Done, tableVars, proxyVars
    <3> QED BY <1>7, <3>1, <3>2, <3>3, <3>4 DEF ServeStep
  <2>2. RelaysOK'
    <3>0. req \in [Requests -> RequestType]
      BY DEF TypeOK
    <3>1. CASE ArriveStep(r)
      <4>1. PICK p \in Paths : req' = [req EXCEPT ![r] = [Idle(p) EXCEPT !.at = "proxy",
                                                                         !.from = wasmCur]]
        BY <3>1 DEF ArriveStep, Arrive
      <4>2. relay' = relay
        BY <3>1 DEF ArriveStep
      <4> QED BY <3>0, <4>1, <4>2 DEF RelaysOK, Idle
    <3>2. CASE MatchStep(r)
      <4>1. relay' = relay
        BY <3>2 DEF MatchStep
      <4>2. CASE MatchProxy(r)
        BY <3>0, <4>1, <4>2 DEF MatchProxy, RelaysOK, RequestType
      <4>3. CASE MatchWasm(r)
        BY <3>0, <4>1, <4>3 DEF MatchWasm, RelaysOK, RequestType
      <4> QED BY <3>2, <4>2, <4>3 DEF MatchStep
    <3>3. CASE Pick(r)
      <4>1. PICK h \in Hosts \cup {Nobody} : relay' = [relay EXCEPT ![r].host = h]
        BY <3>3, UpstreamsAssumption, NobodyAssumption DEF Pick, TypeOK, RequestType
      <4>2. req' = req
        BY <3>3 DEF Pick, vars
      <4> QED BY <4>1, <4>2 DEF RelaysOK, RelayType
    <3>4. CASE RelayStep(r)
      <4>0. Fetched(relay[r].host) \subseteq {200, 502}
        BY DEF Fetched
      <4> DEFINE Sets(s) == relay' = [relay EXCEPT ![r].status = s]
      <4>1. PICK s \in {200, 502, 503} : Sets(s)
        <5>1. PICK s \in IF relay[r].host = Nobody THEN {503} ELSE Fetched(relay[r].host) :
                Sets(s)
          BY <3>4 DEF RelayStep
        <5>2. s \in {200, 502, 503}
          BY <4>0, <5>1
        <5> HIDE DEF Sets
        <5> QED BY <5>1, <5>2
      <4>2. \A u \in Requests : u # r => req'[u] = req[u]
        BY <3>0, <3>4 DEF RelayStep, Relayed
      <4> QED BY <4>1, <4>2 DEF RelaysOK, RelayType
    <3>5. CASE DoneStep(r)
      <4>1. relay' = [relay EXCEPT ![r] = NoRelay] /\ req' = [req EXCEPT ![r] = Idle(AnyPath)]
        BY <3>5 DEF DoneStep, Done
      <4> QED BY <1>0, <3>0, <4>1 DEF RelaysOK, Idle
    <3> QED BY <1>7, <3>1, <3>2, <3>3, <3>4, <3>5 DEF ServeStep
  <2> QED BY <2>1, <2>2, <1>a, <1>w
<1> QED BY <1>1, <1>2, <1>3, <1>4, <1>5, <1>6, <1>7 DEF ServerNext

-----------------------------------------------------------------------------
(***************************************************************************)
(* Errors and their causes.                                                *)
(***************************************************************************)

\* Each table knows of the hosts that cannot be reached, of those it has flagged,
\* and of those that fail requests.
FellOK ==
  /\ fell \in Seq(SUBSET Hosts) /\ Len(fell) = Newest
  /\ sick \in Seq(SUBSET Hosts) /\ Len(sick) = Newest
  /\ \A g \in 1 .. Newest : /\ Unreachable \subseteq fell[g]
                            /\ unwell \subseteq sick[g]
                            /\ \A x \in dead[g] : x[2] \in fell[g]

\* A request has picked nothing before it is relayed; when it has found nobody, its
\* table knows why.
CauseOK(r) ==
  /\ req[r].at \notin {"relay", "answered"} => relay[r].host = Waiting
  /\ req[r].at = "relay" /\ relay[r].host = Nobody =>
       Upstreams[req[r].path] \cap fell[req[r].seen] # {}
  /\ req[r].at = "answered" /\ req[r].answer = "proxy" =>
       /\ req[r].seen \in 1 .. Newest
       /\ relay[r].status = 502 =>
            relay[r].host \in fell[req[r].seen] \cup sick[req[r].seen]
       /\ relay[r].status = 503 => Upstreams[req[r].path] \cap fell[req[r].seen] # {}

AllCaused == \A r \in Requests : CauseOK(r)

\* What tables know is not forgotten, but by a new process.
Remembered ==
  /\ Newest \in Nat /\ Newest' \in Nat /\ Newest <= Newest'
  /\ \A g \in 1 .. Newest : fell[g] \subseteq fell'[g] /\ sick[g] \subseteq sick'[g]

\* Only hosts can be out of reach.
LEMMA UnreachableHosts == Unreachable \subseteq Hosts /\ Unreachable' \subseteq Hosts
BY DEF Unreachable

\* New tables begin with what is wrong when they are built.
LEMMA FlagsFell ==
  ASSUME FellOK, FlagsOK, WorldOK, Flags, UNCHANGED world, Newest \in Nat, Newest' \in Nat
  PROVE  /\ FellOK'
         /\ Newest <= Newest' => Remembered
<1>1. /\ dead' = [g \in 1 .. Newest' |-> IF g <= Newest THEN dead[g] ELSE {}]
      /\ fell' = [g \in 1 .. Newest' |-> IF g <= Newest THEN fell[g] ELSE Unreachable]
      /\ sick' = [g \in 1 .. Newest' |-> IF g <= Newest THEN sick[g] ELSE unwell]
  BY DEF Flags
<1>2. \A g \in 1 .. Newest' : g <= Newest => g \in 1 .. Newest
  OBVIOUS
<1>3. /\ \A g \in 1 .. Newest : fell[g] \in SUBSET Hosts /\ sick[g] \in SUBSET Hosts
      /\ unwell \in SUBSET Hosts /\ Unreachable \in SUBSET Hosts
  BY UnreachableHosts DEF FellOK, WorldOK
<1>same. Unreachable' = Unreachable /\ unwell' = unwell
  BY DEF Unreachable, world
<1> HIDE DEF Unreachable
<1>4. /\ fell' \in Seq(SUBSET Hosts) /\ Len(fell') = Newest'
      /\ sick' \in Seq(SUBSET Hosts) /\ Len(sick') = Newest'
  <2>1. \A g \in 1 .. Newest' :
          /\ (IF g <= Newest THEN fell[g] ELSE Unreachable) \in SUBSET Hosts
          /\ (IF g <= Newest THEN sick[g] ELSE unwell) \in SUBSET Hosts
    BY <1>2, <1>3
  <2>2. fell' \in [1 .. Newest' -> SUBSET Hosts]
    BY <1>1, <2>1, Zenon
  <2>3. sick' \in [1 .. Newest' -> SUBSET Hosts]
    BY <1>1, <2>1, Zenon
  <2> QED BY <2>2, <2>3, Listed
<1>5. ASSUME NEW g \in 1 .. Newest'
      PROVE  /\ Unreachable' \subseteq fell'[g] /\ unwell' \subseteq sick'[g]
             /\ \A x \in dead'[g] : x[2] \in fell'[g]
  <2>1. CASE g <= Newest
    BY <1>1, <1>2, <1>same, <2>1 DEF FellOK
  <2>2. CASE ~ (g <= Newest)
    BY <1>1, <1>same, <2>2
  <2> QED BY <2>1, <2>2
<1>6. Newest <= Newest' => Remembered
  BY <1>1 DEF Remembered
<1> QED BY <1>4, <1>5, <1>6 DEF FellOK

\* Something goes wrong, which all tables get to know, or comes right.
LEMMA TroubleFell ==
  ASSUME FellOK, WorldOK', Newest \in Nat, Trouble
  PROVE  FellOK' /\ Remembered
<1>1. /\ fell' = [g \in 1 .. Newest |-> fell[g] \cup Unreachable']
      /\ sick' = [g \in 1 .. Newest |-> sick[g] \cup unwell']
      /\ dead' = dead /\ Newest' = Newest
  BY DEF Trouble, Noticed, vars, Newest
<1>2. /\ \A g \in 1 .. Newest : fell[g] \cup Unreachable' \in SUBSET Hosts
      /\ \A g \in 1 .. Newest : sick[g] \cup unwell' \in SUBSET Hosts
  BY UnreachableHosts DEF FellOK, WorldOK
<1>3. /\ fell' \in Seq(SUBSET Hosts) /\ Len(fell') = Newest
      /\ sick' \in Seq(SUBSET Hosts) /\ Len(sick') = Newest
  <2>1. fell' \in [1 .. Newest -> SUBSET Hosts]
    BY <1>1, <1>2, Zenon
  <2>2. sick' \in [1 .. Newest -> SUBSET Hosts]
    BY <1>1, <1>2, Zenon
  <2> QED BY <2>1, <2>2, Listed
<1>4. \A g \in 1 .. Newest : /\ Unreachable' \subseteq fell'[g] /\ unwell' \subseteq sick'[g]
                             /\ \A x \in dead[g] : x[2] \in fell'[g]
                             /\ fell[g] \subseteq fell'[g] /\ sick[g] \subseteq sick'[g]
  BY <1>1 DEF FellOK
<1> QED BY <1>1, <1>3, <1>4 DEF FellOK, Remembered

\* A checker flags what a connection may fail to reach.
LEMMA ProbeFell ==
  ASSUME TypeOK, FlagsOK, FellOK, NEW g \in Generations, Probe(g)
  PROVE  FellOK'
<1> DEFINE x == CHOOSE y \in round[g] : TRUE
           d(ok) == IF ok THEN dead[g] \ {x} ELSE dead[g] \cup {x}
<1>1. g \in 1 .. Newest
  BY DEF Probe, TypeOK
<1>2. UNCHANGED <<world, fell, sick>> /\ Newest' = Newest
  BY DEF Probe, vars, Newest
<1>same. Unreachable' = Unreachable /\ unwell' = unwell
  BY <1>2 DEF Unreachable, world
<1>ok. PICK ok \in Connects(x[2]) : dead' = [dead EXCEPT ![g] = d(ok)]
  BY DEF Probe
<1>3. x \in Targets
  <2>1. x \in round[g] /\ round[g] \subseteq TargetsOf(tables[g])
    BY <1>1 DEF Probe, FlagsOK
  <2> QED BY <2>1 DEF TargetsOf
<1>4. x[2] \in Hosts
  BY <1>3 DEF Targets
<1> HIDE DEF x
<1>reach. ~ ok => x[2] \in Unreachable
  BY <1>4 DEF Connects, Unreachable
<1>5. \A y \in d(ok) : y[2] \in fell[g]
  BY <1>1, <1>reach DEF FellOK
<1> HIDE DEF d
<1>6. \A k \in 1 .. Newest : \A y \in dead'[k] : y[2] \in fell[k]
  BY <1>1, <1>2, <1>ok, <1>5 DEF FlagsOK, FellOK
<1> QED BY <1>2, <1>same, <1>6 DEF FellOK

\* While a request waits, its causes stay known.
LEMMA CauseKept ==
  ASSUME TypeOK, InOrder, RequestsOK, Remembered, NEW r \in Requests, CauseOK(r),
         req'[r] = req[r], relay'[r] = relay[r]
  PROVE  CauseOK(r)'
<1>1. /\ Newest \in Nat /\ Newest' \in Nat /\ Newest <= Newest'
      /\ \A g \in 1 .. Newest : fell[g] \subseteq fell'[g] /\ sick[g] \subseteq sick'[g]
  BY DEF Remembered
<1>2. req[r].at = "relay" => req[r].seen \in 1 .. Newest
  BY <1>1 DEF RequestsOK, ReqOK, TypeOK, InOrder, RequestType
<1> QED BY <1>1, <1>2 DEF CauseOK

\* pick_upstream finds nobody only if it has found a flag.
LEMMA PickCaused ==
  ASSUME TypeOK, InOrder, RequestsOK, RelaysOK, FellOK, NEW r \in Requests, Pick(r)
  PROVE  CauseOK(r)'
<1> DEFINE p == req[r].path
           flagged == {h \in Hosts : <<p, h>> \in dead[req[r].seen]}
<1>1. /\ req[r].at = "relay" /\ req' = req /\ fell' = fell /\ Newest' = Newest
      /\ \E h \in (Upstreams[p] \ flagged)
                    \cup {n \in {Nobody} : Upstreams[p] \cap flagged # {}} :
           relay' = [relay EXCEPT ![r].host = h]
  BY DEF Pick, vars, proxyVars, Newest
<1>2. req[r].seen \in 1 .. Newest /\ p \in Paths
  BY <1>1 DEF RequestsOK, ReqOK, TypeOK, InOrder, RequestType, Newest
<1>3. flagged \subseteq fell[req[r].seen]
  BY <1>2 DEF FellOK
<1>4. Nobody \notin Upstreams[p]
  BY <1>2, UpstreamsAssumption, NobodyAssumption
<1> HIDE DEF flagged, p
<1>5. PICK h \in (Upstreams[p] \ flagged)
                   \cup {n \in {Nobody} : Upstreams[p] \cap flagged # {}} :
        relay' = [relay EXCEPT ![r].host = h]
  BY <1>1
<1>6. relay'[r].host = h
  BY <1>5 DEF RelaysOK, RelayType
<1>7. h = Nobody => Upstreams[p] \cap fell[req[r].seen] # {}
  BY <1>3, <1>4, <1>5
<1> QED BY <1>1, <1>6, <1>7 DEF CauseOK, p

\* An exchange fails because its host cannot be reached or is unwell.
LEMMA RelayCaused ==
  ASSUME TypeOK, InOrder, RequestsOK, RelaysOK, FellOK, NEW r \in Requests, CauseOK(r),
         RelayStep(r)
  PROVE  CauseOK(r)'
<1> DEFINE h == relay[r].host
           g == req[r].seen
<1>1. /\ req[r].at = "relay" /\ fell' = fell /\ sick' = sick /\ Newest' = Newest
  BY DEF RelayStep, Relayed, proxyVars, tableVars, Newest
<1>s. PICK s \in IF h = Nobody THEN {503} ELSE Fetched(h) :
        relay' = [relay EXCEPT ![r].status = s]
  BY DEF RelayStep
<1>2. g \in 1 .. Newest
  BY <1>1 DEF RequestsOK, ReqOK, TypeOK, InOrder, RequestType, Newest
<1>3. /\ req'[r].at = "answered" /\ req'[r].seen = req[r].seen
      /\ req'[r].path = req[r].path
  BY DEF RelayStep, Relayed, TypeOK, RequestType
<1>4. h = Nobody => Upstreams[req[r].path] \cap fell[g] # {}
  BY <1>1 DEF CauseOK
<1>5. (s = 503 => h = Nobody) /\ (s = 502 => h \in unwell \cup Unreachable)
  BY <1>s DEF Fetched
<1>6. unwell \cup Unreachable \subseteq fell[g] \cup sick[g]
  BY <1>2 DEF FellOK
<1>7. relay'[r].host = h /\ relay'[r].status = s
  BY <1>s DEF RelaysOK, RelayType
<1> HIDE DEF h
<1> QED BY <1>1, <1>2, <1>3, <1>4, <1>5, <1>6, <1>7 DEF CauseOK

\* The other steps of a request.
LEMMA ServeCaused ==
  ASSUME TypeOK, InOrder, RequestsOK, RelaysOK, FellOK, NEW r \in Requests, CauseOK(r),
         ArriveStep(r) \/ ServeStep(r)
  PROVE  CauseOK(r)'
<1>0. req \in [Requests -> RequestType] /\ relay \in [Requests -> RelayType]
  BY DEF TypeOK, RelaysOK
<1>1. CASE ArriveStep(r)
  <2>1. /\ req[r].at = "idle" /\ relay' = relay
        /\ \E p \in Paths : req' = [req EXCEPT ![r] = [Idle(p) EXCEPT !.at = "proxy",
                                                                      !.from = wasmCur]]
    BY <1>1 DEF ArriveStep, Arrive
  <2> QED BY <1>0, <2>1 DEF CauseOK, Idle
<1>2. CASE MatchStep(r)
  <2>1. relay' = relay /\ req[r].at \in {"proxy", "wasm"}
    BY <1>2 DEF MatchStep, MatchProxy, MatchWasm
  <2>2. relay[r].host = Waiting
    BY <2>1 DEF CauseOK
  <2>3. CASE MatchProxy(r)
    <3>1. req'[r].at # "answered"
      BY <1>0, <2>3 DEF MatchProxy, RequestType
    <3> QED BY <2>1, <2>2, <3>1, NobodyAssumption DEF CauseOK
  <2>4. CASE MatchWasm(r)
    <3>1. req'[r].at = "answered" /\ req'[r].answer # "proxy"
      BY <1>0, <2>4 DEF MatchWasm, RequestType
    <3> QED BY <3>1 DEF CauseOK
  <2> QED BY <1>2, <2>3, <2>4 DEF MatchStep
<1>3. CASE DoneStep(r)
  <2>1. relay'[r] = NoRelay /\ req'[r].at = "idle"
    BY <1>0, <1>3 DEF DoneStep, Done, Idle
  <2> QED BY <2>1 DEF CauseOK, NoRelay
<1> QED BY <1>1, <1>2, <1>3, PickCaused, RelayCaused DEF ServeStep

\* It leaves the others alone.
LEMMA ServeAlone ==
  ASSUME TypeOK, RelaysOK, NEW r \in Requests, ArriveStep(r) \/ ServeStep(r)
  PROVE  /\ UNCHANGED <<tables, dead, fell, sick, world>>
         /\ \A u \in Requests : u # r => req'[u] = req[u] /\ relay'[u] = relay[u]
<1>0. req \in [Requests -> RequestType] /\ relay \in [Requests -> RelayType]
  BY DEF TypeOK, RelaysOK
<1>1. CASE ArriveStep(r)
  BY <1>0, <1>1 DEF ArriveStep, Arrive, tableVars, proxyVars
<1>2. CASE MatchStep(r)
  BY <1>0, <1>2 DEF MatchStep, MatchProxy, MatchWasm, tableVars, proxyVars
<1>3. CASE Pick(r)
  <2>1. /\ UNCHANGED <<tables, dead, fell, sick, world, req>>
        /\ \E h : relay' = [relay EXCEPT ![r].host = h]
    BY <1>3 DEF Pick, vars, proxyVars
  <2> QED BY <1>0, <2>1
<1>4. CASE RelayStep(r)
  <2>1. /\ UNCHANGED <<tables, dead, fell, sick, world>> /\ Relayed(r)
        /\ \E s : relay' = [relay EXCEPT ![r].status = s]
    BY <1>4 DEF RelayStep, Relayed, proxyVars, tableVars
  <2> QED BY <1>0, <2>1 DEF Relayed
<1>5. CASE DoneStep(r)
  BY <1>0, <1>5 DEF DoneStep, Done, tableVars, proxyVars
<1> QED BY <1>1, <1>2, <1>3, <1>4, <1>5 DEF ServeStep

\* Every step keeps tables and causes in order.
LEMMA CauseStep ==
  TypeOK /\ TypeOK' /\ InOrder /\ RequestsOK /\ FlagsOK /\ RelaysOK /\ WorldOK /\ WorldOK'
    /\ FellOK /\ AllCaused /\ [ServerNext]_allVars => FellOK' /\ AllCaused'
<1> SUFFICES ASSUME TypeOK, TypeOK', InOrder, RequestsOK, FlagsOK, RelaysOK, WorldOK, WorldOK',
                    FellOK, AllCaused, [ServerNext]_allVars
             PROVE  FellOK' /\ AllCaused'
  OBVIOUS
<1>0. Newest \in Nat /\ Newest' \in Nat
  BY DEF TypeOK, Newest
<1>a. ASSUME UNCHANGED <<tables, dead, fell, sick, world>> PROVE FellOK' /\ Remembered
  <2>1. Unreachable' = Unreachable /\ unwell' = unwell
    BY <1>a DEF Unreachable, world
  <2> QED BY <1>0, <1>a, <2>1 DEF FellOK, Newest, Remembered
<1>b. ASSUME Remembered, req' = req, relay' = relay PROVE AllCaused'
  BY <1>b, CauseKept DEF AllCaused
<1>1. CASE UNCHANGED allVars
  <2>1. UNCHANGED <<tables, dead, fell, sick, world, req, relay>>
    BY <1>1 DEF allVars, vars, proxyVars
  <2> QED BY <2>1, <1>a, <1>b
<1>2. CASE MainStep
  <2>1. Main /\ Flags /\ UNCHANGED world /\ relay' = relay
    BY <1>2 DEF MainStep
  <2>2. FellOK'
    BY <1>0, <2>1, FlagsFell
  <2>3. ASSUME NEW r \in Requests PROVE req'[r].at = "idle" /\ relay[r].host = Waiting
    <3>1. main # "serving"
      BY <2>1 DEF Main, MainLoad, MainStart, MainBindFails, Restart
    <3>2. req[r].at = "idle"
      BY <3>1 DEF RequestsOK, ReqOK
    <3>3. req' = req \/ req' = NoTask
      BY <2>1 DEF Main, MainLoad, MainStart, MainBindFails, Restart, Boot
    <3> QED BY <3>2, <3>3 DEF NoTask, Idle, AllCaused, CauseOK
  <2> QED BY <2>1, <2>2, <2>3 DEF AllCaused, CauseOK
<1>3. CASE WatcherStep
  <2>1. Watcher /\ Flags /\ UNCHANGED world /\ relay' = relay
    BY <1>3 DEF WatcherStep
  <2>2. Newest <= Newest' /\ req' = req
    BY <2>1, WatcherGrowth DEF Growth
  <2> QED BY <1>0, <1>b, <2>1, <2>2, FlagsFell
<1>4. CASE EditStep
  <2>1. UNCHANGED <<tables, dead, fell, sick, world, req, relay>>
    BY <1>4 DEF EditStep, Remove, Edit, tableVars, proxyVars
  <2> QED BY <2>1, <1>a, <1>b
<1>5. CASE CrashStep
  <2>1. /\ tables' = <<>> /\ dead' = <<>> /\ fell' = <<>> /\ sick' = <<>> /\ req' = NoTask
        /\ relay' = [r \in Requests |-> NoRelay]
    BY <1>5 DEF CrashStep, Crash, Boot
  <2>2. FellOK'
    BY <2>1 DEF FellOK, Newest
  <2>3. AllCaused'
    BY <2>1 DEF AllCaused, CauseOK, NoTask, Idle, NoRelay
  <2> QED BY <2>2, <2>3
<1>6. CASE Trouble
  <2>1. req' = req /\ relay' = relay
    BY <1>6 DEF Trouble, vars
  <2> QED BY <1>0, <1>6, <1>b, <2>1, TroubleFell
<1>7. ASSUME NEW g \in Generations, Probe(g) PROVE FellOK' /\ AllCaused'
  <2>1. UNCHANGED <<tables, fell, sick, req, relay>>
    BY <1>7 DEF Probe, vars
  <2>2. Remembered
    BY <1>0, <2>1 DEF Remembered, Newest
  <2> QED BY <1>7, <1>b, <2>1, <2>2, ProbeFell
<1>8. ASSUME NEW r \in Requests, ArriveStep(r) \/ ServeStep(r) PROVE FellOK' /\ AllCaused'
  <2>1. FellOK' /\ Remembered
    BY <1>8, <1>a, ServeAlone
  <2>2. ASSUME NEW u \in Requests PROVE CauseOK(u)'
    <3>1. CASE u = r
      BY <1>8, <3>1, ServeCaused DEF AllCaused
    <3>2. CASE u # r
      <4>1. req'[u] = req[u] /\ relay'[u] = relay[u]
        BY <1>8, <3>2, ServeAlone
      <4> QED BY <2>1, <4>1, CauseKept DEF AllCaused
    <3> QED BY <3>1, <3>2
  <2> QED BY <2>1, <2>2 DEF AllCaused
<1> QED BY <1>1, <1>2, <1>3, <1>4, <1>5, <1>6, <1>7, <1>8 DEF ServerNext

\* All of it, throughout.
LEMMA AllInOrder ==
  ServerSpec => [](FlagsOK /\ RelaysOK /\ WorldOK /\ FellOK /\ AllCaused)
<1>1. ServerInit => FlagsOK /\ RelaysOK /\ WorldOK /\ FellOK /\ AllCaused
  <2> SUFFICES ASSUME ServerInit PROVE FlagsOK /\ RelaysOK /\ WorldOK /\ FellOK /\ AllCaused
    OBVIOUS
  <2>1. FlagsOK /\ FellOK
    BY DEF ServerInit, Init, FlagsOK, FellOK, Newest
  <2>2. RelaysOK
    BY DEF ServerInit, Init, RelaysOK, NoRelay, RelayType, NoTask, Idle
  <2>3. AllCaused
    BY DEF ServerInit, Init, AllCaused, CauseOK, NoRelay, NoTask, Idle
  <2>4. WorldOK
    <3>1. 0 \in 0 .. MaxTroubles
      BY TroublesAssumption
    <3> QED BY <3>1 DEF ServerInit, WorldOK
  <2> QED BY <2>1, <2>2, <2>3, <2>4
<1> QED BY <1>1, ServerStep, CauseStep, ServerIsHotReload, TypeCorrect, TablesInOrder,
           RequestsAccounted, PTL DEF ServerSpec

\* Flags fit the tables they belong to over any number of reloads, and every
\* relayed request has a status (proxy/mod.rs:57-76, listener.rs:160-172).
THEOREM ServerTypeCorrect == ServerSpec => []ServerTypeOK
<1>1. TypeOK /\ FlagsOK /\ RelaysOK /\ WorldOK /\ FellOK => ServerTypeOK
  BY DEF FlagsOK, RelaysOK, WorldOK, FellOK, ServerTypeOK
<1> QED BY <1>1, AllInOrder, ServerIsHotReload, TypeCorrect, PTL

\* A 503 tells of an upstream that could not be reached while the answering table
\* was there, a 502 of one that could not be reached or failed requests, through
\* any number of reloads, crashes, shortages and changes of upstreams
\* (proxy/mod.rs:57-76, 110-111, 147, 161-163).
THEOREM ErrorsAreCaused == ServerSpec => []ErrorsHaveCause
<1>1. AllCaused => ErrorsHaveCause
  BY DEF AllCaused, CauseOK, ErrorsHaveCause
<1> QED BY <1>1, AllInOrder, PTL

=============================================================================
