------------------------------- MODULE Server -------------------------------
(***************************************************************************)
(* The parts together: HotReload's tables and watcher, the health flags    *)
(* that every proxy table has of its own, the checkers that keep them, and *)
(* the upstreams that requests are relayed to.                             *)
(*                                                                         *)
(* ProxyRoute models a pick and a probe step by step; each is one step     *)
(* here, and a pick may come out in any way that AtomicPick allows, which  *)
(* ProxyRoute implements: a healthy target, or none if any is flagged.     *)
(***************************************************************************)
EXTENDS HotReload

CONSTANTS
  Hosts,       \* upstreams
  Upstreams,   \* the hosts of each path's proxy route
  Nobody,      \* no host
  MaxTroubles  \* bound on crashes and on changes of the upstreams and of `short'

Waiting == "waiting"   \* no host either: a request that has yet to pick one

ASSUME UpstreamsAssumption == Upstreams \in [Paths -> (SUBSET Hosts) \ {{}}]
ASSUME NobodyAssumption    == Nobody \notin Hosts /\ Waiting \notin Hosts \cup {Nobody}
ASSUME TroublesAssumption == MaxTroubles \in Nat

VARIABLES
  up,        \* external: hosts that accept connections
  unwell,    \* external: hosts that may fail a request whose connection they accept:
             \* silent for too long, a reset, an answer without a status line
  short,     \* external: a connection may fail for want of a descriptor or a port
  troubles,  \* external: how many changes of these and crashes there were
  dead,      \* each table's targets whose healthy flag is cleared
  round,     \* those that its checker has yet to probe in this round
  fell,      \* history: the hosts that could not be reached, for sure or perhaps, at
             \* some moment since the table was built
  sick,      \* history: those that were unwell at some moment since then
  relay      \* each request's upstream, and the status it is relayed with

world     == <<up, unwell, short, troubles>>
proxyVars == <<dead, round, fell, sick>>
allVars   == <<vars, world, proxyVars, relay>>

Targets == {x \in Paths \X Hosts : x[2] \in Upstreams[x[1]]}

TargetsOf(t) == {x \in Targets : x[1] \in t.proxy}

RelayType == [host : Hosts \cup {Nobody, Waiting}, status : {0, 200, 502, 503}]

\* There are flags for every table, and none for what is no target of it; a relay
\* has a status if the request was relayed.
ServerTypeOK ==
  /\ TypeOK
  /\ up \cup unwell \subseteq Hosts
  /\ short    \in BOOLEAN
  /\ troubles \in 0 .. MaxTroubles
  /\ Len(dead) = Newest /\ Len(round) = Newest
  /\ Len(fell) = Newest /\ Len(sick) = Newest
  /\ \A g \in 1 .. Newest :
       /\ dead[g] \cup round[g] \subseteq TargetsOf(tables[g])
       /\ fell[g] \cup sick[g] \subseteq Hosts
  /\ relay \in [Requests -> RelayType]
  /\ \A r \in Requests :
       req[r].at = "answered" /\ req[r].answer = "proxy" => relay[r].status # 0

NoRelay == [host |-> Waiting, status |-> 0]

ServerInit ==
  /\ Init
  /\ up \in SUBSET Hosts
  /\ unwell = {}
  /\ short = FALSE
  /\ troubles = 0
  /\ dead = <<>>
  /\ round = <<>>
  /\ fell = <<>>
  /\ sick = <<>>
  /\ relay = [r \in Requests |-> NoRelay]

-----------------------------------------------------------------------------
(***************************************************************************)
(* The server's tasks.                                                     *)
(***************************************************************************)

\* Hosts that a connection may fail to reach.
Unreachable == IF short THEN Hosts ELSE Hosts \ up

\* Every table knows of what is wrong.
Noticed ==
  /\ fell' = [g \in 1 .. Newest |-> fell[g] \cup Unreachable']
  /\ sick' = [g \in 1 .. Newest |-> sick[g] \cup unwell']

Flags_Carried ==
  /\ dead' = [g \in 1 .. Newest' |->
                IF g <= Newest THEN dead[g] ELSE IF g = 1 THEN {} ELSE dead[g - 1]]
  /\ round' = [g \in 1 .. Newest' |-> IF g <= Newest THEN round[g] ELSE TargetsOf(tables'[g])]
  /\ fell'  = [g \in 1 .. Newest' |-> IF g <= Newest THEN fell[g] ELSE Unreachable]
  /\ sick'  = [g \in 1 .. Newest' |-> IF g <= Newest THEN sick[g] ELSE unwell]

\* from_config: every target of a new table is assumed healthy.
Flags ==
  /\ dead' = [g \in 1 .. Newest' |-> IF g <= Newest THEN dead[g] ELSE {}]
  /\ round' = [g \in 1 .. Newest' |-> IF g <= Newest THEN round[g] ELSE TargetsOf(tables'[g])]
  /\ fell'  = [g \in 1 .. Newest' |-> IF g <= Newest THEN fell[g] ELSE Unreachable]
  /\ sick'  = [g \in 1 .. Newest' |-> IF g <= Newest THEN sick[g] ELSE unwell]

MainStep    == Main /\ Flags /\ UNCHANGED <<world, relay>>
WatcherStep == Watcher /\ Flags /\ UNCHANGED <<world, relay>>

EditStep ==
  /\ Remove \/ \E d \in Contents \ {Missing} : Edit(d)
  /\ UNCHANGED <<world, proxyVars, relay>>

\* tcp_connect_ok: true only of a host that accepts, and perhaps not even then.
Connects(h) == {h \in up} \cup {b \in {FALSE} : short}

Probe_Backoff(g) ==
  LET x == CHOOSE y \in round[g] : TRUE IN
  /\ g \in checkers /\ round[g] # {}
  /\ \E ok \in Connects(x[2]) :
       dead' = [dead EXCEPT ![g] = IF ok THEN @ \ {x} ELSE @ \cup {x}]
  /\ round' = [round EXCEPT ![g] =
                 IF @ = {x} THEN TargetsOf(tables[g]) \ dead'[g] ELSE @ \ {x}]
  /\ UNCHANGED <<vars, world, fell, sick, relay>>

\* spawn_health_checker's task: one target after the other, then, after a
\* sleep, all of them again.
Probe(g) ==
  LET x == CHOOSE y \in round[g] : TRUE IN
  /\ g \in checkers /\ round[g] # {}
  /\ \E ok \in Connects(x[2]) :
       dead' = [dead EXCEPT ![g] = IF ok THEN @ \ {x} ELSE @ \cup {x}]
  /\ round' = [round EXCEPT ![g] = IF @ = {x} THEN TargetsOf(tables[g]) ELSE @ \ {x}]
  /\ UNCHANGED <<vars, world, fell, sick, relay>>

Toggle(S, h) == IF h \in S THEN S \ {h} ELSE S \cup {h}

\* An upstream dies or comes back, or it begins or ceases to fail requests; the
\* process begins to be short of descriptors or has enough again.
Trouble ==
  /\ troubles < MaxTroubles
  /\ troubles' = troubles + 1
  /\ \/ \E h \in Hosts : up' = Toggle(up, h) /\ UNCHANGED <<unwell, short>>
     \/ \E h \in Hosts : unwell' = Toggle(unwell, h) /\ UNCHANGED <<up, short>>
     \/ short' = ~ short /\ UNCHANGED <<up, unwell>>
  /\ Noticed
  /\ UNCHANGED <<vars, dead, round, relay>>

\* The process dies; the next one has descriptors enough.
CrashStep ==
  /\ troubles < MaxTroubles
  /\ Crash
  /\ troubles' = troubles + 1
  /\ short' = FALSE
  /\ dead' = <<>> /\ round' = <<>> /\ fell' = <<>> /\ sick' = <<>>
  /\ relay' = [r \in Requests |-> NoRelay]
  /\ UNCHANGED <<up, unwell>>

-----------------------------------------------------------------------------
(***************************************************************************)
(* A request, relayed by the table it has loaded.                          *)
(***************************************************************************)

ArriveStep(r) ==
  /\ \E p \in Paths : Arrive(r, p)
  /\ UNCHANGED <<world, proxyVars, relay>>

\* pick_upstream, which may skip a healthy target under others' picks.
Pick(r) ==
  LET flagged == {h \in Hosts : <<req[r].path, h>> \in dead[req[r].seen]}
      all     == Upstreams[req[r].path]
  IN
  /\ req[r].at = "relay"
  /\ relay[r].host = Waiting
  /\ \E h \in (all \ flagged) \cup {n \in {Nobody} : all \cap flagged # {}} :
       relay' = [relay EXCEPT ![r].host = h]
  /\ UNCHANGED <<vars, world, proxyVars>>

\* fetch_from_upstream: an exchange with a host may succeed (200 stands for what the
\* host says), or fail: no connection, no descriptor for one, an error or no end of
\* the answer, or no status line in it.
Fetched(h) ==
  {s \in {200} : h \in up} \cup {s \in {502} : h \in unwell \cup Unreachable}

RelayStep_AllBad(r) ==
  /\ relay[r].host # Waiting
  /\ Relayed(r)
  /\ \E s \in IF relay[r].host = Nobody THEN {502} ELSE Fetched(relay[r].host) :
       relay' = [relay EXCEPT ![r].status = s]
  /\ UNCHANGED <<world, proxyVars>>

\* relay: no upstream is a 503, one that cannot be reached or fails a 502.
RelayStep(r) ==
  /\ relay[r].host # Waiting
  /\ Relayed(r)
  /\ \E s \in IF relay[r].host = Nobody THEN {503} ELSE Fetched(relay[r].host) :
       relay' = [relay EXCEPT ![r].status = s]
  /\ UNCHANGED <<world, proxyVars>>

MatchStep(r) ==
  /\ MatchProxy(r) \/ MatchWasm(r)
  /\ UNCHANGED <<world, proxyVars, relay>>

DoneStep(r) ==
  /\ Done(r)
  /\ relay' = [relay EXCEPT ![r] = NoRelay]
  /\ UNCHANGED <<world, proxyVars>>

ServeStep(r) == MatchStep(r) \/ Pick(r) \/ RelayStep(r) \/ DoneStep(r)

-----------------------------------------------------------------------------
Generations == 1 .. MaxEdits + 1

ServerNext ==
  \/ MainStep
  \/ WatcherStep
  \/ EditStep
  \/ CrashStep
  \/ Trouble
  \/ \E g \in Generations : Probe(g)
  \/ \E r \in Requests : ArriveStep(r) \/ ServeStep(r)

ServerSpec == ServerInit /\ [][ServerNext]_allVars

(***************************************************************************)
(* The runtime runs every task that can go on: main, the watcher, every    *)
(* checker, every request that has come.                                   *)
(***************************************************************************)
ServerFairSpec ==
  /\ ServerSpec
  /\ WF_allVars(MainStep)
  /\ WF_allVars(WatcherStep)
  /\ \A g \in Generations : WF_allVars(Probe(g))
  /\ \A r \in Requests : WF_allVars(ServeStep(r))

=============================================================================
