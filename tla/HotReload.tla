------------------------------ MODULE HotReload ------------------------------
(***************************************************************************)
(* Configuration and its hot reload: src/server/listener.rs builds the     *)
(* proxy and the WASM routing tables at startup and watches the config     *)
(* file; on a new modification time the watcher builds both tables again   *)
(* and stores them, one after the other, in the two ArcSwaps every request *)
(* reads (server/connection.rs, http2/mod.rs, http3/mod.rs).               *)
(*                                                                         *)
(* The tables are immutable once built, so they are numbered in the order  *)
(* they are built in; an ArcSwap holds a number.  Requests are identified  *)
(* by what matters here: the routes their path falls under.                *)
(***************************************************************************)
EXTENDS Integers, Sequences

CONSTANTS
  Paths,         \* request paths
  Configs,       \* what the file may say: sets of paths under its two kinds of routes
  Broken,        \* paths whose WASM module can never be loaded or compiled
  Missing,       \* no config: the file does not exist
  Unreadable,    \* no config: the file exists but cannot be read as text
  Requests,      \* tasks that may serve a request at the same time
  MaxEdits,      \* bound on changes of the file
  Faults         \* what may go wrong around the file, see FaultKinds

Tables == [proxy : SUBSET Paths, wasm : SUBSET Paths]

\* "startup": the file changes before the watcher's first look at it.
\* "tick": a write leaves the modification time as it was (two writes within
\* one tick of the file system's clock, or a file put back with its old time).
\* "read": fs::read_to_string fails although nothing is wrong with the file
\* (the process is out of file descriptors).  "module": the same for the file
\* of a WASM module, or it is still being written when the tables are built.
FaultKinds == {"startup", "tick", "read", "module"}

ASSUME PathsAssumption    == Paths # {}
ASSUME ConfigsAssumption  == Configs \subseteq Tables
ASSUME BrokenAssumption   == Broken \subseteq Paths
ASSUME MaxEditsAssumption == MaxEdits \in Nat
ASSUME FaultsAssumption   == Faults \subseteq FaultKinds

\* What the path of the config file may lead to.
Contents == Configs \cup {Missing, Unreadable}

\* last_modified before the file was ever seen.
NoTime == -1

VARIABLES
  disk,      \* external: the config file
  mtime,     \* external: its modification time
  writes,    \* external: how often it was written
  hidden,    \* history: the server cannot know what the file says, see below
  main,      \* the main task: "load", "start", "serving", or "exited"
  cfg,       \* the configuration main has loaded
  tables,    \* routing tables in the order they were built
  proxyCur,  \* proxy_table: the number of the proxy table in force
  wasmCur,   \* wasm_table: the number of the WASM table in force
  checkers,  \* tables a health-check task runs for
  watcher,   \* what the config watcher does, and its last_modified
  req        \* each request task

fileVars   == <<disk, mtime, writes, hidden>>
serverVars == <<main, cfg>>
tableVars  == <<tables, proxyCur, wasmCur, checkers>>
vars == <<fileVars, main, cfg, tables, proxyCur, wasmCur, checkers, watcher, req>>

Newest == Len(tables)

(***************************************************************************)
(* `hidden' says that the file was changed without a sign that the watcher *)
(* will see, or that it, or a module it names, was not read as it is,      *)
(* since it was last read or changed with a sign.  No guard reads it.      *)
(***************************************************************************)

-----------------------------------------------------------------------------
(***************************************************************************)
(* Data.                                                                   *)
(***************************************************************************)

NoRoutes == [proxy |-> {}, wasm |-> {}]

Load_NoDefault(d) == IF d = Missing THEN NoRoutes ELSE d

\* Config::load: a missing or unreadable file gives the defaults, which have
\* no routes.
Load(d) == IF d \in {Missing, Unreadable} THEN NoRoutes ELSE d

\* What it may give of a file that reads d: a read that fails gives the
\* defaults, too.
MayLoad(d) == {Load(d)} \cup {c \in {NoRoutes} : "read" \in Faults}

\* ProxyTable::from_config and WasmTable::from_config: a module that does not
\* load is skipped.
Build(c) == [proxy |-> c.proxy, wasm |-> c.wasm \ Broken]

\* What they may give: any module may fail to load this time, and the watcher,
\* which looks at the config file alone, does not try it again.
MayBuild(c) ==
  {Build(c)} \cup
  {[Build(c) EXCEPT !.wasm = W] : W \in {V \in SUBSET Build(c).wasm : "module" \in Faults}}

Handlers == {"proxy", "wasm", "static"}

\* Routing precedence: proxy, then WASM, then static files.
Decide(t, p) ==
  IF p \in t.proxy THEN "proxy" ELSE IF p \in t.wasm THEN "wasm" ELSE "static"

\* A request task that serves nothing.  `from' and `upto' are history: the
\* tables last put in force completely when it arrived, and the newest ones
\* put in force, completely or not, by the time it was answered.
Idle(p) == [at |-> "idle", path |-> p, seen |-> 0, from |-> 0, upto |-> 0,
            answer |-> "static"]

AnyPath == CHOOSE p \in Paths : TRUE

RequestType ==
  [at : {"idle", "proxy", "relay", "wasm", "answered"}, path : Paths,
   seen : Nat, from : Nat, upto : Nat, answer : Handlers]

WatcherType ==
  [at : {"none", "baseline", "sleep", "load", "spawn", "proxy", "wasm"},
   last : {NoTime} \cup 0 .. MaxEdits]

\* The tables in force, and those with a checker, are tables that were built; main
\* and the watcher are where their code can be.
TypeOK ==
  /\ disk     \in Contents
  /\ writes   \in 0 .. MaxEdits
  /\ mtime    \in 0 .. writes
  /\ hidden   \in BOOLEAN
  /\ main     \in {"load", "start", "serving", "exited"}
  /\ cfg      \in Configs \cup {NoRoutes}
  /\ tables   \in Seq(Tables)
  /\ proxyCur \in 0 .. Newest
  /\ wasmCur  \in 0 .. Newest
  /\ checkers \subseteq 1 .. Newest
  /\ watcher  \in WatcherType
  /\ req      \in [Requests -> RequestType]

NoTask == [r \in Requests |-> Idle(AnyPath)]

Init ==
  /\ disk \in Contents
  /\ mtime = 0
  /\ writes = 0
  /\ hidden = FALSE
  /\ main = "load"
  /\ cfg = NoRoutes
  /\ tables = <<>>
  /\ proxyCur = 0
  /\ wasmCur = 0
  /\ checkers = {}
  /\ watcher = [at |-> "none", last |-> NoTime]
  /\ req = NoTask

-----------------------------------------------------------------------------
(***************************************************************************)
(* The config file, in an editor's hands.  A write gives it a new          *)
(* modification time, unless the clock has not ticked since the last one.  *)
(***************************************************************************)

MayEdit ==
  /\ writes < MaxEdits
  /\ "startup" \in Faults \/ watcher.at \notin {"none", "baseline"}

Edit(d) ==
  /\ MayEdit
  /\ disk' = d
  /\ writes' = writes + 1
  /\ mtime' \in {writes'} \cup {t \in {mtime} : "tick" \in Faults}
  /\ hidden' = (mtime' = mtime \/ watcher.at \in {"none", "baseline"})
  /\ UNCHANGED <<serverVars, tableVars, watcher, req>>

\* A removed file has no modification time; only a new write ends this.
Remove ==
  /\ MayEdit
  /\ disk # Missing
  /\ disk' = Missing
  /\ UNCHANGED <<mtime, writes, hidden, serverVars, tableVars, watcher, req>>

-----------------------------------------------------------------------------
(***************************************************************************)
(* Startup: main.rs and server::listener::run.                             *)
(***************************************************************************)

\* let cfg = Config::load(&config_path);
MainLoad ==
  /\ main = "load"
  /\ cfg' \in MayLoad(disk)
  /\ hidden' = (cfg' # Load(disk))
  /\ main' = "start"
  /\ UNCHANGED <<disk, mtime, writes, tableVars, watcher, req>>

\* The tables are built from that configuration, the port is bound, and the
\* health checker (if there is anything to check) and the watcher are spawned;
\* then connections are accepted.
MainStart ==
  /\ main = "start"
  /\ \E t \in MayBuild(cfg) :
       /\ tables' = <<t>>
       /\ checkers' = IF t.proxy # {} THEN {1} ELSE {}
       /\ hidden' = (hidden \/ t # Build(cfg))
  /\ proxyCur' = 1
  /\ wasmCur' = 1
  /\ watcher' = [watcher EXCEPT !.at = "baseline"]
  /\ main' = "serving"
  /\ UNCHANGED <<disk, mtime, writes, cfg, req>>

\* TcpListener::bind(&addr).await? fails: run returns and the program ends.
MainBindFails ==
  /\ main = "start"
  /\ main' = "exited"
  /\ UNCHANGED <<fileVars, cfg, tableVars, watcher, req>>

\* Nothing in memory is persisted: a new process starts from the file alone.
Boot ==
  /\ main' = "load"
  /\ cfg' = NoRoutes
  /\ tables' = <<>>
  /\ proxyCur' = 0
  /\ wasmCur' = 0
  /\ checkers' = {}
  /\ watcher' = [at |-> "none", last |-> NoTime]
  /\ req' = NoTask
  /\ UNCHANGED fileVars

\* The process dies, with its requests and tables, and is started again (an
\* abort, a kill, systemctl restart).
Crash == main = "serving" /\ Boot

\* packaging/systemd/nwarp.service, Restart=on-failure.
Restart == main = "exited" /\ Boot

-----------------------------------------------------------------------------
(***************************************************************************)
(* The watcher: spawn_config_watcher.                                      *)
(***************************************************************************)

ModifiedTime == IF disk = Missing THEN NoTime ELSE mtime

\* let mut last_modified = metadata(..).modified().ok(); in the spawned task.
Baseline ==
  /\ watcher.at = "baseline"
  /\ watcher' = [at |-> "sleep", last |-> ModifiedTime]
  /\ UNCHANGED <<fileVars, serverVars, tableVars, req>>

\* The sleep is over and metadata shows a modification time other than the
\* last one.  (When it fails or shows the same one, the loop just goes on.)
Poll ==
  /\ watcher.at = "sleep"
  /\ disk # Missing
  /\ mtime # watcher.last
  /\ watcher' = [at |-> "load", last |-> mtime]
  /\ UNCHANGED <<fileVars, serverVars, tableVars, req>>

LoadConfig_OneChecker ==
  /\ watcher.at = "load"
  /\ \E c \in MayLoad(disk) : \E t \in MayBuild(c) :
       /\ tables' = Append(tables, t)
       /\ hidden' = (c # Load(disk) \/ t # Build(c))
       /\ watcher' = [watcher EXCEPT !.at =
                        IF t.proxy # {} /\ checkers = {}
                        THEN "spawn" ELSE "proxy"]
  /\ UNCHANGED <<disk, mtime, writes, serverVars, proxyCur, wasmCur, checkers, req>>

\* Config::load, then both from_config: the file may have changed since Poll.
LoadConfig ==
  /\ watcher.at = "load"
  /\ \E c \in MayLoad(disk) : \E t \in MayBuild(c) :
       /\ tables' = Append(tables, t)
       /\ hidden' = (c # Load(disk) \/ t # Build(c))
       /\ watcher' = [watcher EXCEPT !.at =
                        IF t.proxy # {} THEN "spawn" ELSE "proxy"]
  /\ UNCHANGED <<disk, mtime, writes, serverVars, proxyCur, wasmCur, checkers, req>>

\* if new_proxy_table.has_routes() { spawn_health_checker(..) }
SpawnChecker ==
  /\ watcher.at = "spawn"
  /\ checkers' = checkers \cup {Newest}
  /\ watcher' = [watcher EXCEPT !.at = "proxy"]
  /\ UNCHANGED <<fileVars, serverVars, tables, proxyCur, wasmCur, req>>

StoreProxy_OnlyRoutes ==
  /\ watcher.at = "proxy"
  /\ proxyCur' = IF tables[Newest].proxy # {} THEN Newest ELSE proxyCur
  /\ watcher' = [watcher EXCEPT !.at = "wasm"]
  /\ UNCHANGED <<fileVars, serverVars, tables, wasmCur, checkers, req>>

\* proxy_table.store(new_proxy_table);
StoreProxy ==
  /\ watcher.at = "proxy"
  /\ proxyCur' = Newest
  /\ watcher' = [watcher EXCEPT !.at = "wasm"]
  /\ UNCHANGED <<fileVars, serverVars, tables, wasmCur, checkers, req>>

StoreWasm_StampAfter ==
  /\ watcher.at = "wasm"
  /\ wasmCur' = Newest
  /\ watcher' = [at |-> "sleep", last |-> ModifiedTime]
  /\ UNCHANGED <<fileVars, serverVars, tables, proxyCur, checkers, req>>

\* wasm_table.store(Arc::new(new_wasm_table)); the reload is logged.
StoreWasm ==
  /\ watcher.at = "wasm"
  /\ wasmCur' = Newest
  /\ watcher' = [watcher EXCEPT !.at = "sleep"]
  /\ UNCHANGED <<fileVars, serverVars, tables, proxyCur, checkers, req>>

Watcher == Baseline \/ Poll \/ LoadConfig \/ SpawnChecker \/ StoreProxy \/ StoreWasm

-----------------------------------------------------------------------------
(***************************************************************************)
(* A request, over any of the protocols: handle_generic and the two        *)
(* handle_stream functions load the two snapshots in the same way.         *)
(***************************************************************************)

\* A connection is accepted and its request parsed.
Arrive(r, p) ==
  /\ main = "serving"
  /\ req[r].at = "idle"
  /\ req' = [req EXCEPT ![r] = [Idle(p) EXCEPT !.at = "proxy", !.from = wasmCur]]
  /\ UNCHANGED <<fileVars, serverVars, tableVars, watcher>>

\* let proxy_snapshot = proxy_table.load(); on a match the request keeps it
\* while it is relayed, otherwise it goes on to the WASM routes.
MatchProxy(r) ==
  /\ req[r].at = "proxy"
  /\ req' = [req EXCEPT ![r].seen = proxyCur,
                        ![r].at = IF req[r].path \in tables[proxyCur].proxy
                                  THEN "relay" ELSE "wasm"]
  /\ UNCHANGED <<fileVars, serverVars, tableVars, watcher>>

\* The upstream's answer (or a 502 or 503) has been relayed.
Relayed(r) ==
  /\ req[r].at = "relay"
  /\ req' = [req EXCEPT ![r].at = "answered", ![r].answer = "proxy",
                        ![r].upto = proxyCur]
  /\ UNCHANGED <<fileVars, serverVars, tableVars, watcher>>

MatchWasm_StartupTable(r) ==
  /\ req[r].at = "wasm"
  /\ req' = [req EXCEPT ![r].at = "answered",
                        ![r].answer = IF req[r].path \in tables[1].wasm
                                      THEN "wasm" ELSE "static",
                        ![r].upto = proxyCur]
  /\ UNCHANGED <<fileVars, serverVars, tableVars, watcher>>

\* let wasm_snapshot = wasm_table.load(); without a match the request is
\* answered from the document root.
MatchWasm(r) ==
  /\ req[r].at = "wasm"
  /\ req' = [req EXCEPT ![r].at = "answered",
                        ![r].answer = IF req[r].path \in tables[wasmCur].wasm
                                      THEN "wasm" ELSE "static",
                        ![r].upto = proxyCur]
  /\ UNCHANGED <<fileVars, serverVars, tableVars, watcher>>

\* The task is done; it will stand for another request.
Done(r) ==
  /\ req[r].at = "answered"
  /\ req' = [req EXCEPT ![r] = Idle(AnyPath)]
  /\ UNCHANGED <<fileVars, serverVars, tableVars, watcher>>

Serve(r) == MatchProxy(r) \/ Relayed(r) \/ MatchWasm(r) \/ Done(r)

-----------------------------------------------------------------------------
Main == MainLoad \/ MainStart \/ MainBindFails \/ Restart

Next ==
  \/ \E d \in Contents \ {Missing} : Edit(d)
  \/ Remove
  \/ Main
  \/ Crash
  \/ Watcher
  \/ \E r \in Requests : \E p \in Paths : Arrive(r, p)
  \/ \E r \in Requests : Serve(r)

Spec == Init /\ [][Next]_vars

(***************************************************************************)
(* main (restarted when it fails) and the watcher it spawns keep running.  *)
(* Nothing makes the editor write or requests arrive.                      *)
(***************************************************************************)
FairSpec == Spec /\ WF_vars(Main) /\ WF_vars(Watcher)

=============================================================================
