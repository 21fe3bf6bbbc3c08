# NWarp in TLA+

TLA+ specifications of NWarp, the web server in this repository: its reverse
proxy, its hot-reloaded routing tables, its listeners and connections, and what
happens to a request on its way through the handlers, WASM modules and the
document root included. Small instances are checked with TLC; the
safety properties that hold are also proved with TLAPS, for every value of the
constants.

`PROJECT.json` holds the index: which module models which part, which
definition stands for which lines of the source, the runs, the hazards the
properties are aimed at, and the theorems.

- [Inventory](#inventory): the system's parts, their state and what makes them correct
- [Modules](#modules): how the specifications correspond to the code
- [Runs](#runs): what TLC checks, and within which bounds
- [Fairness](#fairness)
- [Proofs](#proofs)
- [Findings](#findings): where the code and its comments disagree
- [Not modelled](#not-modelled)

## Inventory

NWarp is one process with a multi-threaded Tokio runtime. Its tasks are: `main`
(load, bind, accept), one task per accepted connection, one per HTTP/2 stream or
HTTP/3 request, the TLS and QUIC listeners, the config watcher, and one
health-check task for every proxy table that was ever built with routes in it.
They share two `ArcSwap`s (the tables in force), atomics inside the proxy table,
and the logger's mutex. Nothing is persisted but the access and error logs.

| Component | State | Operations | Interacts with | Correct means |
|---|---|---|---|---|
| Upstream selection, `proxy/mod.rs` | a counter per route, a health flag per target, all relaxed atomics | `pick_upstream`; the checker's connect, store, sleep | every request task and the checker of the table share the atomics, without a lock | requests spread evenly; a healthy target is found; picks end; flags follow the upstreams and dead ones get no traffic |
| Upstream fetch and relay, `proxy/mod.rs` | none beyond the request's | connect, write, read under a timeout, pipe back (`relay`) or hand back (`relay_raw`) | called by the three request handlers; its errors select 502 or 503 | one answer per client; the status tells the cause; a silent upstream is given up |
| Startup and hot reload, `server/listener.rs`, `main.rs` | `proxy_table`, `wasm_table` (ArcSwap), the watcher's `last_modified` | `Config::load`, `from_config` of both tables, spawning checkers and the watcher, the watcher's poll and two stores | the config file, edited by somebody else at any time; every request loads the tables | the file's last contents come into force; requests in flight are not disturbed; tables with proxy routes are health-checked |
| Configuration, `config/mod.rs` | none | `load` (never fails: defaults), `parse_kv` | read by `main` and the watcher | defaults for what is missing; clamped values; later duplicates win |
| Request cycle, `server/connection.rs`, `http2/mod.rs`, `http3/mod.rs` | per request: its place, its status | parse, match proxy, match WASM, static; answer and log, in orders that differ by protocol and branch | clients and upstreams that may fail at any await | each parsed request is answered once and logged once, with the same status |
| WASM handlers, `wasm/mod.rs`, `wasm/hello.wat` | compiled modules; a fresh store per call | `from_config` (skips broken modules), `invoke` (alloc, copy in, call, copy out) | runs on a runtime worker without yielding | bounds of guest memory respected; a failure is a 500, not a crash |
| Static router, `http/router.rs` | none | resolve, index, canonicalize, read | a file system that changes meanwhile | nothing outside the root; 404 for what is missing |
| HTTP/1.1 parsing, `http/request.rs`, `http/response.rs` | none | `parse`, `sanitize_path`, `percent_decode`, `send` | the connection | paths are decoded once and stay under the root |
| Logging, `logging/mod.rs` | two files behind a mutex | `access`, `error` | all tasks | whole lines, one per request |
| TLS, `tls/mod.rs` | acceptor | load certificate, accept with ALPN | hands connections to HTTP/1.1 or HTTP/2 | a failed handshake costs one connection |
| HTTP/2 and HTTP/3 connection loops | per connection | accept stream, spawn | libraries `h2`, `h3`, `quinn` | a failed stream does not end the others; the loop ends when the connection does |
| ThreadPool, `server/pool.rs` | - | - | - | not compiled (`server/mod.rs` does not declare it) |

Hard to test here are the interleavings of requests on the atomics, reloads
under requests, the race of the editor with the watcher, failures of either peer
at any await, files that change between two looks at them, and the wrap of a
counter that takes years. `PROJECT.json`
lists each such hazard at its line, with the properties aimed at it.

## Modules

| Module | Extends | Contents |
|---|---|---|
| `ProxyRoute` | | one proxy route: picks, checker, upstreams |
| `AtomicPick` | | a pick as one look at the flags, the abstract specification of `pick_upstream` |
| `HotReload` | | the file, `main`, the watcher, the tables, the requests that read them |
| `AtomicRoutes` | | routes as one atomic table, the abstract specification of hot reload |
| `HotReloadAtomic` | `HotReloadProps` | the refinement mapping (`INSTANCE AtomicRoutes WITH ...`) |
| `RequestCycle` | | requests between clients and handlers |
| `Exchange` | | a request as one answer and one line in the log, the abstract specification of the handlers |
| `Connections` | | listeners, connections, request loops, descriptors |
| `WasmInvoke` | | calls of WASM handlers |
| `StaticRouter` | | requests answered from the document root |
| `Server` | `HotReload` | tables, flags, checkers, upstreams and requests together |
| `XProps` | `X` | the properties of `X` |
| `XProofs` | `XProps`, `TLAPS` | theorems about `X`; `HotReloadAtomicProofs` extends `HotReloadProofs`, `ServerProofs` both |
| `MCX` | the `Props` module, `TLC` | values and symmetry sets for the `.cfg` files |

Operators with an underscore in their name (`Slot_OffByOne`, `StoreProxy_OnlyRoutes`, ...)
are wrong versions of the definition that follows them. No specification uses
them; putting one in the place of its original makes a property fail, and
`PROJECT.json` says which. They show that the property depends on that code.

### ProxyRoute

State: `counter` and `healthy` are the route's atomics. `pc`, `idx`, `tries` are
the locals of each task inside `pick_upstream`; `probe` is the checker's place,
with the local `ok` it stores after its await. `up` is the world. The history
variables `landed`, `steady` and `taken` are read by properties only: fetches per
slot, targets healthy ever since a pick began, and the slots that other requests,
or the wrap of the counter, took from it meanwhile.

Actions: one per atomic operation (`FetchAdd`, `LoadHealthy`, `LoadUnhealthy`,
`ProbeStore`) or await (`ProbeConnect`, `Wake`), because tasks run on several
threads and nothing else orders them. Relaxed ordering adds no behaviours that
matter: each atomic is a single location with one modification order, and a
stale load of a flag is a load before the store. Across locations, the code
infers nothing from the order of counter and flags. `Wrap` stands for 2^64.

The checker of the code walks over all routes of a table; the model has one
route, so a pass over the other routes is part of `Wake`'s sleep (`Server` has
them all). `Begin`
stands for the match of a path with the route's prefix, `Finish` for
what `fetch_from_upstream` does next (modelled in `RequestCycle`).

`AtomicPick` is what a pick is to its request: at one moment it gets a target that
is marked healthy, or none because not all are. `ProxyRoute` implements it
(`PicksAtomic`): the decisive step is the load that finds a flag set, or the last
one that does not. That is why `Server` can take a pick to be one step. When
"none" is the answer though a target was healthy throughout is what
`MissedTargetsWereTaken` says.

### HotReload

State: the file (`disk`, `mtime`), `main` and the configuration it loaded, the
tables in the order in which they were built (immutable, so a number says which),
the two ArcSwaps (`proxyCur`, `wasmCur`), the tables that have a checker, the
watcher with its `last_modified`, and the requests. A table is the set of paths
it routes; which upstreams or modules lie behind is left out.

Actions: an editor writes or removes the file; `main` loads, then builds, binds
and spawns, or fails to bind and is restarted (`Restart=on-failure` in the
systemd unit); a crash loses everything in memory; the watcher takes its
baseline, polls, loads and builds, spawns a checker, stores the proxy table,
stores the WASM table: one action between each two awaits or stores that a
request can see. A request loads the proxy snapshot, is relayed or goes on to
load the WASM snapshot, and is answered. `Load` of a missing or unreadable file
is the default configuration, as in `Config::load`.

`Faults` says what may go wrong around the file: it changes before the watcher's
first look (`"startup"`), a write leaves its modification time as it was
(`"tick"`), a read fails for a passing reason (`"read"`), or a module cannot be
read or compiled this time, so that its route is skipped (`"module"`; `Broken` are
the paths whose module never can). The history variable
`hidden` says whether one of them keeps the tables from being what the file
says; the next edit that shows, or the next load, clears it.

`MainStart` is one step from building to accepting because nobody sees what lies
between. Request parsing is part of `Arrive`, as it reads no table.

### AtomicRoutes, HotReloadAtomic

`AtomicRoutes` is what the comments promise requests, without files, watchers or
tables: each path has a handler, a reload changes some of them at once, and a
request is decided at one moment between its arrival and its answer.
`HotReloadAtomic` is the refinement mapping: `HotReload` implements it, though it
keeps two tables, stored and loaded one after the other, for requests whose path
no two configurations give different kinds of routes. For the others it does not
(finding 2). A request that finds no proxy route is decided at that moment if its
path can only be a proxy route, otherwise when it looks for a WASM route.

### RequestCycle

State: a record per request: the await it is suspended at, its protocol, the
status it will report, what remains to do with it (`todo`), what its client got
and what was logged; and history of how it got there. `open` says whether the
client is still there.

Actions: parse, dispatch (proxy without a healthy upstream, proxy, WASM that
answers or fails, static), the awaits of `fetch_from_upstream` with their
errors and the timeout, the relay, then `Log` and `Send` in the order the
handler has them: HTTP/1.1 sends error pages before it logs them and logs
successful WASM and static answers before it sends them; HTTP/2 and HTTP/3
always log first. What becomes of a route match is free here (`HotReload` and
`ProxyRoute` say how it is decided). `Abort` is the `.expect` on the h2 and h3
response builder in a build with `panic = "abort"`.

Statuses are `u16`, as the code parses them; bodies and headers are left out. An
upstream may answer with something that has no status line (`NoStatus`), or close
without a byte (`Empty`): of the latter an HTTP/1.1 client gets nothing
(`Silent`). A client of a relay may leave when a part of the answer has gone out
(`LeaveMidway`): what it has heard then is `Cut`, and the relay fails or, if the rest
still fits into the socket, succeeds. `NameFits` says whether `server_name` is a legal
header value, which the h2 and h3 builders also insist on.

`Exchange` is what all this is to the client and to the reader of the log: one answer
and one line, in either order, which agree and are never revised; the end only when
neither is owed any more; and nobody else's business. `RequestCycle`
implements it (`IsExchange`), silent requests being those that are allowed to end
without an answer: handlers, protocols, upstreams and error pages are
stutters, but for the moments of an answer or a line. What may be reported is what a
handler, a module, a file or an upstream gave (`Reported`).

### Connections

State: each listener (`door`: plain, TLS, QUIC), the connections nobody has
accepted yet, each client's connection and the request tasks on it, and whether
the client keeps its end open. One table of file descriptors is shared by
listeners, accepted TCP connections and connections to upstreams.

Actions: a listener starts or fails (which costs this listener alone); accept
succeeds or, without a descriptor, fails and is tried again; the TLS or QUIC
handshake and the setup of HTTP/2 or HTTP/3; the request loops of
`http2::serve` and `http3::run`, with their ends and errors; requests that take
and return a descriptor. What ALPN may negotiate is HTTP/1.1 or HTTP/2 over TLS
and HTTP/3 over QUIC. What h2 and h3 report after an error is external: h3 repeats
the error of a connection that has failed, and the loop of `http3::run` ends at it;
h2 may end its sequence, perhaps after some errors, or go on to report the error
(`Stick`), and then the loop of `http2::serve`, which continues after an error, goes
round for ever (`LoopSpins`).

### WasmInvoke

State: for each task the step of `invoke` it is at, its store (memory and
`heap_ptr`), where its texts were written, and what was returned. A byte of
memory is known by its origin (the k-th byte of a certain text, or a number), so
that a property can say where an answer's bytes came from.

Actions: `Invoke` (a fresh store), `WriteMethod` and `WritePath` (alloc, then a
checked write), `HandleHello` (the buffer, the status in little endian, the two
copies of `hello.wat`, which trap if they do not fit), `HandleForeign` (another
module may return any pointer and length), `ForeignCode` (and at any time copy the
bytes of its memory about and make up numbers, as `Rewrites` says), `Traps`, and `Read` (the length check,
the checked read, the decoding). `hello.wat` has two pages, starts to allocate
at 4096 and greets in 51 bytes; these are the constants `Size`, `HeapBase` and
`Greeting`. The arithmetic of guest pointers does not wrap: whatever would
leave 32 bits lies beyond the memory first. Tasks share nothing, which is what
`NoLeak` and its mutant (a pooled store) are about.

### StaticRouter

State: where `document_root` leads (one of several releases, or nowhere), what
each release has at each place (a file, a directory, a link to a file outside of all
releases, a link to nothing, nothing; some places, `Outer`, are themselves outside,
by way of ".."),
and for each request the place `route` looks at, the root that
`path_is_within` found, and the answer. `could`, `regular` and `failed` are history:
the answers that one look at the files would have given at each moment of the
request, whether only regular files below the root came and went, and whether the
file system failed to answer.

Actions: the three ways a target becomes a path (`Request::parse` decodes it and
sends two dots home, the two `to_nwarp_request` leave it alone), then one action per
await: `Stat`, `CanonRoot`, `CanonTarget`, `Read`. Whoever deploys may switch the
root or change any place between two of them. Each call may fail (`Said`), and
`route` takes every error for "nothing there": no directory, a root known by its
name only, a target that does not exist (and is then checked by its name,
`router.rs:57-58`), a 404. The model is of a `document_root`
that is a name (relative, or a link), as in the default configuration.

### Server

Composes `HotReload` with what lies behind a table: flags (`dead`) for each of its
targets, the checker's round, upstreams that come and go, and requests that are
relayed. It extends `HotReload` and takes its actions as they are. A pick and a
probe are one step each; a pick may come out as `AtomicPick` says, with a
healthy target or, if any is flagged, with none. `Trouble` is what goes wrong: a host
stops or starts to accept connections (`up`), accepts them but begins or ceases to
fail requests (`unwell`: it is silent, resets, or sends no status line), or the
process begins or ceases to be `short` of descriptors, so that any connect may fail,
those of the checker among them. The history variables `fell` and `sick` hold, for
each table, the hosts that could not be reached, and those that were unwell, at
some moment since it was built.

## Runs

| Run | Instance | Checks | Shows |
|---|---|---|---|
| `ProxyRoute_picks` | N=2, counter modulo 5, two picks | `TypeOK`, `EvenSpread`, `MissedTargetsWereTaken`, `PickReturns`, `PickBounded`, `FlagsConverge`, `DeadUpstreamDrained`, `PicksAtomic` | round robin is even however fetches interleave, a pick misses no target that stayed healthy but those whose slots the other pick or the wrap took, picks end within 2N operations of their own, are single looks at the flags, flags converge, dead upstreams are drained |
| `ProxyRoute_race` | N=2, two picks | `NoneOnlyIfAllUnhealthy` (violated) | finding 1 |
| `HotReload_reload` | three paths, three configurations, one request, three edits, crashes, all faults | `TypeOK`, `CheckedBeforeServed`, `CaughtUp`, `UnaffectedByReload`, `RoutesAtomic`, `SignsReachTables` | checkers come before tables, no edit that shows is missed unless a read of the file or of a module failed, requests see one configuration unless a reload moves their path, the last edit comes into force if it shows |
| `HotReload_torn` | one request, one edit | `OneConfigPerRequest` (violated) | finding 2 |
| `HotReload_startup` | an edit during startup | `EditsReachTables` (violated) | finding 3 |
| `RequestCycle_answers` | two requests of any protocols | `TypeOK`, `LoggedOnce`, `OneAnswer`, `LogTellsAnswer`, `StatusTellsCause`, `UpstreamBounded`, `IsExchange` | answers and access log agree through every failure, but where an upstream has no status line or the client leaves in mid-answer; only an upstream without a byte leaves a client without an answer; a silent upstream is given up; a request is one exchange |
| `RequestCycle_status` | one request, a module that answers 42 | `ResponseWellFormed` (violated) | finding 4 |
| `Connections_tasks` | two clients, two requests each, four descriptors | `TypeOK`, `BacklogKept`, `ConnectionOutlivesRequests`, `NothingLeftBehind`, `BacklogDrains` | requests do not end each other's connections, departed clients leave no task or descriptor but for spinning HTTP/2 loops, a full table delays connections and loses none |
| `WasmInvoke_calls` | two tasks, twelve bytes of memory | `TypeOK`, `HelloEchoes`, `NoLeak`, `NoPanic` | echoes are exact or fail as a whole, nothing leaks, nothing panics |
| `StaticRouter_files` | one request, five places in two releases, two changes, calls that fail | `TypeOK`, `RegularEditsAtomic`, `NeverLost` | edits of regular files below the root cannot be told from a single look, a file that stays is lost only to an error |
| `StaticRouter_protocols` | two requests, all spellings, no changes | `ProtocolsAgree` (violated) | finding 5 |
| `Server_recovery` | one request, one reload, two upstreams, three troubles or crashes | `ServerTypeOK`, `ErrorsHaveCause`, `FlagsSettle`, `AnswersSettle` | 502 and 503 tell of upstreams that could not be reached or failed requests under the answering table; flags, and with them the answers, settle on what the upstreams are |

Why the bounds are enough:

- `N` and `Wrap`: two targets are the least where a pick can be led past one; modulo
  5 the counter makes two laps and then wraps in the middle of one, which is the
  wrap's only effect. Two picks are enough to disturb each other.
- `MaxEdits`: with two edits the second can fall on any step of the reload that the
  first caused (before the load, between the stores, after); the third falls on
  the reload after that. The configurations move one path between proxy, WASM and
  nothing, keep another proxied or give it a module that does not load, and give
  the third a module or not. One request is enough, as requests do not touch
  each other.
- `RequestCycle`: two requests interact only through `Abort`, so two suffice, one that
  aborts and one that is aborted. `WasmStatuses` has 42, which no response builder
  takes, and an ordinary one; `Replies` has 503, the status that also means "no
  healthy upstream".
- `MaxFds` leaves one descriptor beside three listeners, so that a second
  connection or a fetch finds the table full, and two beside two.
- `WasmInvoke`: the memory holds the answer for the short path, the middle path but not
  its answer, and not the long path; a foreign module's pointers lie before the
  memory, in it, across its end and beyond, and it may put a status over what was
  written or copy the end of its memory to itself.
- `StaticRouter`: one request does not see another. Two changes can undo each other,
  or fall on two different gaps between the four awaits. `docs` may be a
  directory with an index, a file or a link; `../log` is outside of the root. The
  spellings that differ by protocol are left to the other run.
- `Server`: one reload makes two tables with a checker each, over two hosts that share
  a route. Three troubles let a host die and come back while the other is unwell, or
  die, a crash follow and descriptors run short. `Faults` is empty here: what they do
  to the tables is checked in `HotReload_reload`, and the theorems about `Server`
  hold with any of them.

The proofs have none of these bounds. Deadlock is checked in every run.

## Fairness

Safety is checked of behaviours without fairness assumptions. The fair
specifications assume:

- `ProxyRoute`: the checker's task and each pick keep moving. A pick has no
  await, so a worker thread that runs it finishes it; the checker awaits a
  connect under a timeout and a sleep, both of which end. Requests need not
  arrive and upstreams need not change.
- `HotReload`: `main`, restarted by systemd when it fails, and the watcher keep
  moving. Nobody needs to edit the file.
- `RequestCycle`: the kernel ends a connect one way or the other and takes a
  request head (no body is forwarded) into the socket's buffer or fails, and
  Tokio's timer fires. The upstream need not answer, the client need not send
  or read.
- `Connections`: a task whose client has left, or whose connection has failed, is woken
  with an error, and an HTTP/2 loop leaves unless it is stuck; request tasks end (`RequestCycle`). Accept is strongly fair: the
  loop calls it again at once after an error, so it does not miss for ever that
  a descriptor is free. `BacklogDrains` also assumes, as its premise, that no
  client stays connected for ever and no HTTP/2 loop spins: the code has no timeout
  that would see to either.
- `Server`: `main`, the watcher, every checker and every request that has come.
  Upstreams, crashes and edits are left alone, and bounded in number: "settle"
  means after the last of them.

All but the one on accept are weak: the actions stay enabled until taken.

## Proofs

Every theorem is proved for all values of the constants, from the assumptions
named where the constants are declared: a route has at least one target
(`Config::load` drops a route without), the counter's modulus is positive, there
is at least one path, configurations are pairs of sets of paths, statuses are
16-bit numbers, the listeners fit into the descriptor table, `hello.wat`'s
greeting lies below its heap and both within its memory, a byte that is a number is
no byte of a text, a place's index file is
a place, the places outside of the root are places, every proxied path has an upstream, and the marks for "no upstream" are no
hosts. `tlapm` proves every leaf.

**`ProxyRouteProofs`.** `TypeCorrect` is inductive as it stands: `% n` keeps an
index within the targets, the checker's walk too, so `self.targets[idx]` cannot
panic. `RoundRobin` (`EvenSpread`) needs the exact count behind it,
`LandedExactly`: since the counter was last zero, a slot has been visited
`counter \div N` times, and once more if the current lap has passed it. That is
inductive by the lemma `NextSlot` about quotient and remainder of successive
numbers. `LapComplete` (`MissedTargetsWereTaken`) rests on `LapInv`: a target in
`steady` is healthy now, `tries` is zero outside the loop, and of each pick in the
loop, the slots that went by since it began are the `m` ones behind the
counter's, on the ring of slots, with `m` no less than what the pick has fetched
itself. Each of them is `Excused`: another request took it (or the wrap of the
counter passed over it), or the pick found its target cleared, or is about to look
at it. A fetch by any request, and the wrap, only make the stretch of slots
longer (`MovedOn`, `StartedAgain`); with `N` turns it is the whole ring
(`FullRing`). `LapAlone` says what this leaves of the comment that finding 1
contradicts: on a route that serves one request at a time, with a number of
targets that divides the counter's range, `NoneOnlyIfAllUnhealthy` holds.
`PickIsAtomic` (`PicksAtomic`) maps each step to one of `AtomicPick` or to none.
`PickWaitFree` (`PickBounded`) is the part of `PickReturns` that needs no fairness:
what is left of a pick is at most `2n` operations, and shrinks with each of its own.

**`HotReloadProofs`.** `TypeCorrect` needs `Started` (a running watcher has a
table). The other theorems rest on `InOrder`: the WASM table in force is never newer
than the proxy table in force, and the watcher's place in its loop says how far
they may be apart. `ReloadLeavesRequestsAlone` (`UnaffectedByReload`) adds
`RequestsOK`: what an answered request did is accounted for by two tables
that were in force between its arrival and its answer (`Accounted`), kept
by every later step because tables are only ever added (`Growth`).
`NoTableUnchecked` (`CheckedBeforeServed`) adds `Checked`: every table with proxy
routes has a checker, but for the newest while the watcher is about to spawn it.
`ReloadsCatchUp` (`CaughtUp`) adds `NoEditMissed`: whenever `last_modified` is the
file's time, the watcher is past its load and nothing is `hidden`, the newest table
is what the file says. It holds with any faults; finding 3 is a case of `hidden`.

**`RequestCycleProofs`.** The types need `Tasks`: a request that reports has
something left to report, one that relays has something to relay. The other
theorems, `LogComplete` (`LoggedOnce`), `AnswerUnique` (`OneAnswer`), `LogTruthful`
(`LogTellsAnswer`) and `CauseTold` (`StatusTellsCause`), read their properties
off one invariant, `AllBooked`, which keeps two books per request. `Ledger` ties
what has been done to what is left to do: the line is in the log exactly when
"log" is no longer in `todo` (and the request was parsed), the client has its
answer, or has left, when "send" is no longer in it. `Cause` ties the status to
what became of the upstream. No other request can touch a request's books but by
aborting the process. The assumption that `NoStatus`, `Empty` and `Cut` are not
numbers says that an answer without a status line, or a part of one, is not one with a
status. `ThreeDigitsSuffice` bounds finding 4: if modules and upstreams answer with
100..999 and `server_name` is a header value, then every response is well formed and no request is lost. Its invariant,
`AllSourced`, says that what a request is about to report is in `Reported`; the
handlers' own statuses have three digits.
`ServesExchanges` (`IsExchange`) maps each step to one of `Exchange` or to none. The
books say that a task is done only when nothing is owed (`DoneSettled`), that
there was no answer before an answer and no line before a line, and that the two
agree; `AllSourced` says that both are among what may be reported.

**`HotReloadAtomicProofs`.** `ReloadIsAtomic` (`RoutesAtomic`): `HotReload`
implements `AtomicRoutes`, with any faults. Each step maps to a step or a stutter
of the abstract specification; a store changes the abstract routes of its kind's
paths, a crash resets. The proof needs `TypeOK`, `InOrder`, and that tables contain
only paths that some configuration gives that kind of route (`TablesKnown`).

**`ConnectionsProofs`.** `TypeCorrect` is inductive as it stands.
`BacklogIsKept` (`BacklogKept`) says that those who wait and those in the queues are the
same, one place each, and that errors of accept end no listener: what
`BacklogDrains` rests on besides fairness. `RequestsKeepConnection`
(`ConnectionOutlivesRequests`) needs its first half, `QueueSound` (accept never
hands out a connection that is being served), and `ConnSound`: a connection that is not open yet
has no request task, nor has an HTTP/1.1 connection that has been asked nothing,
and an HTTP/1.1 connection never has two.

**`WasmInvokeProofs`.** The lemmas `PutBytes`, `GetBytes` and `PutGet` say what a
write leaves in memory and what a read returns. `EchoesFaithful` (`HelloEchoes`)
rests on an invariant that says, step by step, which part of a call's memory holds
the greeting, the method, the path and the answer, with the heap above all of
them, and that a call which has failed had texts too long for its memory.
`NothingLeaks` (`NoLeak`) rests on the origin of every byte of a call's memory, which no code in it can
change for another request's, and
`NeverPanics` (`NoPanic`) on the length of what is read.

**`StaticRouterProofs`.** `RegularEditsAreAtomic` (`RegularEditsAtomic`) and
`NothingIsLost` (`NeverLost`) need an invariant that ties each await to `could`:
the answer which the files give at the moment is always in it, and, as long as
only regular files below the root have changed and no call has failed, directories,
links, what is outside and the root are what they were when the request came
(`RegularLook`), so that the place and the root found by earlier
awaits are those of any other moment. `ProtocolsAgreeOnPlainTargets` bounds finding 5:
targets that `sanitize_path` leaves as they are get the same answer over each
protocol. A request that has seen no change (`Undisturbed`) could only have been
answered what the files give under its path.

**`ServerProofs`.** `ServerIsHotReload` shows that every step of the composition is a
step of `HotReload` or leaves its variables alone; `ServerReloads` takes
`CheckedBeforeServed`, `UnaffectedByReload` and `RoutesAtomic` over to it, and
`ServerCatchesUp` takes `CaughtUp`. `ServerTypeCorrect`
(`ServerTypeOK`) shows that every table, and no other, has flags, of its own
targets only. `ErrorsAreCaused` (`ErrorsHaveCause`) adds `FellOK` (a table has seen
what cannot be reached or is unwell now, and what it has flagged) and `CauseOK` (a request that has
picked nobody has a cause in the table it holds, which stays one: `Remembered`); that a
relayed request's table exists comes from `RequestsOK` of `HotReload`.

Left to TLC: all liveness properties (`PickReturns`, `FlagsConverge`,
`DeadUpstreamDrained`, `SignsReachTables`, `UpstreamBounded`, `NothingLeftBehind`,
`BacklogDrains`, `FlagsSettle`, `AnswersSettle`), which rest on fairness and
ENABLED and are beyond this prover, and the violations.

## Findings

1. `ProxyRoute_race`. The `n` fetches of a pick need not fall on `n` different
   slots when another request fetches in between. With two targets, one of them
   unhealthy, a pick can load the unhealthy one twice and answer 503 although the
   other was healthy throughout (`proxy/mod.rs:38`; the comment at 27-31 promises
   a full lap).
2. `HotReload_torn`. A request loads its two snapshots at different times, so a
   path that a reload moves from one kind of route to the other can find neither
   and be answered from the document root (`connection.rs:44-46` says that
   requests in flight are never affected).
3. `HotReload_startup`. The watcher's baseline is taken after `main` has loaded
   the file, so a change in between is not loaded until the next one
   (`listener.rs:144`, `README.md:127`).
4. `RequestCycle_status`. A status outside 100..999, from a module or an upstream,
   fails the `.expect` on HTTP/2 and HTTP/3 response builders and, in a
   release build, ends the process. `ThreeDigitsSuffice` says that nothing else does
   but a `server_name` that is no header value.
5. `StaticRouter_protocols`. Percent-decoding and the rule for two dots in a row are
   part of HTTP/1.1's parser alone, so `/%7Eann` and `/a..b` name other files over
   HTTP/2 and HTTP/3 (`ARCHITECTURE.md:25-28` says that the three run through the
   same logic). `ProtocolsAgreeOnPlainTargets` says that other targets do not.

What the models show besides, without a run of its own:

- `EditsReachTables` also fails with the faults `"tick"` (two writes within one
  tick of the file system's clock: the second is not seen, `listener.rs:154`),
  `"read"` (a read that fails once installs the defaults until the next change,
  `config/mod.rs:72`) and `"module"` (a module that fails to load once has no route
  until then, `wasm/mod.rs:33-38`: the watcher looks at the config file alone).
  `SignsReachTables` says that nothing else makes it fail.
- A pick during which the counter wraps can miss a healthy target without anybody's
  doing: with a number of targets that does not divide 2^64, the last lap is cut
  short. `MissedTargetsWereTaken` counts those slots as taken.
- `NeverLost` has to allow 403: a request that resolves the root before a switch of
  `document_root` and the target after it is forbidden a file that both releases
  have (`router.rs:52-55`). It also has to allow 404 where a call failed
  (`router.rs:47`).
- `RegularEditsAtomic` has to leave out changes outside of the root and of links: a
  target that cannot be resolved is checked by its name (`router.rs:57-58`), and
  what is read afterwards is what has come there since.
- An HTTP/1.1 client of an upstream that closes without a byte gets nothing at all,
  and the log says 502 (`proxy/mod.rs:180-186`). One that leaves in the middle of a
  relayed answer may be logged as 502, though the upstream did not fail.
- If h2 goes on to report an error of a connection that it has closed, the loop of
  `http2::serve` spins (`http2/mod.rs:39-45`), and its task and descriptor are never
  given back; `NothingLeftBehind` and `BacklogDrains` except it.
- An upstream that accepts connections and fails requests gives 502s for as long as it
  does (`AnswersSettle`): the check is of connections only (`proxy/mod.rs:98-100`).
- A reload makes upstreams known to be dead eligible again until their first probe,
  even if the file's proxy routes did not change (`listener.rs:160`);
  `FlagsSettle` says that this passes. `ARCHITECTURE.md:192` mentions it for a cold
  start.
- A checker is spawned by every reload that has proxy routes, changed or not, and
  none ever ends (`listener.rs:166-172`; `ARCHITECTURE.md:292-297` speaks of reloads
  that change proxy routes).

## Not modelled

- Time. Timeouts are steps that may be taken; intervals have no length. So nothing
  is said about how long a connect to an upstream may take (`proxy/mod.rs:147` sets
  no timeout) or about clients that send or read slowly.
- The text of the configuration: `parse_kv`, clamping, and which of two routes with
  equal prefixes wins (`config/mod.rs:139`). It is a pure function of the file's
  characters but for the last point, which is the iteration order of a `HashMap`.
- Longest-prefix matching of paths: a table is the set of paths it routes.
- Bytes, headers, bodies, MIME types; key formats, ciphers, the protocols of `h2`,
  `h3`, `quinn`, `rustls` and `wasmi`, which are external.
- The log file: lines are written whole under one mutex, so there is nothing to
  interleave below a line. That a line may fail to be written is not modelled
  (its error is ignored, and no property could tell).
- The runtime's worker threads, and a WASM handler that never returns: nothing in the
  code bounds it (`wasm/mod.rs:128`), so there is no property to state.
- Memory exhaustion, for one of the buffer that `invoke` allocates at the length the
  module states before it compares that with the memory (`wasm/mod.rs:139`).
- Links to directories outside of the root, under which further places would lie:
  `Outer` has the places that lie outside by their names.
- `server/pool.rs` (not compiled), packaging scripts, samples, site assets,
  argument parsing.
