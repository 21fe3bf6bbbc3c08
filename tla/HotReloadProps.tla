--------------------------- MODULE HotReloadProps ---------------------------
(***************************************************************************)
(* What hot reload promises to whoever edits the file and to the requests  *)
(* that are served meanwhile.                                              *)
(***************************************************************************)
EXTENDS HotReload

\* A table with proxy routes that is in force, or that a request is being
\* relayed by, has a health checker of its own: a target of a reloaded table
\* never stays "assumed healthy" for want of a checker (listener.rs:166-174).
CheckedBeforeServed ==
  \A g \in {proxyCur} \cup {req[r].seen : r \in {q \in Requests : req[q].at = "relay"}} :
    g > 0 /\ tables[g].proxy # {} => g \in checkers

\* Whenever the watcher sleeps and has nothing to notice, both tables in force
\* were built from what the file says now (listener.rs:149-175: the time is
\* read before the contents, so a write between the two is noticed later),
\* unless that is hidden from it, or the file or a module it names could not be
\* read that time (config/mod.rs:63, wasm/mod.rs:33-38, :61-65); and then the
\* next change that shows, or the next load, sets things right.
CaughtUp ==
  watcher.at = "sleep" /\ disk # Missing /\ watcher.last = mtime /\ ~ hidden =>
    /\ proxyCur = Newest /\ wasmCur = Newest
    /\ tables[Newest] = Build(Load(disk))

\* In-flight requests are not affected by a reload (connection.rs:44-46), as
\* far as the code goes: a path that all the tables in force at some moment of
\* the request send to the same handler is answered by that handler, and a
\* request that arrives after a reload is never answered by older tables.
UnaffectedByReload ==
  \A r \in Requests : req[r].at = "answered" =>
    \A h \in Handlers :
      (\A g \in req[r].from .. req[r].upto : Decide(tables[g], req[r].path) = h)
        => req[r].answer = h

\* The same promise as the comment makes it: each request loads one snapshot
\* "at the start of the request", so some configuration that was in force
\* during the request accounts for the answer.
OneConfigPerRequest ==
  \A r \in Requests : req[r].at = "answered" =>
    \E g \in req[r].from .. req[r].upto :
      req[r].answer = Decide(tables[g], req[r].path)

\* Both tables in force are what the file says.
InForce ==
  /\ proxyCur > 0 /\ wasmCur = proxyCur
  /\ tables[proxyCur] = Build(Load(disk))

\* Once the file is left alone, both tables come to be what it says and stay so,
\* over crashes and restarts, unless the last change was hidden or the last
\* load met a file or module it could not read (listener.rs:147-180): nothing
\* else, no order of edits and reloads, keeps an edit from the tables.
SignsReachTables ==
  <>[](main = "serving" /\ disk # Missing /\ ~ hidden => InForce)

\* The same without the proviso, README.md:127: changes hot-reload automatically.
EditsReachTables == <>[](main = "serving" /\ disk # Missing => InForce)

=============================================================================
