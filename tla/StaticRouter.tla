---------------------------- MODULE StaticRouter ----------------------------
(***************************************************************************)
(* Requests answered from the document root: the path each protocol makes  *)
(* of a request's target, and route of src/http/router.rs, which asks the  *)
(* file system four times, awaiting each answer, while someone deploys.    *)
(* Each of the four may fail for reasons that have nothing to do with the  *)
(* files (no free descriptor, no permission, an I/O error); route takes    *)
(* every error for "there is nothing".                                     *)
(*                                                                         *)
(* document_root is the name of a directory, as in "./www" or "current":   *)
(* the name may lead to one release of the site now and to another later,  *)
(* and as a name it is no prefix of any canonical path.                    *)
(***************************************************************************)
EXTENDS Naturals

CONSTANTS
  Tasks,       \* request tasks
  Methods,     \* request methods
  Targets,     \* request targets, without their query strings
  Decoded,     \* percent_decode
  Dotted,      \* the targets that contain ".."
  Slash,       \* the target "/"
  Places,      \* files and directories that targets name, relative to the root
  Outer,       \* those that are outside of it, by way of ".."
  Rel,         \* the place a target names, without leading slashes
  Join,        \* the place of a place's index_file
  Releases,    \* directories that document_root may lead to
  Gone,        \* it leads nowhere
  Trees,       \* what a release may look like at first
  MaxChanges   \* bound on changes of the file system

\* What a place is.  A link leads to a file outside of every release, a dangling
\* one to where no file is.
Kinds == {"none", "file", "dir", "link", "dangling"}

ASSUME TargetsAssumption ==
  Slash \in Targets /\ Dotted \subseteq Targets /\ Decoded \in [Targets -> Targets]
ASSUME PlacesAssumption ==
  Rel \in [Targets -> Places] /\ Join \in [Places -> Places] /\ Outer \subseteq Places
ASSUME TreesAssumption   == Trees \subseteq [Places -> Kinds]
ASSUME ReleaseAssumption == Gone \notin Releases
ASSUME ChangesAssumption == MaxChanges \in Nat

VARIABLES
  home,      \* external: where document_root leads
  tree,      \* external: each release's places
  changes,   \* external: how many changes there were
  req        \* each task's request

diskVars == <<home, tree, changes>>
vars     == <<home, tree, changes, req>>

-----------------------------------------------------------------------------
(***************************************************************************)
(* Paths.  HTTP/2 and HTTP/3 take the target as it is.                     *)
(***************************************************************************)

\* sanitize_path: decode, and ask for "/" if there are two dots in a row.
SanitizePath(target) ==
  IF Decoded[target] \in Dotted THEN Slash ELSE Decoded[target]

\* The file system's view of a place now: nothing lies below what is no
\* directory.
Look(h, tr, place) ==
  IF h = Gone \/ \E d \in Places : d # place /\ Join[d] = place /\ tr[h][d] # "dir"
  THEN "none" ELSE tr[h][place]

\* What is at the place is outside of the root.
Outside(place, k) == k = "link" \/ (k \in {"file", "dir"} /\ place \in Outer)

Homes   == Releases \cup {Gone}
Answers == [status : {200, 403, 404, 405}, home : Homes, place : Places]

Ok(h, place) == [status |-> 200, home |-> h, place |-> place]
Forbidden    == [status |-> 403, home |-> Gone, place |-> Rel[Slash]]
NotFound     == [status |-> 404, home |-> Gone, place |-> Rel[Slash]]
NotAllowed   == [status |-> 405, home |-> Gone, place |-> Rel[Slash]]

\* A request: where it is, its protocol and path, route's full_path, the root
\* that path_is_within has found, and the answer.  `could', `regular' and `failed'
\* are history: the answers that a look at the files in one moment would have given
\* since it came; whether only regular files, and none outside of the root, came
\* and went; and whether the file system failed to answer it.
RequestType ==
  [at : {"idle", "stat", "root", "target", "read", "done"},
   proto : {"h1", "h2", "h3"}, target : Targets, path : Targets, full : Places,
   root : Homes, answer : Answers, could : SUBSET Answers, regular : BOOLEAN,
   failed : BOOLEAN]

\* Files are what files can be, and requests where route can be.
TypeOK ==
  /\ home    \in Homes
  /\ tree    \in [Releases -> [Places -> Kinds]]
  /\ changes \in 0 .. MaxChanges
  /\ req     \in [Tasks -> RequestType]

\* The answer that one look at the files gives: a directory stands for its
\* index file, and what is outside of the root is forbidden.
FullPath(h, tr, path) ==
  IF Look(h, tr, Rel[path]) = "dir" THEN Join[Rel[path]] ELSE Rel[path]

AnswerFor(h, tr, path) ==
  LET full == FullPath(h, tr, path)  k == Look(h, tr, full) IN
  CASE Outside(full, k)                 -> Forbidden
    [] k = "file" /\ ~ Outside(full, k) -> Ok(h, full)
    [] OTHER                            -> NotFound

NoRequest ==
  [at |-> "idle", proto |-> "h1", target |-> Slash, path |-> Slash, full |-> Rel[Slash],
   root |-> Gone, answer |-> NotFound, could |-> {}, regular |-> TRUE,
   failed |-> FALSE]

Init ==
  /\ home \in Releases
  /\ tree \in [Releases -> Trees]
  /\ changes = 0
  /\ req = [t \in Tasks |-> NoRequest]

-----------------------------------------------------------------------------
(***************************************************************************)
(* Whoever deploys.  A release is put in place by another link under the   *)
(* same name, in one step (rename) or two (unlink, symlink); files and     *)
(* directories in it come, go, and are replaced.                           *)
(***************************************************************************)

Active(t) == req[t].at \in {"stat", "root", "target", "read"}

Seen(regular) ==
  req' = [t \in Tasks |->
    IF Active(t)
    THEN [req[t] EXCEPT !.could   = @ \cup {AnswerFor(home', tree', req[t].path)},
                        !.regular = @ /\ regular]
    ELSE req[t]]

Switch(h) ==
  /\ changes < MaxChanges
  /\ home # h
  /\ home' = h
  /\ changes' = changes + 1
  /\ UNCHANGED tree
  /\ Seen(FALSE)

Change(h, place, kind) ==
  /\ changes < MaxChanges
  /\ tree[h][place] # kind /\ (place \in Outer => kind \in {"none", "file", "dir"})
  /\ tree' = [tree EXCEPT ![h][place] = kind]
  /\ changes' = changes + 1
  /\ UNCHANGED home
  /\ Seen({tree[h][place], kind} = {"none", "file"} /\ place \notin Outer)

-----------------------------------------------------------------------------
(***************************************************************************)
(* A request whose path falls under no proxy or WASM route.                *)
(***************************************************************************)

Route_NoTrim(t, proto, method, target, path) ==
  LET r == [NoRequest EXCEPT !.proto = proto, !.target = target, !.path = path] IN
  /\ req[t].at = "idle"
  /\ req' = [req EXCEPT ![t] =
       IF method \in {"GET", "HEAD"}
       THEN [r EXCEPT !.at = "stat", !.full = path, !.could = {AnswerFor(home, tree, path)}]
       ELSE [r EXCEPT !.at = "done", !.answer = NotAllowed, !.could = {NotAllowed}]]
  /\ UNCHANGED diskVars

\* if req.method != "GET" && req.method != "HEAD" { .. 405 .. }; then the path
\* is trimmed, and "/" is the index file.
Route(t, proto, method, target, path) ==
  LET r == [NoRequest EXCEPT !.proto = proto, !.target = target, !.path = path] IN
  /\ req[t].at = "idle"
  /\ req' = [req EXCEPT ![t] =
       IF method \in {"GET", "HEAD"}
       THEN [r EXCEPT !.at = "stat", !.full = Rel[path],
                      !.could = {AnswerFor(home, tree, path)}]
       ELSE [r EXCEPT !.at = "done", !.answer = NotAllowed, !.could = {NotAllowed}]]
  /\ UNCHANGED diskVars

\* Request::parse.
ArriveHttp1(t, m, target) == Route(t, "h1", m, target, SanitizePath(target))

\* The two to_nwarp_request: req.uri().path().to_string().
ArriveHttp2(t, m, target) == Route(t, "h2", m, target, target)
ArriveHttp3(t, m, target) == Route(t, "h3", m, target, target)

\* What a call says of the request's place: what is there, or, if it fails, that
\* there is nothing.
Said(t) == {Look(home, tree, req[t].full), "none"}

\* History: a call has said something else than what there was to see.
Failed(t, said, seen) == req[t].failed \/ said # seen

Stat_NoIndex(t) ==
  /\ req[t].at = "stat"
  /\ req' = [req EXCEPT ![t].at = "root"]
  /\ UNCHANGED diskVars

\* fs::metadata: a directory stands for its index file.
Stat(t) ==
  /\ req[t].at = "stat"
  /\ LET full == req[t].full IN
       \E k \in Said(t) :
         req' = [req EXCEPT ![t] =
           [@ EXCEPT !.at = "root", !.full = IF k = "dir" THEN Join[full] ELSE full,
                     !.failed = Failed(t, k, Look(home, tree, full))]]
  /\ UNCHANGED diskVars

\* fs::canonicalize(root), or the name itself, which is the root of nothing.
CanonRoot(t) ==
  /\ req[t].at = "root"
  /\ \E h \in {home, Gone} :
       req' = [req EXCEPT ![t] =
         [@ EXCEPT !.at = "target", !.root = h, !.failed = Failed(t, h, home)]]
  /\ UNCHANGED diskVars

\* fs::canonicalize(target): its place must lie below the root found before.
\* What cannot be found lies, as a name, below the root's name.
CanonTarget(t) ==
  /\ req[t].at = "target"
  /\ \E k \in Said(t) :
       req' = [req EXCEPT ![t] =
         IF \/ k \in {"none", "dangling"}
            \/ ~ Outside(req[t].full, k) /\ req[t].root = home
         THEN [@ EXCEPT !.at = "read",
                        !.failed = Failed(t, k, Look(home, tree, req[t].full))]
         ELSE [@ EXCEPT !.at = "done", !.answer = Forbidden]]
  /\ UNCHANGED diskVars

\* What reading a place as it is now gives; a directory cannot be read.
Bytes(h, place, k) ==
  IF k \notin {"file", "link"} THEN NotFound
  ELSE Ok(IF Outside(place, k) THEN Gone ELSE h, place)

Read_PinnedRoot(t) ==
  /\ req[t].at = "read"
  /\ LET h == req[t].root  full == req[t].full IN
       req' = [req EXCEPT ![t] =
         [@ EXCEPT !.at = "done", !.answer = Bytes(h, full, Look(h, tree, full))]]
  /\ UNCHANGED diskVars

\* fs::read, of whatever is there by now: every error is 404.
Read(t) ==
  /\ req[t].at = "read"
  /\ \E k \in Said(t) :
       req' = [req EXCEPT ![t] =
         [@ EXCEPT !.at = "done", !.answer = Bytes(home, req[t].full, k),
                   !.failed = Failed(t, k, Look(home, tree, req[t].full))]]
  /\ UNCHANGED diskVars

\* The task will serve another request.
Done(t) ==
  /\ req[t].at = "done"
  /\ req' = [req EXCEPT ![t] = NoRequest]
  /\ UNCHANGED diskVars

-----------------------------------------------------------------------------
Deploy ==
  \/ \E h \in Homes : Switch(h)
  \/ \E h \in Releases, place \in Places, kind \in Kinds : Change(h, place, kind)

Arrive(t) ==
  \E m \in Methods, target \in Targets :
    ArriveHttp1(t, m, target) \/ ArriveHttp2(t, m, target) \/ ArriveHttp3(t, m, target)

Next ==
  \/ Deploy
  \/ \E t \in Tasks :
       Arrive(t) \/ Stat(t) \/ CanonRoot(t) \/ CanonTarget(t) \/ Read(t) \/ Done(t)

Spec == Init /\ [][Next]_vars

=============================================================================
