------------------------- MODULE StaticRouterProofs -------------------------
(***************************************************************************)
(* Theorems about StaticRouter, for any site, any number of requests and   *)
(* any number of changes.                                                  *)
(***************************************************************************)
EXTENDS StaticRouterProps, TLAPS

Unfinished == {"stat", "root", "target", "read"}

-----------------------------------------------------------------------------
(***************************************************************************)
(* One look.                                                               *)
(***************************************************************************)

\* A place is of some kind, and an answer is an answer.
LEMMA LookType ==
  ASSUME NEW h \in Homes, NEW tr \in [Releases -> [Places -> Kinds]], NEW place \in Places
  PROVE  Look(h, tr, place) \in Kinds
BY DEF Look, Kinds, Homes

LEMMA FixedAnswers ==
  /\ Forbidden \in Answers /\ NotFound \in Answers /\ NotAllowed \in Answers
  /\ Forbidden.status = 403 /\ NotFound.status = 404 /\ NotAllowed.status = 405
<1>1. Rel[Slash] \in Places
  BY TargetsAssumption, PlacesAssumption
<1> QED BY <1>1 DEF Forbidden, NotFound, NotAllowed, Answers, Homes

\* A served file is known by where it is.
LEMMA OkAnswer ==
  ASSUME NEW h \in Homes, NEW place \in Places
  PROVE  /\ Ok(h, place) \in Answers
         /\ Ok(h, place).status = 200 /\ Ok(h, place).place = place
BY DEF Ok, Answers

\* What one look gives.
LEMMA AnswerType ==
  ASSUME NEW h \in Homes, NEW tr \in [Releases -> [Places -> Kinds]], NEW path \in Targets
  PROVE  /\ FullPath(h, tr, path) \in Places
         /\ AnswerFor(h, tr, path) \in Answers
<1>1. FullPath(h, tr, path) \in Places
  BY PlacesAssumption DEF FullPath
<1> DEFINE full == FullPath(h, tr, path)
           k == Look(h, tr, full)
           o == Outside(full, k)
<1>2. AnswerFor(h, tr, path)
        = CASE o -> Forbidden [] k = "file" /\ ~ o -> Ok(h, full) [] OTHER -> NotFound
  BY DEF AnswerFor
<1>3. Ok(h, full) \in Answers
  BY <1>1, OkAnswer
<1> HIDE DEF k, full, o
<1>4. AnswerFor(h, tr, path) \in Answers
  <2>1. CASE o
    BY <1>2, FixedAnswers, <2>1
  <2>2. CASE k = "file" /\ ~ o
    BY <1>2, <1>3, <2>2
  <2>3. CASE k # "file" /\ ~ o
    BY <1>2, FixedAnswers, <2>3
  <2> QED BY <2>1, <2>2, <2>3
<1> QED BY <1>1, <1>4

\* A look that finds the file itself.
LEMMA DirectAnswer ==
  ASSUME NEW h \in Homes, NEW tr \in [Releases -> [Places -> Kinds]], NEW path \in Targets,
         AnswerFor(h, tr, path).status = 200,
         AnswerFor(h, tr, path).place = Rel[path]
  PROVE  /\ Look(h, tr, Rel[path]) = "file" /\ ~ Outside(Rel[path], "file")
         /\ AnswerFor(h, tr, path) = Ok(h, Rel[path])
<1> DEFINE full == FullPath(h, tr, path)
           k == Look(h, tr, full)
           o == Outside(full, k)
<1>1. AnswerFor(h, tr, path)
        = CASE o -> Forbidden [] k = "file" /\ ~ o -> Ok(h, full) [] OTHER -> NotFound
  BY DEF AnswerFor
<1>2. full \in Places
  BY AnswerType
<1>3. k = "file" /\ ~ o /\ AnswerFor(h, tr, path) = Ok(h, full)
  <2> HIDE DEF k, full, o
  <2>1. CASE o
    BY <1>1, <2>1, FixedAnswers
  <2>2. CASE k = "file" /\ ~ o
    BY <1>1, <2>2
  <2>3. CASE k # "file" /\ ~ o
    BY <1>1, <2>3, FixedAnswers
  <2> QED BY <2>1, <2>2, <2>3
<1>4. full = Rel[path]
  <2> HIDE DEF full
  <2> QED BY <1>2, <1>3, OkAnswer
<1> QED BY <1>3, <1>4

\* Regular files that come and go below the root turn nothing into a directory, or
\* back, and move nothing out of the root, or in.
SameLook(h, tr, x) ==
  /\ Look(h, tr, x) = "dir" <=> Look(home, tree, x) = "dir"
  /\ Outside(x, Look(h, tr, x)) <=> Outside(x, Look(home, tree, x))

LEMMA RegularLook ==
  ASSUME TypeOK, NEW h \in Releases, NEW place \in Places \ Outer, NEW kind \in Kinds,
         tree' = [tree EXCEPT ![h][place] = kind],
         {tree[h][place], kind} = {"none", "file"},
         NEW x \in Places
  PROVE  SameLook(home, tree', x)
<1>1. /\ tree \in [Releases -> [Places -> Kinds]] /\ tree' \in [Releases -> [Places -> Kinds]]
      /\ home \in Homes
  BY DEF TypeOK
<1>2. tree[h][place] \in {"none", "file"} /\ kind \in {"none", "file"}
  OBVIOUS
<1>3. \A g \in Releases, y \in Places :
        /\ tree'[g][y] = "dir" <=> tree[g][y] = "dir"
        /\ tree'[g][y] = "link" <=> tree[g][y] = "link"
        /\ y \in Outer => tree'[g][y] = tree[g][y]
  BY <1>1, <1>2
<1>4. CASE home = Gone
  <2>1. Look(home, tree', x) = "none" /\ Look(home, tree, x) = "none"
    BY <1>4 DEF Look
  <2> QED BY <2>1 DEF SameLook
<1>5. CASE home \in Releases /\ home # Gone
  <2> DEFINE B(tr) == \E d \in Places : d # x /\ Join[d] = x /\ tr[home][d] # "dir"
  <2>1. B(tree') <=> B(tree)
    BY <1>3, <1>5
  <2>2. /\ Look(home, tree', x) = IF B(tree') THEN "none" ELSE tree'[home][x]
        /\ Look(home, tree, x) = IF B(tree) THEN "none" ELSE tree[home][x]
    BY <1>5 DEF Look
  <2> HIDE DEF B
  <2>3. /\ Look(home, tree', x) = "dir" <=> Look(home, tree, x) = "dir"
        /\ Look(home, tree', x) = "link" <=> Look(home, tree, x) = "link"
        /\ x \in Outer => Look(home, tree', x) = Look(home, tree, x)
    BY <1>3, <1>5, <2>1, <2>2
  <2> QED BY <2>3 DEF SameLook, Outside
<1> QED BY <1>1, <1>4, <1>5 DEF Homes

-----------------------------------------------------------------------------
(***************************************************************************)
(* A request, step by step, with the files as they are now.                *)
(***************************************************************************)

\* What it would be answered now is among what it could be answered.
Current(h, tr, r) ==
  /\ r.at \in Unfinished => AnswerFor(h, tr, r.path) \in r.could
  /\ r.at = "stat" => r.full = Rel[r.path]

\* While only regular files come and go and the file system answers, what it has
\* found out stays true.
Steady(h, tr, r) ==
  r.regular /\ ~ r.failed =>
    /\ r.at \in {"root", "target", "read"} => r.full = FullPath(h, tr, r.path)
    /\ r.at = "target" => r.root = h
    /\ r.at = "read" => ~ Outside(r.full, Look(h, tr, r.full))
    /\ r.at = "done" => r.answer \in r.could

\* While its file is there, it asks for that file.
Direct(r) == \A a \in r.could : a.status = 200 /\ a.place = Rel[r.path]

Kept(r) ==
  Direct(r) =>
    /\ r.at \in {"root", "target", "read"} => r.full = Rel[r.path]
    /\ r.at = "done"
         => r.answer \in r.could \cup {Forbidden} \cup (IF r.failed THEN {NotFound} ELSE {})

RequestOK(h, tr, r) ==
  r \in RequestType /\ Current(h, tr, r) /\ Steady(h, tr, r) /\ Kept(r)

AllOK == TypeOK /\ \A t \in Tasks : RequestOK(home, tree, req[t])

\* A task without a request.
LEMMA NoRequestOK ==
  ASSUME NEW h, NEW tr PROVE RequestOK(h, tr, NoRequest)
<1>1. NoRequest.at = "idle"
  BY DEF NoRequest
<1>2. Rel[Slash] \in Places /\ Slash \in Targets
  BY TargetsAssumption, PlacesAssumption
<1>3. NotFound \in Answers
  BY FixedAnswers
<1>4. NoRequest \in RequestType
  BY <1>2, <1>3 DEF NoRequest, RequestType, Homes
<1> QED BY <1>1, <1>4 DEF RequestOK, Current, Steady, Kept, Unfinished

\* A request comes.
LEMMA RouteOK ==
  ASSUME AllOK, NEW t \in Tasks, NEW proto \in {"h1", "h2", "h3"}, NEW m,
         NEW target \in Targets, NEW path \in Targets, Route(t, proto, m, target, path)
  PROVE  \E d : RequestOK(home, tree, d) /\ req' = [req EXCEPT ![t] = d]
<1> DEFINE r == [NoRequest EXCEPT !.proto = proto, !.target = target, !.path = path]
           d1 == [r EXCEPT !.at = "stat", !.full = Rel[path],
                           !.could = {AnswerFor(home, tree, path)}]
           d2 == [r EXCEPT !.at = "done", !.answer = NotAllowed, !.could = {NotAllowed}]
<1>1. req' = [req EXCEPT ![t] = IF m \in {"GET", "HEAD"} THEN d1 ELSE d2]
  BY DEF Route
<1>2. NoRequest \in RequestType /\ NoRequest.regular
  <2>1. RequestOK(home, tree, NoRequest)
    BY NoRequestOK
  <2> QED BY <2>1 DEF RequestOK, NoRequest
<1>3. Rel[path] \in Places /\ AnswerFor(home, tree, path) \in Answers /\ NotAllowed \in Answers
  BY PlacesAssumption, AnswerType, FixedAnswers DEF AllOK, TypeOK
<1>4. RequestOK(home, tree, d1)
  <2>1. d1 \in RequestType
    BY <1>2, <1>3 DEF RequestType
  <2>2. /\ d1.at = "stat" /\ d1.full = Rel[path] /\ d1.path = path
        /\ d1.could = {AnswerFor(home, tree, path)}
    BY <1>2 DEF RequestType
  <2> HIDE DEF d1
  <2> QED BY <2>1, <2>2 DEF RequestOK, Current, Steady, Kept, Unfinished
<1>5. RequestOK(home, tree, d2)
  <2>1. d2 \in RequestType
    BY <1>2, <1>3 DEF RequestType
  <2>2. d2.at = "done" /\ d2.answer = NotAllowed /\ d2.could = {NotAllowed}
    BY <1>2 DEF RequestType
  <2> HIDE DEF d2
  <2> QED BY <2>1, <2>2 DEF RequestOK, Current, Steady, Kept, Unfinished
<1> HIDE DEF d1, d2
<1> QED BY <1>1, <1>4, <1>5

\* What a call says is a kind of place.
LEMMA SaidType ==
  ASSUME AllOK, NEW t \in Tasks
  PROVE  /\ req[t] \in RequestType /\ RequestOK(home, tree, req[t])
         /\ req[t].path \in Targets /\ req[t].full \in Places
         /\ home \in Homes /\ Gone \in Homes /\ tree \in [Releases -> [Places -> Kinds]]
<1>1. /\ req[t] \in RequestType /\ RequestOK(home, tree, req[t])
      /\ home \in Homes /\ Gone \in Homes /\ tree \in [Releases -> [Places -> Kinds]]
  BY DEF AllOK, TypeOK, Homes
<1>2. req[t].path \in Targets /\ req[t].full \in Places
  BY <1>1 DEF RequestType
<1> QED BY <1>1, <1>2

\* A request's history has failures if it had some, or has one now.
LEMMA FailedMeans ==
  ASSUME NEW t \in Tasks, NEW said, NEW seen
  PROVE  /\ Failed(t, said, seen) \in BOOLEAN
         /\ Failed(t, said, seen) <=> req[t].failed \/ said # seen
BY DEF Failed

\* fs::metadata.
LEMMA StatOK ==
  ASSUME AllOK, NEW t \in Tasks, Stat(t)
  PROVE  \E d : RequestOK(home, tree, d) /\ req' = [req EXCEPT ![t] = d]
<1> DEFINE r == req[t]
           found == Look(home, tree, r.full)
<1>1. PICK k \in {found, "none"} :
        req' = [req EXCEPT ![t] =
          [@ EXCEPT !.at = "root", !.full = IF k = "dir" THEN Join[r.full] ELSE r.full,
                    !.failed = Failed(t, k, found)]]
  BY DEF Stat, Said
<1> DEFINE f == IF k = "dir" THEN Join[r.full] ELSE r.full
           b == Failed(t, k, found)
           d == [r EXCEPT !.at = "root", !.full = f, !.failed = b]
<1>2. r \in RequestType /\ r.at = "stat" /\ RequestOK(home, tree, r) /\ r.full = Rel[r.path]
  BY SaidType DEF Stat, RequestOK, Current
<1>3. req' = [req EXCEPT ![t] = d]
  BY <1>1
<1>4. f \in Places /\ b \in BOOLEAN /\ (b <=> r.failed \/ k # found)
  <2>1. f \in Places
    BY <1>2, SaidType, PlacesAssumption DEF RequestType
  <2> QED BY <2>1, FailedMeans
<1>5. k = found => f = FullPath(home, tree, r.path)
  BY <1>2 DEF FullPath
<1>6. AnswerFor(home, tree, r.path) \in r.could
  BY <1>2 DEF RequestOK, Current, Unfinished
<1>7. Direct(r) => f = Rel[r.path]
  <2> SUFFICES ASSUME Direct(r) PROVE f = Rel[r.path]
    OBVIOUS
  <2>1. found = "file"
    BY <1>2, <1>6, SaidType, DirectAnswer DEF Direct
  <2> QED BY <1>2, <2>1
<1> HIDE DEF f
<1>8. d \in RequestType
  <2> HIDE DEF b
  <2> QED BY <1>2, <1>4 DEF RequestType
<1>9. /\ d.at = "root" /\ d.full = f /\ d.path = r.path /\ d.could = r.could
      /\ d.regular = r.regular /\ d.failed = b
  <2> HIDE DEF b
  <2> QED BY <1>2 DEF RequestType
<1> HIDE DEF d
<1>10. Steady(home, tree, d)
  BY <1>4, <1>5, <1>9 DEF Steady
<1>11. RequestOK(home, tree, d)
  BY <1>6, <1>7, <1>8, <1>9, <1>10 DEF RequestOK, Current, Kept, Direct, Unfinished
<1> QED BY <1>3, <1>11

\* fs::canonicalize(root).
LEMMA CanonRootOK ==
  ASSUME AllOK, NEW t \in Tasks, CanonRoot(t)
  PROVE  \E d : RequestOK(home, tree, d) /\ req' = [req EXCEPT ![t] = d]
<1> DEFINE r == req[t]
<1>1. PICK h \in {home, Gone} :
        req' = [req EXCEPT ![t] =
          [@ EXCEPT !.at = "target", !.root = h, !.failed = Failed(t, h, home)]]
  BY DEF CanonRoot
<1> DEFINE b == Failed(t, h, home)
           d == [r EXCEPT !.at = "target", !.root = h, !.failed = b]
<1>2. r \in RequestType /\ r.at = "root" /\ RequestOK(home, tree, r) /\ h \in Homes
  BY SaidType DEF CanonRoot
<1>3. req' = [req EXCEPT ![t] = d]
  BY <1>1, <1>2 DEF AllOK, TypeOK, RequestType
<1>4. b \in BOOLEAN /\ (b <=> r.failed \/ h # home)
  BY FailedMeans
<1>5. d \in RequestType
  <2> HIDE DEF b
  <2> QED BY <1>2, <1>4 DEF RequestType
<1>6. /\ d.at = "target" /\ d.root = h /\ d.full = r.full /\ d.path = r.path
      /\ d.could = r.could /\ d.regular = r.regular /\ d.failed = b
  <2> HIDE DEF b
  <2> QED BY <1>2 DEF RequestType
<1> HIDE DEF d
<1>7. RequestOK(home, tree, d)
  BY <1>2, <1>4, <1>5, <1>6 DEF RequestOK, Current, Steady, Kept, Direct, Unfinished
<1> QED BY <1>3, <1>7

\* fs::canonicalize(target).
LEMMA CanonTargetOK ==
  ASSUME AllOK, NEW t \in Tasks, CanonTarget(t)
  PROVE  \E d : RequestOK(home, tree, d) /\ req' = [req EXCEPT ![t] = d]
<1> DEFINE r == req[t]
           found == Look(home, tree, r.full)
           Passes(k) == \/ k \in {"none", "dangling"}
                        \/ ~ Outside(r.full, k) /\ r.root = home
<1>1. PICK k \in {found, "none"} :
        req' = [req EXCEPT ![t] =
          IF Passes(k) THEN [@ EXCEPT !.at = "read", !.failed = Failed(t, k, found)]
          ELSE [@ EXCEPT !.at = "done", !.answer = Forbidden]]
  BY DEF CanonTarget, Said
<1> DEFINE b == Failed(t, k, found)
           d1 == [r EXCEPT !.at = "read", !.failed = b]
           d2 == [r EXCEPT !.at = "done", !.answer = Forbidden]
<1>2. r \in RequestType /\ r.at = "target" /\ RequestOK(home, tree, r)
  BY SaidType DEF CanonTarget
<1>3. req' = [req EXCEPT ![t] = IF Passes(k) THEN d1 ELSE d2]
  BY <1>1, <1>2 DEF AllOK, TypeOK, RequestType
<1>4. CASE Passes(k)
  <2>1. b \in BOOLEAN /\ (b <=> r.failed \/ k # found)
    BY FailedMeans
  <2>2. k = found => ~ Outside(r.full, found)
    BY <1>4 DEF Outside
  <2> HIDE DEF b
  <2>3. d1 \in RequestType
    BY <1>2, <2>1 DEF RequestType
  <2>4. /\ d1.at = "read" /\ d1.full = r.full /\ d1.path = r.path
        /\ d1.could = r.could /\ d1.regular = r.regular /\ d1.failed = b
    BY <1>2 DEF RequestType
  <2> HIDE DEF d1, Passes
  <2>5. Steady(home, tree, d1)
    BY <1>2, <2>1, <2>2, <2>4 DEF RequestOK, Steady
  <2>6. RequestOK(home, tree, d1)
    BY <1>2, <2>3, <2>4, <2>5 DEF RequestOK, Current, Kept, Direct, Unfinished
  <2> QED BY <1>3, <1>4, <2>6
<1>5. CASE ~ Passes(k)
  <2>1. d2 \in RequestType
    BY <1>2, FixedAnswers DEF RequestType
  <2>2. /\ d2.at = "done" /\ d2.answer = Forbidden /\ d2.path = r.path
        /\ d2.could = r.could /\ d2.regular = r.regular /\ d2.failed = r.failed
    BY <1>2 DEF RequestType
  <2>3. r.regular /\ ~ r.failed => Forbidden \in r.could
    <3> SUFFICES ASSUME r.regular, ~ r.failed PROVE Forbidden \in r.could
      OBVIOUS
    <3>1. r.root = home /\ r.full = FullPath(home, tree, r.path)
      BY <1>2 DEF RequestOK, Steady
    <3>2. Outside(r.full, found)
      BY <1>5, <3>1
    <3>3. AnswerFor(home, tree, r.path) = Forbidden
      BY <3>1, <3>2 DEF AnswerFor
    <3> QED BY <1>2, <3>3 DEF RequestOK, Current, Unfinished
  <2> HIDE DEF d2, Passes
  <2>4. RequestOK(home, tree, d2)
    BY <2>1, <2>2, <2>3 DEF RequestOK, Current, Steady, Kept, Unfinished
  <2> QED BY <1>3, <1>5, <2>4
<1> QED BY <1>4, <1>5

\* What a read gives is an answer.
LEMMA BytesType ==
  ASSUME NEW h \in Homes, NEW place \in Places, NEW k
  PROVE  Bytes(h, place, k) \in Answers
<1>1. Ok(h, place) \in Answers /\ Ok(Gone, place) \in Answers /\ NotFound \in Answers
  BY OkAnswer, FixedAnswers DEF Homes
<1> QED BY <1>1 DEF Bytes

\* fs::read.
LEMMA ReadOK ==
  ASSUME AllOK, NEW t \in Tasks, Read(t)
  PROVE  \E d : RequestOK(home, tree, d) /\ req' = [req EXCEPT ![t] = d]
<1> DEFINE r == req[t]
           found == Look(home, tree, r.full)
           now == AnswerFor(home, tree, r.path)
<1>1. PICK k \in {found, "none"} :
        req' = [req EXCEPT ![t] =
          [@ EXCEPT !.at = "done", !.answer = Bytes(home, req[t].full, k),
                    !.failed = Failed(t, k, found)]]
  BY DEF Read, Said
<1> DEFINE a == Bytes(home, r.full, k)
           b == Failed(t, k, found)
           d == [r EXCEPT !.at = "done", !.answer = a, !.failed = b]
<1>2. /\ r \in RequestType /\ r.at = "read" /\ RequestOK(home, tree, r)
      /\ home \in Homes /\ tree \in [Releases -> [Places -> Kinds]]
      /\ r.full \in Places /\ r.path \in Targets
  BY SaidType DEF Read
<1>3. req' = [req EXCEPT ![t] = d]
  BY <1>1, <1>2 DEF AllOK, TypeOK, RequestType
<1>4. now \in r.could
  BY <1>2 DEF RequestOK, Current, Unfinished
<1>5. a \in Answers /\ b \in BOOLEAN /\ (b <=> r.failed \/ k # found)
  <2>1. a \in Answers
    BY <1>2, BytesType
  <2> QED BY <2>1, FailedMeans
<1>6. r.regular /\ ~ b => a \in r.could
  <2> SUFFICES ASSUME r.regular, ~ r.failed, k = found PROVE a = now
    BY <1>4, <1>5
  <2>1. r.full = FullPath(home, tree, r.path) /\ ~ Outside(r.full, found)
    BY <1>2 DEF RequestOK, Steady
  <2>2. now = IF found = "file" THEN Ok(home, r.full) ELSE NotFound
    BY <2>1 DEF AnswerFor
  <2>3. found # "link"
    BY <2>1 DEF Outside
  <2> QED BY <2>1, <2>2, <2>3 DEF Bytes
<1>7. Direct(r) => a \in r.could \cup (IF b THEN {NotFound} ELSE {})
  <2> SUFFICES ASSUME Direct(r) PROVE a = now \/ (k # found /\ a = NotFound)
    BY <1>4, <1>5
  <2>1. r.full = Rel[r.path]
    BY <1>2 DEF RequestOK, Kept
  <2>2. found = "file" /\ ~ Outside(r.full, "file") /\ now = Ok(home, r.full)
    BY <1>2, <1>4, <2>1, DirectAnswer DEF Direct
  <2>3. CASE k = found
    BY <2>2, <2>3 DEF Bytes
  <2>4. CASE k = "none" /\ k # found
    BY <2>4 DEF Bytes
  <2> QED BY <2>3, <2>4
<1> HIDE DEF a, b
<1>8. d \in RequestType
  BY <1>2, <1>5 DEF RequestType
<1>9. /\ d.at = "done" /\ d.answer = a /\ d.path = r.path /\ d.could = r.could
      /\ d.regular = r.regular /\ d.failed = b
  BY <1>2 DEF RequestType
<1> HIDE DEF d
<1>10. RequestOK(home, tree, d)
  BY <1>6, <1>7, <1>8, <1>9 DEF RequestOK, Current, Steady, Kept, Direct, Unfinished
<1> QED BY <1>3, <1>10

\* One request's step leaves the others and the files alone.
LEMMA OneStep ==
  ASSUME AllOK, NEW t \in Tasks, NEW d, RequestOK(home, tree, d),
         req' = [req EXCEPT ![t] = d], UNCHANGED diskVars
  PROVE  AllOK'
<1>1. home' = home /\ tree' = tree /\ changes' = changes
  BY DEF diskVars
<1>2. d \in RequestType
  BY DEF RequestOK
<1>3. TypeOK'
  BY <1>1, <1>2 DEF AllOK, TypeOK
<1>4. ASSUME NEW u \in Tasks PROVE RequestOK(home', tree', req'[u])
  BY <1>1 DEF AllOK, TypeOK
<1> QED BY <1>3, <1>4 DEF AllOK

-----------------------------------------------------------------------------
(***************************************************************************)
(* The files change under the requests.                                    *)
(***************************************************************************)

\* A change under one request: every answer it could have had stays possible,
\* and a regular change leaves true what it has found out.
LEMMA SeenOne ==
  ASSUME AllOK, NEW regular \in BOOLEAN, NEW h \in Homes,
         NEW tr \in [Releases -> [Places -> Kinds]],
         regular => h = home /\ \A x \in Places : SameLook(h, tr, x),
         NEW t \in Tasks, Active(t)
  PROVE  RequestOK(h, tr, [req[t] EXCEPT !.could   = @ \cup {AnswerFor(h, tr, req[t].path)},
                                         !.regular = @ /\ regular])
<1> DEFINE r == req[t]
           now == AnswerFor(h, tr, r.path)
           d == [r EXCEPT !.could = @ \cup {now}, !.regular = @ /\ regular]
<1>1. r \in RequestType /\ RequestOK(home, tree, r) /\ r.at \in Unfinished
  BY DEF AllOK, TypeOK, Active, Unfinished
<1>2. r.path \in Targets /\ r.full \in Places /\ r.regular \in BOOLEAN
  BY <1>1 DEF RequestType
<1>3. now \in Answers
  BY <1>2, AnswerType
<1>4. d \in RequestType
  <2> HIDE DEF now
  <2> QED BY <1>1, <1>3 DEF RequestType
<1>5. /\ d.at = r.at /\ d.path = r.path /\ d.full = r.full /\ d.root = r.root
      /\ d.could = r.could \cup {now} /\ d.regular = (r.regular /\ regular)
      /\ d.failed = r.failed
  <2> HIDE DEF now
  <2> QED BY <1>1 DEF RequestType
<1> HIDE DEF d
<1>6. Current(h, tr, d)
  BY <1>1, <1>5 DEF RequestOK, Current, Unfinished
<1>7. Steady(h, tr, d)
  <2> SUFFICES ASSUME r.regular, ~ r.failed, regular PROVE Steady(h, tr, d)
    BY <1>5 DEF Steady
  <2>1. Rel[r.path] \in Places
    BY <1>2, PlacesAssumption
  <2>2. FullPath(h, tr, r.path) = FullPath(home, tree, r.path)
    BY <2>1 DEF FullPath, SameLook
  <2>3. Outside(r.full, Look(h, tr, r.full)) <=> Outside(r.full, Look(home, tree, r.full))
    BY <1>2 DEF SameLook
  <2>4. d.at # "done"
    BY <1>1, <1>5 DEF Unfinished
  <2> QED BY <1>1, <1>5, <2>2, <2>3, <2>4 DEF RequestOK, Steady
<1>8. Kept(d)
  BY <1>1, <1>5 DEF RequestOK, Kept, Direct, Unfinished
<1> QED BY <1>4, <1>6, <1>7, <1>8 DEF RequestOK, d

\* A change under all of them.
LEMMA SeenOK ==
  ASSUME AllOK, NEW regular \in BOOLEAN, Seen(regular), home' \in Homes,
         tree' \in [Releases -> [Places -> Kinds]], changes' \in 0 .. MaxChanges,
         regular => home' = home /\ \A x \in Places : SameLook(home', tree', x)
  PROVE  AllOK'
<1>1. ASSUME NEW t \in Tasks
      PROVE  RequestOK(home', tree', req'[t])
  <2>1. CASE Active(t)
    <3> DEFINE d == [req[t] EXCEPT !.could = @ \cup {AnswerFor(home', tree', req[t].path)},
                                   !.regular = @ /\ regular]
    <3>1. req'[t] = d
      BY <2>1 DEF Seen
    <3>2. RequestOK(home', tree', d)
      BY <2>1, SeenOne
    <3> QED BY <3>1, <3>2
  <2>2. CASE ~ Active(t)
    <3>1. req'[t] = req[t] /\ req[t].at \notin Unfinished
      BY <2>2 DEF Seen, Active, Unfinished
    <3>2. RequestOK(home, tree, req[t])
      BY DEF AllOK
    <3>3. RequestOK(home', tree', req[t])
      BY <3>1, <3>2 DEF RequestOK, Current, Steady, Unfinished
    <3> QED BY <3>1, <3>3
  <2> QED BY <2>1, <2>2
<1>2. req' \in [Tasks -> RequestType]
  <2>1. \A t \in Tasks : req'[t] \in RequestType
    BY <1>1 DEF RequestOK
  <2>2. req' = [t \in Tasks |-> req'[t]]
    BY DEF Seen
  <2> QED BY <2>1, <2>2
<1>3. TypeOK'
  BY <1>2 DEF TypeOK
<1> QED BY <1>1, <1>3 DEF AllOK

\* The two kinds of changes.
LEMMA DeployOK ==
  ASSUME AllOK, Deploy PROVE AllOK'
<1>1. changes' \in 0 .. MaxChanges
  <2>1. changes < MaxChanges /\ changes' = changes + 1
    BY DEF Deploy, Switch, Change
  <2> QED BY <2>1, ChangesAssumption DEF AllOK, TypeOK
<1>2. CASE \E h \in Homes : Switch(h)
  <2>1. PICK h \in Homes : Switch(h)
    BY <1>2
  <2>2. home' \in Homes /\ tree' \in [Releases -> [Places -> Kinds]] /\ Seen(FALSE)
    BY <2>1 DEF Switch, AllOK, TypeOK
  <2> QED BY <1>1, <2>2, SeenOK
<1>3. CASE \E h \in Releases, place \in Places, kind \in Kinds : Change(h, place, kind)
  <2>1. PICK h \in Releases, place \in Places, kind \in Kinds : Change(h, place, kind)
    BY <1>3
  <2> DEFINE regular == {tree[h][place], kind} = {"none", "file"} /\ place \notin Outer
  <2>2. /\ home' = home /\ home' \in Homes /\ tree' \in [Releases -> [Places -> Kinds]]
        /\ Seen(regular) /\ regular \in BOOLEAN
    BY <2>1 DEF Change, AllOK, TypeOK
  <2>3. tree' = [tree EXCEPT ![h][place] = kind]
    BY <2>1 DEF Change
  <2>4. regular => \A x \in Places : SameLook(home', tree', x)
    BY <2>2, <2>3, RegularLook DEF AllOK
  <2> HIDE DEF regular
  <2> QED BY <1>1, <2>2, <2>4, SeenOK
<1> QED BY <1>2, <1>3 DEF Deploy

-----------------------------------------------------------------------------
(***************************************************************************)
(* Every request, in every state.                                          *)
(***************************************************************************)

\* It holds at first.
LEMMA InitOK == Init => AllOK
<1> SUFFICES ASSUME Init PROVE AllOK
  OBVIOUS
<1>1. \A t \in Tasks : req[t] = NoRequest /\ RequestOK(home, tree, req[t])
  BY NoRequestOK DEF Init
<1>2. NoRequest \in RequestType
  BY NoRequestOK DEF RequestOK
<1>3. TypeOK
  BY <1>2, TreesAssumption, ChangesAssumption DEF Init, TypeOK, Homes
<1> QED BY <1>1, <1>3 DEF AllOK

\* Every step keeps it.
LEMMA StepOK == AllOK /\ [Next]_vars => AllOK'
<1> SUFFICES ASSUME AllOK, [Next]_vars PROVE AllOK'
  OBVIOUS
<1>1. CASE UNCHANGED vars
  <2>1. home' = home /\ tree' = tree /\ changes' = changes /\ req' = req
    BY <1>1 DEF vars
  <2>2. \A t \in Tasks : RequestOK(home', tree', req'[t])
    BY <2>1 DEF AllOK
  <2>3. TypeOK'
    BY <2>1 DEF AllOK, TypeOK
  <2> QED BY <2>2, <2>3 DEF AllOK
<1>2. CASE Deploy
  BY <1>2, DeployOK
<1>3. CASE \E t \in Tasks :
             Arrive(t) \/ Stat(t) \/ CanonRoot(t) \/ CanonTarget(t) \/ Read(t) \/ Done(t)
  <2>1. PICK t \in Tasks :
          Arrive(t) \/ Stat(t) \/ CanonRoot(t) \/ CanonTarget(t) \/ Read(t) \/ Done(t)
    BY <1>3
  <2>2. /\ \E d : RequestOK(home, tree, d) /\ req' = [req EXCEPT ![t] = d]
        /\ UNCHANGED diskVars
    <3>1. CASE Arrive(t)
      <4>1. PICK m \in Methods, target \in Targets :
              \/ ArriveHttp1(t, m, target) \/ ArriveHttp2(t, m, target)
              \/ ArriveHttp3(t, m, target)
        BY <3>1 DEF Arrive
      <4>2. SanitizePath(target) \in Targets
        BY TargetsAssumption DEF SanitizePath
      <4>3. PICK proto \in {"h1", "h2", "h3"}, path \in Targets :
              Route(t, proto, m, target, path)
        BY <4>1, <4>2 DEF ArriveHttp1, ArriveHttp2, ArriveHttp3
      <4>4. UNCHANGED diskVars
        BY <4>3 DEF Route
      <4> QED BY <4>3, <4>4, RouteOK
    <3>2. CASE Stat(t)
      BY <3>2, StatOK DEF Stat
    <3>3. CASE CanonRoot(t)
      BY <3>3, CanonRootOK DEF CanonRoot
    <3>4. CASE CanonTarget(t)
      BY <3>4, CanonTargetOK DEF CanonTarget
    <3>5. CASE Read(t)
      BY <3>5, ReadOK DEF Read
    <3>6. CASE Done(t)
      BY <3>6, NoRequestOK DEF Done
    <3> QED BY <2>1, <3>1, <3>2, <3>3, <3>4, <3>5, <3>6
  <2> QED BY <2>2, OneStep
<1> QED BY <1>1, <1>2, <1>3 DEF Next

\* It is an invariant.
LEMMA AlwaysOK == Spec => []AllOK
BY InitOK, StepOK, PTL DEF Spec

\* Files are what files can be, and every request is at one of route's steps
\* (router.rs:12-60).
THEOREM TypeCorrect == Spec => []TypeOK
<1>1. AllOK => TypeOK
  BY DEF AllOK
<1> QED BY <1>1, AlwaysOK, PTL

\* Under regular changes, however many, a route whose calls are answered is as good
\* as one look at the files (router.rs:27-47).
THEOREM RegularEditsAreAtomic == Spec => []RegularEditsAtomic
<1>1. AllOK => RegularEditsAtomic
  BY DEF AllOK, RequestOK, Steady, RegularEditsAtomic
<1> QED BY <1>1, AlwaysOK, PTL

\* A file that is always there is found whenever the file system answers
\* (router.rs:40-48).
THEOREM NothingIsLost == Spec => []NeverLost
<1>1. AllOK => NeverLost
  BY DEF AllOK, RequestOK, Kept, Direct, NeverLost
<1> QED BY <1>1, AlwaysOK, PTL

-----------------------------------------------------------------------------
(***************************************************************************)
(* Where the protocols do agree.                                           *)
(***************************************************************************)

\* A target that sanitize_path leaves as it is: nothing to decode, no dots.
Plain(target) == SanitizePath(target) = target

\* ProtocolsAgree for those targets.
PlainTargetsAgree ==
  changes = 0 =>
    \A t, u \in Tasks :
      /\ req[t].at = "done" /\ req[u].at = "done"
      /\ ~ req[t].failed /\ ~ req[u].failed
      /\ req[t].target = req[u].target /\ Plain(req[t].target)
      /\ NotAllowed \notin {req[t].answer, req[u].answer}
      => req[t].answer = req[u].answer

\* A request that has seen no change: only the files as they are could have
\* answered it, under the path that one of the protocols made of its target.
Undisturbed(r) ==
  r.at # "idle" =>
    /\ r.regular
    /\ r.path \in {r.target, SanitizePath(r.target)}
    /\ r.could \subseteq {AnswerFor(home, tree, r.path), NotAllowed}

StillOK == changes = 0 => \A t \in Tasks : Undisturbed(req[t])

\* It holds at first.
LEMMA StillInit == Init => StillOK
BY DEF Init, StillOK, Undisturbed, NoRequest

\* A request comes.
LEMMA RouteStill ==
  ASSUME AllOK, NEW t \in Tasks, NEW proto \in {"h1", "h2", "h3"}, NEW m,
         NEW target \in Targets, NEW path \in {target, SanitizePath(target)},
         Route(t, proto, m, target, path)
  PROVE  \E d : Undisturbed(d) /\ req' = [req EXCEPT ![t] = d]
<1> DEFINE r == [NoRequest EXCEPT !.proto = proto, !.target = target, !.path = path]
           d1 == [r EXCEPT !.at = "stat", !.full = Rel[path],
                           !.could = {AnswerFor(home, tree, path)}]
           d2 == [r EXCEPT !.at = "done", !.answer = NotAllowed, !.could = {NotAllowed}]
<1>1. req' = [req EXCEPT ![t] = IF m \in {"GET", "HEAD"} THEN d1 ELSE d2]
  BY DEF Route
<1>2. /\ d1.regular /\ d1.target = target /\ d1.path = path
      /\ d1.could = {AnswerFor(home, tree, path)}
  BY DEF NoRequest
<1>3. d2.regular /\ d2.target = target /\ d2.path = path /\ d2.could = {NotAllowed}
  BY DEF NoRequest
<1> HIDE DEF d1, d2
<1>4. Undisturbed(d1) /\ Undisturbed(d2)
  BY <1>2, <1>3 DEF Undisturbed
<1> QED BY <1>1, <1>4

\* A step of route keeps what is known of its request.
LEMMA StepStill ==
  ASSUME AllOK, NEW t \in Tasks, Undisturbed(req[t]), req[t].at # "idle",
         Stat(t) \/ CanonRoot(t) \/ CanonTarget(t) \/ Read(t)
  PROVE  \E d : Undisturbed(d) /\ req' = [req EXCEPT ![t] = d]
<1> DEFINE r == req[t]
           Same(d) == /\ d.regular = r.regular /\ d.path = r.path
                      /\ d.target = r.target /\ d.could = r.could
<1>1. r \in RequestType
  BY DEF AllOK, TypeOK
<1>2. ASSUME NEW d, Same(d) PROVE Undisturbed(d)
  BY <1>2 DEF Undisturbed
<1> HIDE DEF r
<1>3. \E d : Same(d) /\ req' = [req EXCEPT ![t] = d]
  <2>1. CASE Stat(t)
    <3>1. PICK f, b : req' = [req EXCEPT ![t] =
                        [r EXCEPT !.at = "root", !.full = f, !.failed = b]]
      BY <2>1 DEF Stat, r
    <3>2. Same([r EXCEPT !.at = "root", !.full = f, !.failed = b])
      BY <1>1 DEF RequestType
    <3> QED BY <3>1, <3>2
  <2>2. CASE CanonRoot(t)
    <3>1. PICK h, b : req' = [req EXCEPT ![t] =
                        [r EXCEPT !.at = "target", !.root = h, !.failed = b]]
      BY <2>2 DEF CanonRoot, r
    <3>2. Same([r EXCEPT !.at = "target", !.root = h, !.failed = b])
      BY <1>1 DEF RequestType
    <3> QED BY <3>1, <3>2
  <2>3. CASE CanonTarget(t)
    <3>1. PICK b :
            \/ req' = [req EXCEPT ![t] = [r EXCEPT !.at = "read", !.failed = b]]
            \/ req' = [req EXCEPT ![t] = [r EXCEPT !.at = "done", !.answer = Forbidden]]
      BY <2>3 DEF CanonTarget, r
    <3>2. /\ Same([r EXCEPT !.at = "read", !.failed = b])
          /\ Same([r EXCEPT !.at = "done", !.answer = Forbidden])
      BY <1>1 DEF RequestType
    <3> QED BY <3>1, <3>2
  <2>4. CASE Read(t)
    <3>1. PICK a, b : req' = [req EXCEPT ![t] =
                        [r EXCEPT !.at = "done", !.answer = a, !.failed = b]]
      BY <2>4 DEF Read, r
    <3>2. Same([r EXCEPT !.at = "done", !.answer = a, !.failed = b])
      BY <1>1 DEF RequestType
    <3> QED BY <3>1, <3>2
  <2> QED BY <2>1, <2>2, <2>3, <2>4
<1> HIDE DEF Same
<1> QED BY <1>2, <1>3

\* Every step keeps it: the first change ends it.
LEMMA StillStep == AllOK /\ StillOK /\ [Next]_vars => StillOK'
<1> SUFFICES ASSUME AllOK, StillOK, [Next]_vars, changes' = 0
             PROVE  \A t \in Tasks : Undisturbed(req[t])'
  BY DEF StillOK
<1>1. CASE UNCHANGED vars
  BY <1>1 DEF vars, StillOK, Undisturbed, AnswerFor, FullPath
<1>2. CASE Deploy
  <2>1. changes' = changes + 1
    BY <1>2 DEF Deploy, Switch, Change
  <2>2. changes \in Nat
    BY ChangesAssumption DEF AllOK, TypeOK
  <2> QED BY <2>1, <2>2
<1>3. CASE \E t \in Tasks :
             Arrive(t) \/ Stat(t) \/ CanonRoot(t) \/ CanonTarget(t) \/ Read(t) \/ Done(t)
  <2>1. PICK t \in Tasks :
          Arrive(t) \/ Stat(t) \/ CanonRoot(t) \/ CanonTarget(t) \/ Read(t) \/ Done(t)
    BY <1>3
  <2>2. UNCHANGED diskVars
    BY <2>1 DEF Arrive, ArriveHttp1, ArriveHttp2, ArriveHttp3, Route, Stat, CanonRoot,
                CanonTarget, Read, Done
  <2>3. home' = home /\ tree' = tree /\ changes = 0
    BY <2>2 DEF diskVars
  <2>4. \A u \in Tasks : Undisturbed(req[u])
    BY <2>3 DEF StillOK
  <2>5. \E d : Undisturbed(d) /\ req' = [req EXCEPT ![t] = d]
    <3>1. CASE Arrive(t)
      <4>1. PICK m \in Methods, target \in Targets :
              \/ ArriveHttp1(t, m, target) \/ ArriveHttp2(t, m, target)
              \/ ArriveHttp3(t, m, target)
        BY <3>1 DEF Arrive
      <4>2. PICK proto \in {"h1", "h2", "h3"}, path \in {target, SanitizePath(target)} :
              Route(t, proto, m, target, path)
        BY <4>1 DEF ArriveHttp1, ArriveHttp2, ArriveHttp3
      <4> QED BY <4>2, RouteStill
    <3>2. CASE Stat(t) \/ CanonRoot(t) \/ CanonTarget(t) \/ Read(t)
      <4>1. req[t].at # "idle"
        BY <3>2 DEF Stat, CanonRoot, CanonTarget, Read
      <4> QED BY <2>4, <3>2, <4>1, StepStill
    <3>3. CASE Done(t)
      <4>1. Undisturbed(NoRequest)
        BY DEF Undisturbed, NoRequest
      <4> QED BY <3>3, <4>1 DEF Done
    <3> QED BY <2>1, <3>1, <3>2, <3>3
  <2>6. PICK d : Undisturbed(d) /\ req' = [req EXCEPT ![t] = d]
    BY <2>5
  <2>7. ASSUME NEW u \in Tasks PROVE Undisturbed(req'[u])
    BY <2>4, <2>6 DEF AllOK, TypeOK
  <2>8. \A u \in Tasks : Undisturbed(req[u])' <=> Undisturbed(req'[u])
    BY <2>3 DEF Undisturbed
  <2> QED BY <2>7, <2>8
<1> QED BY <1>1, <1>2, <1>3 DEF Next

\* docs/ARCHITECTURE.md:25-28 holds of every target that sanitize_path leaves
\* alone (router.rs:12-49, request.rs:53-60): escapes and ".." are all that the
\* protocols treat differently.
THEOREM ProtocolsAgreeOnPlainTargets == Spec => []PlainTargetsAgree
<1>1. AllOK /\ StillOK => PlainTargetsAgree
  <2> SUFFICES ASSUME AllOK, StillOK, changes = 0, NEW t \in Tasks, NEW u \in Tasks,
                      req[t].at = "done", req[u].at = "done",
                      ~ req[t].failed, ~ req[u].failed,
                      req[t].target = req[u].target, Plain(req[t].target),
                      NotAllowed \notin {req[t].answer, req[u].answer}
               PROVE  req[t].answer = req[u].answer
    BY DEF PlainTargetsAgree
  <2>1. \A v \in {t, u} : /\ req[v].path = req[v].target
                          /\ req[v].answer = AnswerFor(home, tree, req[v].target)
    <3> SUFFICES ASSUME NEW v \in {t, u}
                 PROVE  /\ req[v].path = req[v].target
                        /\ req[v].answer = AnswerFor(home, tree, req[v].target)
      OBVIOUS
    <3>1. /\ Undisturbed(req[v]) /\ RequestOK(home, tree, req[v]) /\ req[v].at = "done"
          /\ ~ req[v].failed
      BY DEF StillOK, AllOK
    <3>2. req[v].path = req[v].target /\ req[v].answer # NotAllowed
      BY <3>1 DEF Undisturbed, Plain
    <3>3. req[v].answer \in req[v].could
      BY <3>1 DEF Undisturbed, RequestOK, Steady
    <3> QED BY <3>1, <3>2, <3>3 DEF Undisturbed
  <2> QED BY <2>1
<1>2. Spec => []StillOK
  BY AlwaysOK, StillInit, StillStep, PTL DEF Spec
<1> QED BY <1>1, <1>2, AlwaysOK, PTL

=============================================================================
