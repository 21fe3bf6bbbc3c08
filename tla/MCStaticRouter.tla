--------------------------- MODULE MCStaticRouter ---------------------------
EXTENDS StaticRouterProps, TLC

\* "/%7Eann" decodes to "/~ann"; "/a..b" is a name with two dots; "/../log" is next
\* to the root.
MCTargets == {"/", "/docs", "/%7Eann", "/~ann", "/a..b", "/../log"}

MCDecoded == [s \in MCTargets |-> IF s = "/%7Eann" THEN "/~ann" ELSE s]

MCRel ==
  [s \in MCTargets |->
     CASE s = "/" -> "index" [] s = "/docs" -> "docs" [] s = "/~ann" -> "~ann"
       [] s = "/%7Eann" -> "%7Eann" [] s = "/a..b" -> "a..b"
       [] s = "/../log" -> "../log"]

\* Only docs may have an index file below it.  "deeper" stands for the index files
\* of all other places: nothing is there.
Index(p) == IF p = "docs" THEN "docs/index" ELSE "deeper"

PlacesOf(targets) == {MCRel[s] : s \in targets} \cup {"docs/index", "deeper"}

Tree(places, docs) ==
  [p \in places |-> CASE p = "docs" -> docs [] p \in {"%7Eann", "deeper"} -> "none"
                      [] OTHER -> "file"]

MCPlaces == PlacesOf(MCTargets)
MCJoin   == [p \in MCPlaces |-> Index(p)]
MCTrees  == {Tree(MCPlaces, docs) : docs \in {"dir", "file", "link"}}

\* The targets whose spelling does not matter: a file, a directory, and what is
\* outside of the root.
FewTargets == {"/", "/docs", "/../log"}
FewDecoded == [s \in FewTargets |-> s]
FewRel     == [s \in FewTargets |-> MCRel[s]]
FewPlaces  == PlacesOf(FewTargets)
FewJoin    == [p \in FewPlaces |-> Index(p)]
FewTrees   == {Tree(FewPlaces, docs) : docs \in {"dir", "file", "link"}}

=============================================================================
