\* One request while files, directories, links and the root change, twice.
CONSTANTS
  r1 = r1
  A = A
  B = B
  Gone = Gone
  Tasks = {r1}
  Methods = {"GET", "POST"}
  Targets <- FewTargets
  Decoded <- FewDecoded
  Dotted = {"/../log"}
  Slash = "/"
  Places <- FewPlaces
  Outer = {"../log"}
  Rel <- FewRel
  Join <- FewJoin
  Releases = {A, B}
  Trees <- FewTrees
  MaxChanges = 2
SPECIFICATION Spec
INVARIANTS TypeOK RegularEditsAtomic NeverLost
