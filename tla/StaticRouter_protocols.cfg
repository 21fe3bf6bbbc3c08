\* The same target over two protocols, while no file changes.
CONSTANTS
  r1 = r1
  r2 = r2
  A = A
  B = B
  Gone = Gone
  Tasks = {r1, r2}
  Methods = {"GET"}
  Targets <- MCTargets
  Decoded <- MCDecoded
  Dotted = {"/a..b", "/../log"}
  Slash = "/"
  Places <- MCPlaces
  Outer = {"../log"}
  Rel <- MCRel
  Join <- MCJoin
  Releases = {A, B}
  Trees <- MCTrees
  MaxChanges = 0
SPECIFICATION Spec
INVARIANT ProtocolsAgree
