\* Edits can fall on any step of the reloads that earlier ones caused. No
\* symmetry: liveness.
CONSTANTS
  p = p
  q = q
  w = w
  Paths = {p, q, w}
  Configs <- MCConfigs
  Broken = {q}
  Missing = Missing
  Unreadable = Unreadable
  Requests = {r1}
  MaxEdits = 3
  Faults = {"startup", "tick", "read", "module"}
SPECIFICATION FairSpec
INVARIANTS TypeOK CheckedBeforeServed CaughtUp UnaffectedByReload
PROPERTIES RoutesAtomic SignsReachTables
