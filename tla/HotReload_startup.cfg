\* The file may change while the server starts.
CONSTANTS
  p = p
  q = q
  w = w
  Paths = {p, q, w}
  Configs <- MCConfigs
  Broken = {q}
  Missing = Missing
  Unreadable = Unreadable
  Requests = {}
  MaxEdits = 1
  Faults = {"startup"}
SPECIFICATION FairSpec
PROPERTY EditsReachTables
