\* One request, one reload.
CONSTANTS
  p = p
  q = q
  w = w
  Paths = {p, q, w}
  Configs <- MCConfigs
  Broken = {q}
  Missing = Missing
  Unreadable = Unreadable
  Requests = {r1}
  MaxEdits = 1
  Faults = {}
SPECIFICATION Spec
INVARIANT OneConfigPerRequest
