\* One request, one reload, and three changes of upstreams, shortages or crashes.
CONSTANTS
  p = p
  q = q
  a = a
  b = b
  Paths = {p, q}
  Configs <- MCConfigs
  Broken = {}
  Missing = Missing
  Unreadable = Unreadable
  Requests = {r1}
  MaxEdits = 1
  Faults = {}
  Hosts = {a, b}
  Upstreams <- MCUpstreams
  Nobody = Nobody
  MaxTroubles = 3
SPECIFICATION ServerFairSpec
INVARIANTS ServerTypeOK ErrorsHaveCause
PROPERTIES FlagsSettle AnswersSettle
