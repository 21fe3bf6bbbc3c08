\* Two requests race on the counter of a two-target route.
CONSTANTS
  N = 2
  Wrap = 8
  Requests = {r1, r2}
SPECIFICATION Spec
INVARIANT NoneOnlyIfAllUnhealthy
