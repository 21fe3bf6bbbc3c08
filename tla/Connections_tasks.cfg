\* Two clients with two requests each; three listeners leave room for one more
\* descriptor, two for two. No symmetry: liveness.
CONSTANTS
  Clients = {c1, c2}
  Streams = {s1, s2}
  MaxFds = 4
SPECIFICATION FairSpec
INVARIANTS TypeOK BacklogKept
PROPERTIES ConnectionOutlivesRequests NothingLeftBehind BacklogDrains
