\* Two targets, two concurrent requests; the counter runs through two laps and a
\* part before it wraps. No symmetry: liveness.
CONSTANTS
  N = 2
  Wrap = 5
  Requests = {r1, r2}
SPECIFICATION FairSpec
INVARIANTS TypeOK EvenSpread MissedTargetsWereTaken
PROPERTIES PickReturns PickBounded FlagsConverge DeadUpstreamDrained PicksAtomic
