\* Twelve bytes of memory: the answer for `short' fits, the one for `middle'
\* does not, and `long' does not fit itself.
CONSTANTS
  get = get
  short = short
  middle = middle
  long = long
  Tasks = {t1, t2}
  Methods = {get}
  Paths = {short, middle, long}
  Length <- MCLength
  Size = 12
  HeapBase = 3
  Greeting = 2
  Pointers <- MCPointers
  Lengths = {0, 1, 2, 9}
  Rewrites <- MCRewrites
SYMMETRY TaskSymmetry
SPECIFICATION Spec
INVARIANTS TypeOK HelloEchoes NoLeak NoPanic
