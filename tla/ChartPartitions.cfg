\* Two concurrent runs of ensure_partitions, a window of one month ahead
\* (calls may ask for 0 or 1), a calendar of six months, two killed runs.
SPECIFICATION LiveSpec
CONSTANTS
  Workers = {w1, w2}
  Start = 1
  Ahead = 1
  Aheads = {0, 1}
  LastMonth = 5
  MaxCrashes = 1
INVARIANTS
  TypeOK
  NoHoles
  BufferKeepsDefaultEmpty
PROPERTIES
  WedgedForGood
  EveryMonthCovered
