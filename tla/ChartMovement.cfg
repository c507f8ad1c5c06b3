\* Two overlapping ingests of a slice over three days, one of them killed.
SPECIFICATION Spec
CONSTANTS
  a = a
  b = b
  c = c
  Refs = {a, b, c}
  NoRef = NoRef
  Null = Null
  NoRow = NoRow
  Workers = {w1, w2}
  MaxRank = 2
  Batches <- Charts
  LastDay = 3
  MaxUpserts = 4
  MaxCrashes = 1
SYMMETRY AnyWorker
INVARIANTS
  MovementSettled
  PortableAgrees
