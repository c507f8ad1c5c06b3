\* services.py:64-66.
SPECIFICATION Spec
CONSTANTS
  rss = rss
  pc_id = pc_id
  sp_id = sp_id
  a = a
  b = b
  k = k
  Fields = {rss, pc_id, sp_id}
  FieldOrder <- Order
  Ids = {a, b}
  NoId = NoId
  Keys = {k}
  NoKey = NoKey
  Requests <- TwoShows
  Workers = {w1, w2}
  MaxRows = 4
  MaxCrashes = 0
  NoRow = NoRow
  NoWorker = NoWorker
INVARIANT NoDuplicateKeys
