\* Two scrapes, a show listed by both sources and a second one, one killed worker.
SPECIFICATION LiveSpec
CONSTANTS
  rss = rss
  pc_id = pc_id
  sp_id = sp_id
  a = a
  b = b
  k = k
  Fields = {rss, pc_id, sp_id}
  FieldOrder <- Order
  Ids = {a, b}
  NoId = NoId
  Keys = {k}
  NoKey = NoKey
  Requests <- TwoShows
  Workers = {w1, w2}
  MaxRows = 4
  MaxCrashes = 1
  NoRow = NoRow
  NoWorker = NoWorker
INVARIANTS
  TypeOK
  NoLateDuplicate
PROPERTIES
  ReturnsCallersPodcast
  EveryCallEnds
