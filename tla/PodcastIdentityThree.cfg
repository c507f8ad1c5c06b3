\* Three scrapes at once about a show whose feed url changes.
SPECIFICATION Spec
CONSTANTS
  rss = rss
  pc_id = pc_id
  sp_id = sp_id
  a = a
  b = b
  k = k
  Fields = {rss, pc_id, sp_id}
  FieldOrder <- Order
  Ids = {a, b}
  NoId = NoId
  Keys = {k}
  NoKey = NoKey
  Requests <- FeedMoves
  Workers = {w1, w2, w3}
  MaxRows = 4
  MaxCrashes = 0
  NoRow = NoRow
  NoWorker = NoWorker
SYMMETRY AnyWorker
INVARIANTS
  OnePodcastPerId
  LoserFindsWinner
PROPERTIES
  ImplementsRegistry
  LockedBackfillKeepsIds
