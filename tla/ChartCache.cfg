\* Two overlapping scrape tasks and one request over two days, two upserts of a
\* day, one killed task or outage of Redis.
SPECIFICATION LiveSpec
CONSTANTS
  Writers = {w1, w2}
  Readers = {r1}
  LastDay = 2
  MaxScrapes = 2
  MaxIncidents = 1
INVARIANTS
  TypeOK
  DefaultRequestFindsRows
  StaleOnlyByRaceOrLoss
PROPERTIES
  LatestCatchesUp
  PagesCatchUp
