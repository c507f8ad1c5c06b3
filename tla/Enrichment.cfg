\* Two tasks, two shows with one title and publisher, one incident.
SPECIFICATION Spec
CONSTANTS
  one = 1
  other = 2
  show = show
  twin = twin
  Podcasts = {1, 2}
  Shows = {show, twin}
  About <- AboutPQ
  Title <- OneTitle
  Slug <- NoLatin
  House <- OneHouse
  IdOrder <- FeedFirst
  Fields = {"apple", "rss"}
  FirstIds <- Charted
  FirstCols <- Covers
  Order <- Three
  LookupBy <- Ids
  Searches <- ByTitleToo
  Catalogue <- Lists
  Unlisted = Unlisted
  None = None
  NoKey = NoKey
  Hand = Hand
  Idle = Idle
  Workers = {w1, w2}
  MaxRuns <- TwoAndOne
  MaxEdits = 1
  MaxIncidents = 1
\* The bound on the runs ends it.
CHECK_DEADLOCK FALSE
SYMMETRY Swapped
INVARIANTS
  TypeOK
  OwnShowUnlessGuessed
  DoneIsUsable
PROPERTIES
  OnlyStaleCopiesErase
