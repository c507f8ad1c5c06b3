SPECIFICATION Spec
CONSTANTS
  Workers = {w1, w2}
  Guids = {1, 2, 3}
  Feed <- Mended
  Window = 12
  EditDates = {2}
  MaxIncidents = 1
INVARIANTS NoEpisodeMissed EtagSpeaksTruth AggregatesRight
SYMMETRY AnyWorker
