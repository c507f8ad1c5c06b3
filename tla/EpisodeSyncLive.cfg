SPECIFICATION LiveSpec
CONSTANTS
  Workers = {w1}
  Guids = {1, 2}
  Feed <- Emptied
  Window = 12
  EditDates = {2}
  MaxIncidents = 2
PROPERTIES EpisodesStored AggregatesCatchUp
