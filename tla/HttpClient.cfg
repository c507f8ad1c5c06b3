\* A token that may end between the first attempt of a query and the last.
SPECIFICATION Spec
CONSTANTS
  Interval = 2
  MaxRetries = 3
  Backoff <- Pauses
  Timeout = 2
  Margin = 5
  Life = 9
INVARIANT TypeOK
PROPERTIES
  BurstsOnlyByRetries
  TokenLastsForFirstAttempt
  PageIsLastResort
