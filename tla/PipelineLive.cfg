\* One task with one slice of three podcasts, one incident.
SPECIFICATION Spec
CONSTANTS
  Podcasts = {1, 2, 3}
  Workers = {w1}
  Limit = 2
  Outcomes <- OneStubborn
  Idle = Idle
  MaxMessages = 1
  MaxAgings = 1
  Tasks = {"task"}
  Commands = {}
  Then <- NoCommand
  FollowUps = {}
  Slices <- OneChart
  Lists <- Charted
  Cap = 1
  MaxRetries = 0
  MaxIncidents = 1
INVARIANTS
  TypeOK
PROPERTIES
  EveryoneAttempted
