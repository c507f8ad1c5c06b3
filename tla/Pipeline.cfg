\* One task, one command of two sources, one worker of the enrichment queue, one incident.
SPECIFICATION Spec
CONSTANTS
  Podcasts = {1, 2}
  Workers = {w1}
  Limit = 2
  Outcomes <- OneFails
  Idle = Idle
  MaxMessages = 1
  MaxAgings = 0
  Tasks = {"task"}
  Commands = {"spotify", "podchaser"}
  Then <- BothSources
  FollowUps = {"spotify", "podchaser"}
  Slices <- TwoCharts
  Lists <- Charted
  Cap = 1
  MaxRetries = 1
  MaxIncidents = 1
INVARIANTS
  AuditIsTrue
  PendingIsOwned
