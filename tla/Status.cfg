\* Two probes with their deadlines.
SPECIFICATION FairStatusSpec
CONSTANTS
  p1 = p1
  p2 = p2
  Probes = {p1, p2}
  Timeouts = {2, 5}
  Thresholds = {1, 3}
  MaxDelay = 4
  MaxTime = 5
  Null = Null
  MaxDate = 8
  Infos <- MCInfos
INVARIANTS
  VerdictIsTrue
PROPERTIES
  HealthSettles
\* Every call settles: a finished program stops.
CHECK_DEADLOCK FALSE
