CONSTANTS
  p1 = p1
  q1 = q1
  Plans = {p1}
  Projects = {q1}
  Newcomers = {q1}
  MaxChanges = 2
  MaxDrafts = 1
  MaxRetries = 1
  MaxAttempts = 2
  MaxFaults = 2
SPECIFICATION FairSpec
INVARIANTS
  TypeOK
  NoChangeLost
PROPERTIES
  DraftsFitDemand
  DisabledStops
  JobsEnd
  SchedulesSettle
CHECK_DEADLOCK FALSE
