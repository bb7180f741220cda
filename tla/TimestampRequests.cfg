SPECIFICATION FairSpec
CONSTANTS
  None = None
  ServerError = ServerError
  Workers = {w1}
  Requests = {r1, r2}
  Queued = {}
  Posted = j2
  KeyOf <- SameKey
  Outcomes <- ValidOutcome
  MaxFaults = 2
INVARIANTS
  NobodyWaitsInACircle
PROPERTIES
  JobsSettle
  RequestsAnswered
CHECK_DEADLOCK FALSE
