SPECIFICATION FairSpec
CONSTANTS
  None = None
  ServerError = ServerError
  Workers = {w1}
  Requests = {}
  Queued = {j1}
  Posted = j2
  KeyOf <- SameKey
  Outcomes <- ValidOutcome
  MaxFaults = 1
PROPERTIES
  JobsComplete
CHECK_DEADLOCK FALSE
