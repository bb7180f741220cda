SPECIFICATION Spec
CONSTANTS
  None = None
  ServerError = ServerError
  Workers = {w1}
  Requests = {r1, r2}
  Queued = {}
  Posted = j2
  KeyOf <- SameKey
  Outcomes <- FailedOrValid
  MaxFaults = 0
INVARIANTS
  OneAnswerPerKey
CHECK_DEADLOCK FALSE
