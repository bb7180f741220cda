SPECIFICATION Spec
CONSTANTS
  None = None
  ServerError = ServerError
  Workers = {w1, w2}
  Requests = {r1}
  Queued = {j1}
  Posted = j2
  KeyOf <- SameKey
  Outcomes <- ValidOutcome
  MaxFaults = 1
SYMMETRY Symmetry
INVARIANTS
  EvidenceKept
  AttemptsAttested
  ResultsAttested
CHECK_DEADLOCK FALSE
