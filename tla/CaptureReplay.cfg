SPECIFICATION Spec
CONSTANTS
  None = None
  Keys = {k1}
  Clocks = {c1}
  MaxTime = 0
  Artifacts = {}
  MaxParts = 1
  MaxArtifactSize = 1
  MaxSessionSize = 1
  Contents = {x}
  EventTypes = {"capture_started", "capture_finished"}
  Modes = {"remote"}
  MaxEntries = 3
  MaxIncidents = 1
  ChosenKeys = {}
INVARIANTS
  RepetitionReturnsPreviousResult
CHECK_DEADLOCK FALSE
