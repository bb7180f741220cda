SPECIFICATION FairClientSpec
CONSTANTS
  None = None
  Keys = {k1}
  Clocks = {0, 1, 2}
  MaxTime = 1
  Artifacts <- MCArtifacts
  MaxParts = 2
  MaxArtifactSize = 2
  MaxSessionSize = 4
  Contents = {0, 1, 2}
  EventTypes = {"capture_started", "marker", "clock_restarted", "capture_finished"}
  Modes = {"remote", "hash_only"}
  MaxEntries = 12
  MaxIncidents = 0
  ChosenKeys = {}
  Captures <- MCCaptures
  MaxInputs = 2
  MaxChunks = 2
  MaxFaults = 1
INVARIANTS
  DivergenceBounded
  PartsNeverConflict
  CompleteMeansSealed
PROPERTIES
  QueueDrains
CHECK_DEADLOCK FALSE
