SPECIFICATION Spec
CONSTANTS
  None = None
  Keys = {k1, k2}
  Clocks = {c1, c2}
  MaxTime = 1
  Artifacts = {}
  MaxParts = 1
  MaxArtifactSize = 1
  MaxSessionSize = 1
  Contents = {x}
  EventTypes = {"capture_started", "marker", "clock_restarted", "capture_finished"}
  Modes = {"remote"}
  MaxEntries = 5
  MaxIncidents = 1
  ChosenKeys = {}
SYMMETRY Symmetry
INVARIANTS
  ChainIntact
  ClocksMonotone
PROPERTIES
  LogRefined
CHECK_DEADLOCK FALSE
