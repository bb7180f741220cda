SPECIFICATION Spec
CONSTANTS
  None = None
  Keys = {k1}
  Clocks = {c1}
  MaxTime = 0
  Artifacts = {a}
  MaxParts = 2
  MaxArtifactSize = 2
  MaxSessionSize = 2
  Contents = {x, y}
  EventTypes = {"capture_started", "capture_finished"}
  Modes = {"remote", "hash_only"}
  MaxEntries = 5
  MaxIncidents = 1
  ChosenKeys <- DerivedKeys
SYMMETRY Symmetry
INVARIANTS
  TypeOK
  ReceiptsLinked
  ReceiptedBytesHeld
  ManifestCoversSession
  RepetitionAnswered
PROPERTIES
  SealedForever
CHECK_DEADLOCK FALSE
