SPECIFICATION FairSpec
CONSTANTS
  None = None
  Sessions = {1, 2, 3}
  Batches = {1, 2}
  HashOnly = {1, 3}
  p1 = p1
  p2 = p2
  p3 = p3
  Procs = {p1, p2, p3}
  BatchSize = 2
  Calendars = 2
  Verdicts = {"pending_confirmation", "confirmed"}
  Scenarios <- AllScenes
INVARIANTS
  RetainedProofsVerify
  PurgedLeaveNothing
  
  ComplementsAttested
  UpgradesKeepTheirBatch
PROPERTIES
  LoopsBatchOnce
  SessionsBatched
  PendingTriedAgain
  PurgesEnd
CHECK_DEADLOCK FALSE
