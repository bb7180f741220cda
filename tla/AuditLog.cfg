SPECIFICATION Spec
CONSTANTS
  None = None
  Writers = {w1, w2}
  Cleaner = cleaner
  Kinds = {k}
  RetainFor = 1
  MaxClock = 3
  MaxEvents = 5
SYMMETRY Symmetry
INVARIANTS
  AuditVerifies
  RetirementAccepted
PROPERTIES
  HistoryOnlyGrows
  OnlyOldPrefixRetired
CHECK_DEADLOCK FALSE
