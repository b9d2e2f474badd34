SPECIFICATION Spec
CONSTANTS
  Writers = {w1, w2}
  Entities = {"r1", "r2", "retention"}
  Actions = {"status_changed", "retention_applied"}
  Actors = {"ann"}
  Auditors = {"ann"}
  Nil = Nil
  DaysInputs = {0, 1, 6}
  Day = 1
  Limit = 4
  MaxTime = 3
  MaxCalls = 3
  MaxFaults = 1
  MaxRestarts = 1
SYMMETRY WriterSymmetry
INVARIANTS
  LossIsExplained
  RetentionHolds
  RetentionIsOnRecord
