\* A full flow and a daily maintenance; everything may fail.
SPECIFICATION AnySpec
CONSTANTS
  Manual = {r1}
  Maint = {m1}
  NoProc = NoProc
  Lease = {l1}
  Undefined = Undefined
  MCKind = {"flow", "daily"}
INVARIANTS TypeOK SyncOwnsRow
PROPERTY OneSyncAtATime
CHECK_DEADLOCK FALSE
