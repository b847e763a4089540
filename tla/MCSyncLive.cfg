\* Servers and workers stay up.
SPECIFICATION UpSpec
CONSTANTS
  Manual = {r1}
  Maint = {m1}
  NoProc = NoProc
  Lease = {l1}
  Undefined = Undefined
  MCKind = {"sync", "refresh", "build", "hourly"}
PROPERTY FreeAgain
CHECK_DEADLOCK FALSE
