\* Two leases of one unit; two stages; one message, two requests of the provider.
SPECIFICATION MCSpec
CONSTANTS
  Lease = {1, 2}
  Charge = {c1}
  Payment = {p1}
  Age = {30}
  ChargeAmount = 1
  Total = {2}
  Late = {}
  MaxDay = 1
  MaxEdits = 1
  StageId = {s1, s2}
  MaxDays = 1
  PastKind = {"agreement"}
  Handler = {h1, h2}
  MaxClickList = 1
  MaxClicks = 2
  None = None
SYMMETRY FlowSymmetry
INVARIANTS TypeOK LedgerAddsUp SyncedIsListed StagesFit DeliveryTold
PROPERTY FinalStays
CHECK_DEADLOCK FALSE
