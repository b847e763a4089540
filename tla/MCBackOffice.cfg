\* One address, one spreadsheet of two rows, two cases.
SPECIFICATION Spec
CONSTANTS
  Email = {e1}
  Tenant = {t1, t2}
  User = {u1, u2}
  Invite = {i1, i2}
  InviteRole = {"member"}
  Request = {r1, r2}
  Worker = {w1, w2}
  Phone = {p1}
  MaxRows = 2
  Case = {k1, k2}
  Days = {5, 40}
  StatusFilter = {{}, {"EXCLUDED"}, {"APPROVED", "EXCLUDED"}, {"APPROVED", "IN_DISPUTE"}}
  MaxActs = 3
  EventType = {"call_queued", "sms_sent"}
  Shown = {1, 3}
  MaxEvents = 3
  MaxDay = 1
  None = None
SYMMETRY BackOfficeSymmetry
INVARIANTS TypeOK BatchTellsAll ViewsAddUp ClosedMeansRefused
PROPERTIES OneAccountEach OwnerKept OneTenantEach Ended
CHECK_DEADLOCK FALSE
