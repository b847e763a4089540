\* Every action, one of each actor, in an automation that requires approval.
SPECIFICATION Spec
CONSTANTS
  a1 = a1
  a2 = a2
  Automation = {a1}
  Case = {c1}
  Tick = {t1}
  Enroller = {e1}
  Operator = {o1}
  NoAutomation = NoAutomation
  NoCase = NoCase
  ApprovalMode <- ReviewModes
  PageLimit = 1
INVARIANTS TypeOK ReviewedBeforeContact LateAtMostOncePerTick
PROPERTY RefusalStands
CHECK_DEADLOCK FALSE
