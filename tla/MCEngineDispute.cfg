\* A dispute opened before the tick reads.
SPECIFICATION Spec
CONSTANTS
  a1 = a1
  a2 = a2
  Automation = {a1}
  Case = {c1}
  Tick = {t1}
  Enroller = {e1}
  Operator = {o1}
  NoAutomation = NoAutomation
  NoCase = NoCase
  ApprovalMode <- AutoModes
  PageLimit = 1
PROPERTY NoDispatchDuringDispute
CHECK_DEADLOCK FALSE
