\* Liveness: a page that holds every due row.
SPECIFICATION UpSpec
CONSTANTS
  a1 = a1
  a2 = a2
  Automation = {a1}
  Case = {c1, c2}
  Tick = {t1}
  Enroller = {e1}
  Operator = {o1}
  NoAutomation = NoAutomation
  NoCase = NoCase
  ApprovalMode <- HybridModes
  PageLimit = 2
PROPERTY EveryEligibleRowDispatched
CHECK_DEADLOCK FALSE
