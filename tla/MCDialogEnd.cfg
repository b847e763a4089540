\* The webhooks that start and end a call against an orchestrator step.
SPECIFICATION ClosingSpec
CONSTANTS
  full = full
  half = half
  email = email
  None = None
  Stepper = {s1}
  AgreementTool = {}
  DisputeTool = {}
  Webhook = {w1}
  Plan = {half}
  Installments = {half}
  Channel = {email}
  Amount = {1}
  DefaultAmount <- Defaults
  Utterance <- Closing
  Outcome = {"none", "CONNECTED", "PAYMENT_PLAN"}
  TwilioRetries = TRUE
INVARIANT TypeOK
PROPERTY ReadBeforeClose
CHECK_DEADLOCK FALSE
