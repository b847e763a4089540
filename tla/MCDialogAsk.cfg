\* Questions, interruptions and a dispute.
SPECIFICATION TalkSpec
CONSTANTS
  full = full
  half = half
  email = email
  None = None
  Stepper = {s1}
  AgreementTool = {}
  DisputeTool = {d1}
  Webhook = {}
  Plan = {half}
  Installments = {half}
  Channel = {email, sms}
  Amount = {1}
  DefaultAmount <- NoMinimum
  Utterance <- Asking
  Outcome = {}
  TwilioRetries = FALSE
INVARIANT InterruptionCanResume
PROPERTY DisputeSticks
CHECK_DEADLOCK FALSE
