\* Two plans, one agreement request at a time, with crashes and retries.
SPECIFICATION TalkSpec
CONSTANTS
  full = full
  half = half
  email = email
  None = None
  Stepper = {s1}
  AgreementTool = {t1}
  DisputeTool = {}
  Webhook = {}
  Plan = {full, half}
  Installments = {half}
  Channel = {email}
  Amount = {1}
  DefaultAmount <- Defaults
  Utterance <- Terse
  Outcome = {}
  TwilioRetries = FALSE
INVARIANTS
  NoAgreementWithoutIdentity
  TermsReadBack
  AgreementOnce
CHECK_DEADLOCK FALSE
