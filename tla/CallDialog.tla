----------------------------- MODULE CallDialog -----------------------------
(***************************************************************************)
(* One collection call: the dialog state the voice agent's tool requests   *)
(* read and write, the agreement and the dispute that come out of it, and  *)
(* the webhooks that start and end it.                                     *)
(*                                                                         *)
(* The dialog lives in one JSON column (aiData.eleven.call_state).  Every  *)
(* handler loads the row, awaits other work, and writes the whole JSON     *)
(* back from what it loaded: no lock, no version, so the later write wins. *)
(* Each handler is therefore a read step and a write step over `call`.     *)
(*                                                                         *)
(* Speech is abstracted to utterances: the dialog action the classifier    *)
(* returns, the slots the extractor fills, and whether the agent's model   *)
(* proposes an interruption.  Any of them may come with any other, since   *)
(* all three are taken from fields of the request.                         *)
(***************************************************************************)
EXTENDS Naturals, Sequences

CONSTANTS
  Stepper,        \* orchestrate-call-step requests under way at once
  AgreementTool,  \* create-payment-agreement requests under way at once
  DisputeTool,    \* create-dispute requests under way at once
  Webhook,        \* post-call webhooks under way at once
  Plan,           \* allowed plans of the stage the case is in
  Installments,   \* the plans among them that are paid in installments
  Channel,        \* delivery channels the debtor can be reached on
  Amount,         \* upfront amounts, in cents
  DefaultAmount,  \* what a plan asks upfront when the debtor names nothing
  Utterance,      \* what the debtor may say, see IsUtterance
  Outcome,        \* the outcomes a post-call webhook may report
  TwilioRetries,  \* Twilio may request the voice URL again after an answer
  None            \* null

ASSUME AmountAssumption  == Amount \subseteq Nat \ {0}
ASSUME DefaultAssumption == DefaultAmount \in [Plan -> Amount \cup {0}]
ASSUME PlanAssumption    == Installments \subseteq Plan
ASSUME RetryAssumption   == TwilioRetries \in BOOLEAN

VARIABLES
  call,       \* interaction_logs.ai_data.eleven.call_state
  status,     \* interaction_logs.status
  caseStatus, \* debt_cases.status
  agreement,  \* payment_agreements of this interaction, oldest first
  dispute,    \* the case has a dispute in status OPEN
  step,       \* local variables of each orchestrator request
  tool,       \* local variables of each agreement request
  filing,     \* local variables of each dispute request
  register,   \* local variables of the voice webhook that registers the call
  leg,        \* what Twilio's status callback is about to write
  hook,       \* local variables of each post-call webhook
  verified,   \* history: the debtor was identified at some step
  readBack    \* history: the terms read to the debtor for confirmation

dialogVars  == <<call, verified, readBack>>
recordVars  == <<status, caseStatus, agreement, dispute>>
handlerVars == <<step, tool, filing, register, leg, hook>>
vars == <<call, status, caseStatus, agreement, dispute, step, tool, filing,
          register, leg, hook, verified, readBack>>

-----------------------------------------------------------------------------
(***************************************************************************)
(* States and slots.  CAPTURE_INSTALLMENTS and PAYMENT_METHOD are states   *)
(* of the table that no step enters: the installment count is always       *)
(* filled by a default, so it is not a slot here, and the other is a name  *)
(* kept for old rows.                                                      *)
(***************************************************************************)
CallState == {"VERIFY_IDENTITY", "DISCLOSE_DEBT", "PLAN_SELECTION",
  "CAPTURE_UPFRONT", "CAPTURE_INSTALLMENTS", "CAPTURE_DELIVERY_CHANNEL",
  "PAYMENT_METHOD", "CONFIRM_AGREEMENT", "EXECUTE_AGREEMENT",
  "POST_DELIVERY_CONFIRM", "INTERRUPTION", "DISPUTE_CAPTURE",
  "EXECUTE_DISPUTE", "POST_DISPUTE_CONFIRM", "CLOSE"}

\* The states of a negotiation in order; a state may be entered from those
\* before it.
FromUpfront   == {"CAPTURE_UPFRONT", "CAPTURE_INSTALLMENTS",
                  "CAPTURE_DELIVERY_CHANNEL", "CONFIRM_AGREEMENT"}
FromSelection == FromUpfront \cup {"PLAN_SELECTION"}

Transitions(s) == {"INTERRUPTION", s} \cup
  (CASE s = "VERIFY_IDENTITY" -> {"DISCLOSE_DEBT", "CLOSE"}
     [] s = "DISCLOSE_DEBT" -> FromSelection \cup {"DISPUTE_CAPTURE", "CLOSE"}
     [] s = "PLAN_SELECTION" ->
          FromSelection \cup {"PAYMENT_METHOD", "DISPUTE_CAPTURE", "CLOSE"}
     [] s = "CAPTURE_UPFRONT" -> FromUpfront \cup {"DISPUTE_CAPTURE", "CLOSE"}
     [] s = "CAPTURE_INSTALLMENTS" ->
          (FromUpfront \ {"CAPTURE_UPFRONT"}) \cup {"DISPUTE_CAPTURE", "CLOSE"}
     [] s \in {"CAPTURE_DELIVERY_CHANNEL", "PAYMENT_METHOD"} ->
          {"CAPTURE_DELIVERY_CHANNEL", "CONFIRM_AGREEMENT", "DISPUTE_CAPTURE",
           "CLOSE"}
     [] s = "CONFIRM_AGREEMENT" ->
          FromSelection \cup {"EXECUTE_AGREEMENT", "PAYMENT_METHOD",
                              "DISPUTE_CAPTURE", "CLOSE"}
     [] s = "EXECUTE_AGREEMENT" ->
          {"CONFIRM_AGREEMENT", "POST_DELIVERY_CONFIRM", "CLOSE"}
     [] s = "DISPUTE_CAPTURE" -> {"EXECUTE_DISPUTE", "PLAN_SELECTION", "CLOSE"}
     [] s = "EXECUTE_DISPUTE" ->
          {"DISPUTE_CAPTURE", "POST_DISPUTE_CONFIRM", "CLOSE"}
     [] s = "INTERRUPTION" -> CallState \ {"EXECUTE_AGREEMENT", "EXECUTE_DISPUTE"}
     [] OTHER -> {"CLOSE"})

isAllowedTransition(s, n) ==
  IF s = "CLOSE" THEN n = "CLOSE" ELSE n \in Transitions(s)

Questions == {"ASK_BALANCE", "ASK_OPTIONS", "ASK_PLAN_SUMMARY",
              "ASK_LINK_DESTINATION", "ASK_LINK_CHANNEL"}

\* SELECT_PLAN stands for every action the dialog treats as "slots filled".
DialogAction == Questions \cup
  {"UNKNOWN", "VERIFY_IDENTITY_YES", "VERIFY_IDENTITY_NO", "SELECT_PLAN",
   "CONFIRM_AGREEMENT", "REJECT_AGREEMENT", "OPEN_DISPUTE",
   "PROVIDE_DISPUTE_REASON", "CONFIRM_LINK_RECEIPT", "REQUEST_CALLBACK",
   "END_CALL"}

PostToolStates  == {"POST_DELIVERY_CONFIRM", "POST_DISPUTE_CONFIRM"}
AgreementStates == {"CONFIRM_AGREEMENT", "EXECUTE_AGREEMENT"}
DisputeStates   == {"DISPUTE_CAPTURE", "EXECUTE_DISPUTE"}

\* A dispute slot stands for dispute_detected and the reason that goes with
\* it; a leaving slot for callback_requested and goodbye.
SlotName == {"identity", "dispute", "plan", "amount", "channel", "confirmed",
             "leaving"}
Slots == [identity : {"unknown", "yes", "no"}, dispute : {"yes", "no"},
          plan : Plan \cup {None}, amount : Amount \cup {0},
          channel : Channel \cup {None}, confirmed : {"unknown", "yes", "no"},
          leaving : {"yes", "no"}]
NoSlots == [identity |-> "unknown", dispute |-> "no", plan |-> None,
            amount |-> 0, channel |-> None, confirmed |-> "unknown",
            leaving |-> "no"]

Terms   == [plan : Plan \cup {None}, amount : Amount \cup {0},
            channel : Channel \cup {None}]
NoTerms == [plan |-> None, amount |-> 0, channel |-> None]

Call == [state : CallState, returnTo : CallState \cup {None}, slots : Slots,
         snapshot : Terms, committed : Terms]
NewCall == [state |-> "VERIFY_IDENTITY", returnTo |-> None, slots |-> NoSlots,
            snapshot |-> NoTerms, committed |-> NoTerms]

InteractionStatus == {"queued", "in_progress", "completed", "failed"}
CaseStatus == {"IN_PROGRESS", "CONTACTED", "NO_ANSWER", "REFUSED",
               "PROMISE_TO_PAY", "PAYMENT_PLAN", "PAID"}
ASSUME NoneAssumption == None \notin Plan \cup Channel \cup CallState \cup CaseStatus

Negotiated == {"PAYMENT_PLAN", "PROMISE_TO_PAY", "PAID"}

IdleStep   == [busy |-> FALSE, saw |-> NewCall]
IdleTool   == [phase |-> "idle", saw |-> NewCall, terms |-> NoTerms]
IdleFiling == [phase |-> "idle", saw |-> NewCall]
IdleRegister == [busy |-> FALSE, saw |-> NewCall, sawStatus |-> "queued"]
IdleHook   == [phase |-> "idle", saw |-> NewCall, sawStatus |-> "queued",
               sawCase |-> "IN_PROGRESS"]

TypeOK ==
  /\ call \in Call
  /\ status \in InteractionStatus
  /\ caseStatus \in CaseStatus
  /\ agreement \in Seq(Terms)
  /\ dispute \in BOOLEAN
  /\ step \in [Stepper -> [busy : BOOLEAN, saw : Call]]
  /\ tool \in [AgreementTool ->
       [phase : {"idle", "reject", "find", "repeat", "create", "record", "answer"},
        saw : Call, terms : Terms]]
  /\ filing \in [DisputeTool ->
       [phase : {"idle", "reject", "find", "create", "answer"}, saw : Call]]
  /\ register \in [busy : BOOLEAN, saw : Call, sawStatus : InteractionStatus]
  /\ leg \in {"idle", "completed", "failed"}
  /\ hook \in [Webhook -> [phase : {"idle", "close", "case"}, saw : Call,
                           sawStatus : InteractionStatus, sawCase : CaseStatus]]
  /\ verified \in BOOLEAN
  /\ readBack \in SUBSET Terms

Init ==
  /\ call = NewCall
  /\ status = "queued"
  /\ caseStatus = "IN_PROGRESS"
  /\ agreement = <<>>
  /\ dispute = FALSE
  /\ step = [p \in Stepper |-> IdleStep]
  /\ tool = [t \in AgreementTool |-> IdleTool]
  /\ filing = [d \in DisputeTool |-> IdleFiling]
  /\ register = IdleRegister
  /\ leg = "idle"
  /\ hook = [w \in Webhook |-> IdleHook]
  /\ verified = FALSE
  /\ readBack = {}

-----------------------------------------------------------------------------
(***************************************************************************)
(* From an utterance to slots: what the extractor found, then what the     *)
(* action implies, over what was known; then the rules of sanitize and of  *)
(* the agreement defaults.                                                 *)
(***************************************************************************)
Over(patch, slots) ==
  [f \in SlotName |-> IF f \in DOMAIN patch THEN patch[f] ELSE slots[f]]

\* An utterance gives some slots a value, and an action and a hint.
IsUtterance(u) ==
  /\ u.action \in DialogAction
  /\ u.hint \in {"none", "interrupt", "hold"}
  /\ DOMAIN u.said \subseteq SlotName
  /\ Over(u.said, NoSlots) \in Slots
ASSUME UtteranceAssumption == \A u \in Utterance : IsUtterance(u)

Put(f, v) == [g \in {f} |-> v]

ActionSlots(a) ==
  CASE a = "VERIFY_IDENTITY_YES" -> Put("identity", "yes")
    [] a = "VERIFY_IDENTITY_NO"  -> Put("identity", "no")
    [] a = "CONFIRM_AGREEMENT"   -> Put("confirmed", "yes")
    [] a = "REJECT_AGREEMENT"    -> Put("confirmed", "no")
    [] a = "OPEN_DISPUTE"        -> Put("dispute", "yes")
    [] a \in {"REQUEST_CALLBACK", "END_CALL"} -> Put("leaving", "yes")
    [] OTHER -> <<>>

Sanitized(slots) ==
  IF slots.identity = "yes" THEN slots
  ELSE [NoSlots EXCEPT !.identity = slots.identity,
                       !.leaving = slots.leaving]

OnlyChannel == IF \E c \in Channel : Channel = {c}
               THEN CHOOSE c \in Channel : TRUE ELSE None

Defaulted(slots) ==
  [slots EXCEPT
     !.amount = IF slots.plan # None /\ @ = 0
                   THEN DefaultAmount[slots.plan] ELSE @,
     !.channel = IF @ = None THEN OnlyChannel ELSE @]

SlotsAfter(slots, u) ==
  Defaulted(Sanitized(Over(ActionSlots(u.action), Over(u.said, slots))))

AgreementReset(slots) ==
  Sanitized([slots EXCEPT !.plan = None, !.amount = 0,
                          !.channel = None, !.confirmed = "unknown"])

Draft(slots) == [plan |-> slots.plan, amount |-> slots.amount,
                 channel |-> slots.channel]

-----------------------------------------------------------------------------
(***************************************************************************)
(* The reducer: the next state, and what it does to the proposal (read it  *)
(* back to the debtor, commit it, or drop the agreement slots).            *)
(***************************************************************************)
Goto(s)       == [next |-> s, does |-> "nothing"]
GoDoing(s, d) == [next |-> s, does |-> d]

ProgressState(slots) ==
  CASE slots.plan = None                          -> "PLAN_SELECTION"
    [] slots.plan # None /\ slots.amount = 0   -> "CAPTURE_UPFRONT"
    [] slots.plan # None /\ slots.amount # 0 /\ slots.channel = None
                                                     -> "CAPTURE_DELIVERY_CHANNEL"
    [] OTHER -> IF slots.confirmed = "yes" THEN "EXECUTE_AGREEMENT"
                                              ELSE "CONFIRM_AGREEMENT"

Leaves(a, slots) == a \in {"REQUEST_CALLBACK", "END_CALL"} \/ slots.leaving = "yes"

ReduceVerify(a, slots) ==
  IF a = "VERIFY_IDENTITY_NO" \/ slots.identity = "no" THEN Goto("CLOSE")
  ELSE IF a = "VERIFY_IDENTITY_YES" \/ slots.identity = "yes"
       THEN Goto("DISCLOSE_DEBT") ELSE Goto("VERIFY_IDENTITY")

\* A request to dispute, and its mutation: the state is not looked at.
DisputeSaid(s, a, slots) ==
  a \in {"OPEN_DISPUTE", "PROVIDE_DISPUTE_REASON"} \/ slots.dispute = "yes"

DisputeRequested(s, a, slots) ==
  \/ a \in {"OPEN_DISPUTE", "PROVIDE_DISPUTE_REASON"}
  \/ slots.dispute = "yes"
  \/ s \in DisputeStates

ReduceDispute(slots) ==
  IF slots.dispute = "no" \/ slots.channel = None
  THEN Goto("DISPUTE_CAPTURE") ELSE Goto("EXECUTE_DISPUTE")

Rejects(s, a, slots) ==
  /\ s = "CONFIRM_AGREEMENT"
  /\ a = "REJECT_AGREEMENT" \/ slots.confirmed = "no"

ReduceAgreement(s, a, slots) ==
  LET p == ProgressState(slots)
  IN  CASE Rejects(s, a, slots) -> GoDoing("PLAN_SELECTION", "reset")
        [] ~Rejects(s, a, slots) /\ p = "CONFIRM_AGREEMENT" -> GoDoing(p, "readback")
        [] ~Rejects(s, a, slots) /\ p = "EXECUTE_AGREEMENT" ->
             IF s \in AgreementStates THEN GoDoing(p, "commit")
             ELSE GoDoing("CONFIRM_AGREEMENT", "readback")
        [] OTHER -> Goto(p)

reduceCallState(s, a, slots) ==
  IF Leaves(a, slots) \/ s = "CLOSE" THEN Goto("CLOSE")
  ELSE IF s = "INTERRUPTION" THEN Goto(s)
  ELSE IF s = "VERIFY_IDENTITY" THEN ReduceVerify(a, slots)
  ELSE IF slots.identity # "yes" THEN Goto("VERIFY_IDENTITY")
  ELSE IF s \in PostToolStates
       THEN Goto(IF a = "CONFIRM_LINK_RECEIPT" THEN "CLOSE" ELSE s)
  ELSE IF a \in {"ASK_BALANCE", "ASK_OPTIONS", "ASK_PLAN_SUMMARY"} THEN Goto(s)
  ELSE IF DisputeRequested(s, a, slots) THEN ReduceDispute(slots)
  ELSE ReduceAgreement(s, a, slots)

-----------------------------------------------------------------------------
(***************************************************************************)
(* One orchestrator step as a function of the dialog it loaded.  One       *)
(* interruption may be open at a time (MAX_STATE_STACK_DEPTH is 1 unless   *)
(* configured), so the stack is the state to return to, or null.           *)
(***************************************************************************)
Resumes(c, u) ==
  /\ c.state = "INTERRUPTION"
  /\ c.returnTo # None
  /\ u.action \notin Questions
  /\ u.hint = "none"

\* The mutation of Interrupts: a closed dialog can be interrupted too.
InterruptsClosed(c, u) ==
  /\ c.state # "INTERRUPTION"
  /\ c.returnTo = None
  /\ u.hint = "interrupt" \/ (u.action \in Questions /\ c.state \notin PostToolStates)

Interrupts(c, u) ==
  /\ c.state \notin {"CLOSE", "INTERRUPTION"}
  /\ c.returnTo = None
  /\ \/ u.hint = "interrupt"
     \/ u.action \in Questions /\ c.state \notin PostToolStates

ReducerState(c, u) ==
  CASE Resumes(c, u)    -> c.returnTo
    [] Interrupts(c, u) -> "INTERRUPTION"
    [] OTHER            -> c.state

\* The mutation of ReturnTo: the interrupted state is not pushed.
ReturnForgotten(c, u) == IF Resumes(c, u) THEN None ELSE c.returnTo

ReturnTo(c, u) ==
  CASE Resumes(c, u)    -> None
    [] Interrupts(c, u) -> c.state
    [] OTHER            -> c.returnTo

Reduced(c, u) ==
  reduceCallState(ReducerState(c, u), u.action, SlotsAfter(c.slots, u))

NextState(c, u) ==
  LET from == ReducerState(c, u)
      to   == Reduced(c, u).next
  IN  IF isAllowedTransition(from, to) THEN to ELSE from

NextSlots(c, u) ==
  LET slots == SlotsAfter(c.slots, u)
  IN  IF Reduced(c, u).does = "reset" THEN AgreementReset(slots) ELSE slots

NextSnapshot(c, u) ==
  CASE Reduced(c, u).does = "readback" -> Draft(NextSlots(c, u))
    [] Reduced(c, u).does = "reset"    -> NoTerms
    [] OTHER                           -> c.snapshot

NextCommitted(c, u) ==
  IF Reduced(c, u).does # "commit" THEN c.committed
  ELSE IF NextSnapshot(c, u) # NoTerms THEN NextSnapshot(c, u)
       ELSE Draft(NextSlots(c, u))

StepResult(c, u) ==
  [state     |-> NextState(c, u),
   returnTo  |-> IF NextState(c, u) = "CLOSE" THEN None ELSE ReturnTo(c, u),
   slots     |-> NextSlots(c, u),
   snapshot  |-> NextSnapshot(c, u),
   committed |-> NextCommitted(c, u)]

-----------------------------------------------------------------------------
(***************************************************************************)
(* The voice webhook: Twilio asks for the call's instructions, the call is *)
(* registered with the provider, and the row is written with a fresh       *)
(* dialog that keeps only the state.  Nothing checks the status, so a      *)
(* repeated webhook registers a call that is under way again.              *)
(***************************************************************************)
RegisterRead ==
  /\ ~register.busy
  /\ status = "queued" \/ (TwilioRetries /\ status # "completed")
  /\ register' = [busy |-> TRUE, saw |-> call, sawStatus |-> status]
  /\ UNCHANGED <<dialogVars, recordVars, step, tool, filing, leg, hook>>

\* A field of a row is written only when it differs from the row as it was read.
Changed(now, read, new) == IF new = read THEN now ELSE new

\* What registering writes as the dialog.
RegisteredCall(saw) == [NewCall EXCEPT !.state = saw.state]

RegisterWrite ==
  /\ register.busy
  /\ call' = RegisteredCall(register.saw)
  /\ status' = Changed(status, register.sawStatus, "in_progress")
  /\ register' = IdleRegister
  /\ UNCHANGED <<caseStatus, agreement, dispute, verified, readBack, step, tool,
                 filing, leg, hook>>

\* The provider refuses: only a row that is still queued becomes failed.
RegisterFail ==
  /\ register.busy
  /\ status' = IF status = "queued" THEN "failed" ELSE status
  /\ register' = IdleRegister
  /\ UNCHANGED <<dialogVars, caseStatus, agreement, dispute, step, tool, filing,
                 leg, hook>>

\* Twilio's status callback: the status is read, then written.  The leg may end
\* before the call is registered, or while it is.
LegRead ==
  /\ leg = "idle"
  /\ status \in {"queued", "in_progress"}
  /\ leg' \in {"completed", "failed"}
  /\ UNCHANGED <<dialogVars, recordVars, step, tool, filing, register, hook>>

LegWrite ==
  /\ leg # "idle"
  /\ status' = leg
  /\ leg' = "idle"
  /\ UNCHANGED <<dialogVars, caseStatus, agreement, dispute, step, tool, filing,
                 register, hook>>

\* The call has been answered: the agent and the provider exist for it.
Answered == status # "queued"

-----------------------------------------------------------------------------
(***************************************************************************)
(* An orchestrator step: load, then write what the utterance leads to.     *)
(***************************************************************************)
StepRead(p) ==
  /\ Answered
  /\ ~step[p].busy
  /\ step' = [step EXCEPT ![p] = [busy |-> TRUE, saw |-> call]]
  /\ UNCHANGED <<dialogVars, recordVars, tool, filing, register, leg, hook>>

StepWrite(p, u) ==
  /\ step[p].busy
  /\ call' = StepResult(step[p].saw, u)
  /\ verified' = (verified \/ NextSlots(step[p].saw, u).identity = "yes")
  /\ readBack' = IF Reduced(step[p].saw, u).does = "readback"
                 THEN readBack \cup {Draft(NextSlots(step[p].saw, u))}
                 ELSE readBack
  /\ step' = [step EXCEPT ![p] = IdleStep]
  /\ UNCHANGED <<recordVars, tool, filing, register, leg, hook>>

-----------------------------------------------------------------------------
(***************************************************************************)
(* create-payment-agreement.  The state is checked on the dialog as loaded *)
(* at the start; the agreement, the case and the dialog are written later, *)
(* in that order and not in a transaction.                                 *)
(***************************************************************************)
\* The dialog with the state the tool decides on, as loaded at the start.
Answer(saw, s) == [saw EXCEPT !.state = s]

\* The states the tool accepts, and their mutation: any state of an open call.
ToolAllowedOpen(s) == s # "CLOSE"

ToolAllowed(s) == s \in AgreementStates

\* The mutation of EffectiveTerms: the draft comes first.
DraftTerms(c, payload) ==
  IF Draft(c.slots) # NoTerms THEN Draft(c.slots) ELSE payload

\* The committed proposal, or the snapshot, or the draft, or the payload.
EffectiveTerms(c, payload) ==
  IF c.committed # NoTerms THEN c.committed
  ELSE IF c.snapshot # NoTerms THEN c.snapshot
  ELSE IF Draft(c.slots) # NoTerms THEN Draft(c.slots)
  ELSE payload

ToolRead(t) ==
  /\ Answered
  /\ tool[t].phase = "idle"
  /\ \E payload \in [plan : Plan, amount : Amount, channel : Channel] :
       tool' = [tool EXCEPT ![t] =
         [phase |-> IF ToolAllowed(call.state) THEN "find" ELSE "reject",
          saw   |-> call,
          terms |-> IF ToolAllowed(call.state) THEN EffectiveTerms(call, payload)
                                               ELSE NoTerms]]
  /\ UNCHANGED <<dialogVars, recordVars, step, filing, register, leg, hook>>

\* INVALID_STATE_FOR_TOOL: the dialog is written back as it was loaded.
ToolReject(t) ==
  /\ tool[t].phase = "reject"
  /\ call' = tool[t].saw
  /\ tool' = [tool EXCEPT ![t] = IdleTool]
  /\ UNCHANGED <<recordVars, verified, readBack, step, filing, register, leg, hook>>

\* The mutation of Existing: the tool does not look.
NeverExisting == FALSE

\* The look for an agreement of this interaction.
Existing == agreement # <<>>

ToolFind(t) ==
  /\ tool[t].phase = "find"
  /\ tool' = [tool EXCEPT ![t].phase = IF Existing THEN "repeat" ELSE "create"]
  /\ UNCHANGED <<dialogVars, recordVars, step, filing, register, leg, hook>>

ToolRepeat(t) ==
  /\ tool[t].phase = "repeat"
  /\ call' = Answer(tool[t].saw, "POST_DELIVERY_CONFIRM")
  /\ tool' = [tool EXCEPT ![t] = IdleTool]
  /\ UNCHANGED <<recordVars, verified, readBack, step, filing, register, leg, hook>>

\* The rules may refuse any terms: they are read anew, and a minimum upfront
\* applies to them.
ToolInvalid(t) ==
  /\ tool[t].phase = "create"
  /\ call' = Answer(tool[t].saw, "CONFIRM_AGREEMENT")
  /\ tool' = [tool EXCEPT ![t] = IdleTool]
  /\ UNCHANGED <<recordVars, verified, readBack, step, filing, register, leg, hook>>

ToolCreate(t) ==
  /\ tool[t].phase = "create"
  /\ tool[t].terms.plan # None
  /\ tool[t].terms.amount # 0
  /\ agreement' = Append(agreement, tool[t].terms)
  /\ tool' = [tool EXCEPT ![t].phase = "record"]
  /\ UNCHANGED <<dialogVars, status, caseStatus, dispute, step, filing, register,
                 leg, hook>>

ToolRecord(t) ==
  /\ tool[t].phase = "record"
  /\ caseStatus' = IF tool[t].terms.plan \in Installments
                   THEN "PAYMENT_PLAN" ELSE "PROMISE_TO_PAY"
  /\ tool' = [tool EXCEPT ![t].phase = "answer"]
  /\ UNCHANGED <<dialogVars, status, agreement, dispute, step, filing, register,
                 leg, hook>>

ToolAnswer(t) ==
  /\ tool[t].phase = "answer"
  /\ call' = Answer(tool[t].saw, "POST_DELIVERY_CONFIRM")
  /\ tool' = [tool EXCEPT ![t] = IdleTool]
  /\ UNCHANGED <<recordVars, verified, readBack, step, filing, register, leg, hook>>

-----------------------------------------------------------------------------
(***************************************************************************)
(* create-dispute.  An open dispute of the case is reused; a unique index  *)
(* allows one, so the second of two concurrent inserts fails.              *)
(***************************************************************************)
FilingRead(d) ==
  /\ Answered
  /\ filing[d].phase = "idle"
  /\ filing' = [filing EXCEPT ![d] =
       [phase |-> IF call.state \in DisputeStates THEN "find" ELSE "reject",
        saw   |-> call]]
  /\ UNCHANGED <<dialogVars, recordVars, step, tool, register, leg, hook>>

FilingReject(d) ==
  /\ filing[d].phase = "reject"
  /\ call' = filing[d].saw
  /\ filing' = [filing EXCEPT ![d] = IdleFiling]
  /\ UNCHANGED <<recordVars, verified, readBack, step, tool, register, leg, hook>>

FilingFind(d) ==
  /\ filing[d].phase = "find"
  /\ filing' = [filing EXCEPT ![d].phase = IF dispute THEN "answer" ELSE "create"]
  /\ UNCHANGED <<dialogVars, recordVars, step, tool, register, leg, hook>>

FilingCreate(d) ==
  /\ filing[d].phase = "create"
  /\ dispute' = TRUE
  /\ filing' = [filing EXCEPT ![d] = IF dispute THEN IdleFiling
                                     ELSE [@ EXCEPT !.phase = "answer"]]
  /\ UNCHANGED <<dialogVars, status, caseStatus, agreement, step, tool, register,
                 leg, hook>>

FilingAnswer(d) ==
  /\ filing[d].phase = "answer"
  /\ call' = Answer(filing[d].saw, "POST_DISPUTE_CONFIRM")
  /\ filing' = [filing EXCEPT ![d] = IdleFiling]
  /\ UNCHANGED <<recordVars, verified, readBack, step, tool, register, leg, hook>>

-----------------------------------------------------------------------------
(***************************************************************************)
(* The end of a call: the provider's post-call webhook closes the dialog   *)
(* and gives the case the status its outcome stands for; or a call that    *)
(* was silent for CALL_STALE_TTL_SECONDS is closed by the next request     *)
(* that meets it.  A handler lasts less than that, so no other is at work. *)
(***************************************************************************)
ASSUME OutcomeAssumption ==
  Outcome \subseteq {"none", "PAID", "PAYMENT_PLAN", "PROMISE_TO_PAY", "REFUSED",
                    "NO_ANSWER", "CONNECTED"}

\* The mutation of OutcomeStatus: the outcome is written as it came.
OutcomeAsIs(o) == o

OutcomeStatus(o) ==
  CASE o = "CONNECTED" -> "CONTACTED"
    [] OTHER           -> o

CaseStatusFrom(current, o) ==
  IF o = "none" \/ current \in Negotiated THEN None ELSE OutcomeStatus(o)

HookRead(w) ==
  /\ Answered
  /\ hook[w].phase = "idle"
  /\ hook' = [hook EXCEPT ![w] = [phase |-> "close", saw |-> call, sawStatus |-> status,
                                  sawCase |-> caseStatus]]
  /\ UNCHANGED <<dialogVars, recordVars, step, tool, filing, register, leg>>

HookClose(w) ==
  /\ hook[w].phase = "close"
  /\ call' = Answer(hook[w].saw, "CLOSE")
  /\ status' = Changed(status, hook[w].sawStatus, "completed")
  /\ hook' = [hook EXCEPT ![w] = [@ EXCEPT !.phase = "case", !.saw = NewCall]]
  /\ UNCHANGED <<caseStatus, agreement, dispute, verified, readBack, step, tool,
                 filing, register, leg>>

HookCase(w, o) ==
  /\ hook[w].phase = "case"
  /\ LET next == CaseStatusFrom(hook[w].sawCase, o) IN
     caseStatus' = IF next = None THEN caseStatus
                   ELSE Changed(caseStatus, hook[w].sawCase, next)
  /\ hook' = [hook EXCEPT ![w] = IdleHook]
  /\ UNCHANGED <<dialogVars, status, agreement, dispute, step, tool, filing,
                 register, leg>>

Quiet ==
  /\ step = [p \in Stepper |-> IdleStep]
  /\ tool = [t \in AgreementTool |-> IdleTool]
  /\ filing = [d \in DisputeTool |-> IdleFiling]
  /\ register = IdleRegister
  /\ leg = "idle"
  /\ hook = [w \in Webhook |-> IdleHook]

CloseStale ==
  /\ Quiet
  /\ status \in {"queued", "in_progress"}
  /\ status' = "failed"
  /\ call' = Answer(call, "CLOSE")
  /\ UNCHANGED <<caseStatus, agreement, dispute, verified, readBack, handlerVars>>

\* The server stops, or an await of the handler throws: what it has written
\* stays, the rest is not done.
Crash ==
  /\ ~Quiet
  /\ step' = [p \in Stepper |-> IdleStep]
  /\ tool' = [t \in AgreementTool |-> IdleTool]
  /\ filing' = [d \in DisputeTool |-> IdleFiling]
  /\ register' = IdleRegister
  /\ leg' = "idle"
  /\ hook' = [w \in Webhook |-> IdleHook]
  /\ UNCHANGED <<dialogVars, recordVars>>

ToolCrash(t) ==
  /\ tool[t].phase # "idle"
  /\ tool' = [tool EXCEPT ![t] = IdleTool]
  /\ UNCHANGED <<dialogVars, recordVars, step, filing, register, leg, hook>>

-----------------------------------------------------------------------------
StepNext     == \E p \in Stepper : StepRead(p) \/ \E u \in Utterance : StepWrite(p, u)
ToolNext     == \E t \in AgreementTool :
                  \/ ToolRead(t) \/ ToolReject(t) \/ ToolFind(t) \/ ToolRepeat(t)
                  \/ ToolInvalid(t) \/ ToolCreate(t) \/ ToolRecord(t) \/ ToolAnswer(t)
                  \/ ToolCrash(t)
FilingNext   == \E d \in DisputeTool :
                  \/ FilingRead(d) \/ FilingReject(d) \/ FilingFind(d)
                  \/ FilingCreate(d) \/ FilingAnswer(d)
RegisterNext == RegisterRead \/ RegisterWrite \/ RegisterFail \/ LegRead \/ LegWrite
EndNext      == \/ \E w \in Webhook : \/ HookRead(w) \/ HookClose(w)
                                      \/ \E o \in Outcome : HookCase(w, o)
                \/ CloseStale
                \/ Crash

Next == StepNext \/ ToolNext \/ FilingNext \/ RegisterNext \/ EndNext

Spec == Init /\ [][Next]_vars

-----------------------------------------------------------------------------
(***************************************************************************)
(* Properties.                                                             *)
(***************************************************************************)
\* An agreement is made only in a call whose debtor was identified, although
\* the tool looks at the state alone and at a state that may be old by then.
NoAgreementWithoutIdentity == agreement # <<>> => verified

\* The terms of an agreement were read back to the debtor for confirmation,
\* whichever proposal (committed, snapshot, draft, payload) they came from.
TermsReadBack == \A i \in DOMAIN agreement : agreement[i] \in readBack

\* One interaction makes at most one agreement, over retries and crashes.
AgreementOnce == Len(agreement) <= 1

\* An interrupted dialog knows the state to go back to; without it the
\* dialog would answer questions until the call ends.
InterruptionCanResume == call.state = "INTERRUPTION" => call.returnTo # None

\* A closed dialog is reopened only by a handler that loaded it before it was
\* closed, never by one that saw it closed.
ReadBeforeClose ==
  [][ (call.state = "CLOSE" /\ call'.state # "CLOSE") =>
        \/ \E p \in Stepper : step'[p] # step[p] /\ step[p].saw.state # "CLOSE"
        \/ \E t \in AgreementTool : tool'[t] # tool[t] /\ tool[t].saw.state # "CLOSE"
        \/ \E d \in DisputeTool : filing'[d] # filing[d] /\ filing[d].saw.state # "CLOSE"
        \/ register' # register /\ register.saw.state # "CLOSE" ]_vars

\* A step taken in a dispute stays in it or ends the call: the negotiation is
\* over for this call, although the table allows a way back to the plans.
Disputing(c) == c.state \in DisputeStates \/ c.returnTo \in DisputeStates

DisputeSticks ==
  [][ \A p \in Stepper :
        (step[p].busy /\ step'[p] # step[p] /\ call' # call /\ Disputing(step[p].saw))
          => Disputing(call') \/ call'.state = "CLOSE" ]_vars
=============================================================================
