--------------------------- MODULE CallDialogProofs ---------------------------
(***************************************************************************)
(* Proofs about CallDialog, for any sets of requests, plans, channels and  *)
(* utterances.                                                             *)
(***************************************************************************)
EXTENDS CallDialog, TLAPS

-----------------------------------------------------------------------------
(***************************************************************************)
(* What an orchestrator step computes, as a function of the dialog loaded. *)
(***************************************************************************)
LEMMA PatchType ==
  ASSUME NEW slots \in Slots, NEW patch, DOMAIN patch \subseteq SlotName,
         Over(patch, NoSlots) \in Slots
  PROVE  Over(patch, slots) \in Slots
<1>1. \A f \in SlotName :
        Over(patch, slots)[f] \in {Over(patch, NoSlots)[f], slots[f]}
  BY DEF Over
<1>2. Over(patch, slots) = [f \in SlotName |-> Over(patch, slots)[f]]
  BY DEF Over
<1> QED BY <1>1, <1>2 DEF Slots, SlotName

LEMMA ActionType ==
  ASSUME NEW slots \in Slots, NEW a \in DialogAction
  PROVE  /\ Over(ActionSlots(a), slots) \in Slots
         /\ a = "VERIFY_IDENTITY_YES" => Over(ActionSlots(a), slots).identity = "yes"
  BY DEF Over, ActionSlots, Put, Slots, SlotName

LEMMA SanitizedType ==
  ASSUME NEW slots \in Slots
  PROVE  Sanitized(slots) \in Slots /\ Sanitized(slots).identity = slots.identity
  BY DEF Sanitized, Slots, NoSlots

LEMMA DefaultedType ==
  ASSUME NEW slots \in Slots
  PROVE  Defaulted(slots) \in Slots /\ Defaulted(slots).identity = slots.identity
<1>1. OnlyChannel \in Channel \cup {None}
  BY DEF OnlyChannel
<1>2. slots.plan # None => DefaultAmount[slots.plan] \in Amount \cup {0}
  BY DefaultAssumption DEF Slots
<1> QED BY <1>1, <1>2 DEF Defaulted, Slots

LEMMA SlotsAfterType ==
  ASSUME NEW slots \in Slots, NEW u \in Utterance
  PROVE  /\ SlotsAfter(slots, u) \in Slots
         /\ u.action = "VERIFY_IDENTITY_YES" => SlotsAfter(slots, u).identity = "yes"
<1> DEFINE said == Over(u.said, slots)
           acted == Over(ActionSlots(u.action), said)
<1>1. said \in Slots
  BY UtteranceAssumption, PatchType DEF IsUtterance
<1>2. acted \in Slots /\ (u.action = "VERIFY_IDENTITY_YES" => acted.identity = "yes")
  BY <1>1, UtteranceAssumption, ActionType DEF IsUtterance
<1>3. Sanitized(acted) \in Slots /\ Sanitized(acted).identity = acted.identity
  BY <1>2, SanitizedType
<1>4. /\ Defaulted(Sanitized(acted)) \in Slots
      /\ Defaulted(Sanitized(acted)).identity = acted.identity
  BY <1>3, DefaultedType
<1> QED BY <1>2, <1>4 DEF SlotsAfter

LEMMA ResetType ==
  ASSUME NEW slots \in Slots
  PROVE  AgreementReset(slots) \in Slots
<1>1. [slots EXCEPT !.plan = None, !.amount = 0, !.channel = None,
                    !.confirmed = "unknown"] \in Slots
  BY DEF Slots
<1> QED BY <1>1, SanitizedType DEF AgreementReset

LEMMA DraftType ==
  ASSUME NEW slots \in Slots
  PROVE  Draft(slots) \in Terms
  BY DEF Draft, Slots, Terms

\* The reducer moves between states of the table.
LEMMA ReduceType ==
  ASSUME NEW s \in CallState, NEW a, NEW slots
  PROVE  reduceCallState(s, a, slots).next \in CallState
<1>1. ReduceVerify(a, slots).next \in CallState
  BY DEF ReduceVerify, Goto, CallState
<1>2. ReduceDispute(slots).next \in CallState
  BY DEF ReduceDispute, Goto, CallState
<1>3. ReduceAgreement(s, a, slots).next \in CallState
  <2> DEFINE p == ProgressState(slots)
  <2>1. p \in CallState
    BY DEF ProgressState, CallState
  <2>2. /\ GoDoing(p, "commit").next = p /\ GoDoing(p, "readback").next = p
        /\ Goto(p).next = p
        /\ GoDoing("PLAN_SELECTION", "reset").next \in CallState
        /\ GoDoing("CONFIRM_AGREEMENT", "readback").next \in CallState
    BY DEF GoDoing, Goto, CallState
  <2> HIDE DEF p
  <2> QED BY <2>1, <2>2 DEF ReduceAgreement, p
<1> QED BY <1>1, <1>2, <1>3 DEF reduceCallState, Goto, CallState

LEMMA StepStateType ==
  ASSUME NEW c \in Call, NEW u \in Utterance
  PROVE  /\ ReducerState(c, u) \in CallState
         /\ ReturnTo(c, u) \in CallState \cup {None}
         /\ NextState(c, u) \in CallState
<1>1. c.state \in CallState /\ c.returnTo \in CallState \cup {None}
  BY DEF Call
<1>2. "INTERRUPTION" \in CallState
  BY DEF CallState
<1>3. ReducerState(c, u) \in CallState
  BY <1>1, <1>2 DEF ReducerState, Resumes
<1>4. ReturnTo(c, u) \in CallState \cup {None}
  BY <1>1 DEF ReturnTo
<1>5. Reduced(c, u).next \in CallState
  BY <1>3, ReduceType DEF Reduced
<1> QED BY <1>3, <1>4, <1>5 DEF NextState

LEMMA StepResultType ==
  ASSUME NEW c \in Call, NEW u \in Utterance
  PROVE  StepResult(c, u) \in Call /\ NextSlots(c, u) \in Slots
<1>1. /\ c.slots \in Slots
      /\ c.snapshot \in Terms
      /\ c.committed \in Terms
  BY DEF Call
<1>2. NextSlots(c, u) \in Slots
  BY <1>1, SlotsAfterType, ResetType DEF NextSlots
<1>3. Draft(NextSlots(c, u)) \in Terms
  BY <1>2, DraftType
<1>4. NoTerms \in Terms
  BY DEF NoTerms, Terms
<1>5. NextSnapshot(c, u) \in Terms
  BY <1>1, <1>3, <1>4 DEF NextSnapshot
<1>6. NextCommitted(c, u) \in Terms
  BY <1>1, <1>3, <1>5 DEF NextCommitted
<1>7. NextState(c, u) \in CallState /\ ReturnTo(c, u) \in CallState \cup {None}
  BY StepStateType
<1> QED BY <1>2, <1>5, <1>6, <1>7 DEF StepResult, Call

LEMMA NewCallType == NewCall \in Call /\ NoTerms \in Terms
  BY DEF NewCall, Call, NoSlots, Slots, NoTerms, Terms, CallState

LEMMA AnswerType ==
  ASSUME NEW c \in Call, NEW s \in CallState
  PROVE  Answer(c, s) \in Call
  BY DEF Answer, Call

LEMMA EffectiveTermsType ==
  ASSUME NEW c \in Call, NEW payload \in Terms
  PROVE  EffectiveTerms(c, payload) \in Terms
<1>1. c.slots \in Slots /\ c.snapshot \in Terms /\ c.committed \in Terms
  BY DEF Call
<1> QED BY <1>1, DraftType DEF EffectiveTerms

LEMMA CaseStatusType ==
  ASSUME NEW current, NEW o \in Outcome, CaseStatusFrom(current, o) # None
  PROVE  CaseStatusFrom(current, o) \in CaseStatus
  BY OutcomeAssumption DEF CaseStatusFrom, OutcomeStatus, CaseStatus

-----------------------------------------------------------------------------
(***************************************************************************)
(* Type correctness.                                                       *)
(***************************************************************************)
CallRead == [busy : BOOLEAN, saw : Call]
ToolRun  == [phase : {"idle", "reject", "find", "repeat", "create", "record",
                      "answer"}, saw : Call, terms : Terms]
FilingRun == [phase : {"idle", "reject", "find", "create", "answer"}, saw : Call]
HookRun  == [phase : {"idle", "close", "case"}, saw : Call, sawStatus : InteractionStatus,
             sawCase : CaseStatus]
RegisterRun == [busy : BOOLEAN, saw : Call, sawStatus : InteractionStatus]

LEMMA IdleType ==
  /\ IdleStep \in CallRead
  /\ IdleTool \in ToolRun
  /\ IdleFiling \in FilingRun
  /\ IdleHook \in HookRun
  /\ IdleRegister \in RegisterRun
  BY NewCallType DEF IdleStep, IdleTool, IdleFiling, IdleHook, CallRead, ToolRun,
     FilingRun, HookRun, CaseStatus, IdleRegister, RegisterRun, InteractionStatus

LEMMA InitType == Init => TypeOK
<1> SUFFICES ASSUME Init PROVE TypeOK
  OBVIOUS
<1>1. agreement \in Seq(Terms)
  BY DEF Init
<1>2. status \in InteractionStatus /\ caseStatus \in CaseStatus
  BY DEF Init, InteractionStatus, CaseStatus
<1> QED BY <1>1, <1>2, IdleType, NewCallType
        DEF Init, TypeOK, CallRead, ToolRun, FilingRun, HookRun, RegisterRun

LEMMA StepType ==
  ASSUME TypeOK, StepNext
  PROVE  TypeOK'
<1> USE DEF dialogVars, recordVars
<1> PICK p \in Stepper : StepRead(p) \/ \E u \in Utterance : StepWrite(p, u)
  BY DEF StepNext
<1>1. CASE StepRead(p)
  BY <1>1 DEF StepRead, TypeOK
<1>2. ASSUME NEW u \in Utterance, StepWrite(p, u) PROVE TypeOK'
  <2>1. step[p].saw \in Call
    BY DEF TypeOK
  <2>2. /\ StepResult(step[p].saw, u) \in Call
        /\ Draft(NextSlots(step[p].saw, u)) \in Terms
    BY <2>1, StepResultType, DraftType
  <2>3. /\ call' \in Call
        /\ verified' \in BOOLEAN
        /\ readBack' \in SUBSET Terms
        /\ step' \in [Stepper -> CallRead]
    BY <1>2, <2>2, IdleType DEF StepWrite, TypeOK, CallRead
  <2> QED BY <1>2, <2>3 DEF StepWrite, TypeOK, CallRead
<1> QED BY <1>1, <1>2

LEMMA ToolType ==
  ASSUME TypeOK, ToolNext
  PROVE  TypeOK'
<1> USE DEF dialogVars, recordVars
<1> PICK t \in AgreementTool :
      \/ ToolRead(t) \/ ToolReject(t) \/ ToolFind(t) \/ ToolRepeat(t)
      \/ ToolInvalid(t) \/ ToolCreate(t) \/ ToolRecord(t) \/ ToolAnswer(t)
      \/ ToolCrash(t)
  BY DEF ToolNext
<1>0. tool \in [AgreementTool -> ToolRun]
  BY DEF TypeOK, ToolRun
<1>a. tool[t].saw \in Call /\ tool[t].terms \in Terms
  BY <1>0 DEF ToolRun
<1>b. /\ Answer(tool[t].saw, "POST_DELIVERY_CONFIRM") \in Call
      /\ Answer(tool[t].saw, "CONFIRM_AGREEMENT") \in Call
  BY <1>a, AnswerType DEF CallState
<1>1. CASE ToolRead(t)
  <2> PICK payload \in [plan : Plan, amount : Amount, channel : Channel] :
        tool' = [tool EXCEPT ![t] =
          [phase |-> IF ToolAllowed(call.state) THEN "find" ELSE "reject",
           saw   |-> call,
           terms |-> IF ToolAllowed(call.state) THEN EffectiveTerms(call, payload)
                                                ELSE NoTerms]]
    BY <1>1 DEF ToolRead
  <2>1. payload \in Terms
    BY DEF Terms
  <2>2. call \in Call
    BY DEF TypeOK
  <2>3. EffectiveTerms(call, payload) \in Terms
    BY <2>1, <2>2, EffectiveTermsType
  <2>4. tool' \in [AgreementTool -> ToolRun]
    BY <1>0, <2>2, <2>3, NewCallType DEF ToolRun
  <2> QED BY <1>1, <2>4 DEF ToolRead, TypeOK, ToolRun
<1>2. CASE ToolReject(t)
  BY <1>0, <1>2, <1>a, IdleType DEF ToolReject, TypeOK, ToolRun
<1>3. CASE ToolFind(t)
  <2>1. tool' \in [AgreementTool -> ToolRun]
    BY <1>0, <1>3 DEF ToolFind, ToolRun
  <2> QED BY <1>3, <2>1 DEF ToolFind, TypeOK, ToolRun
<1>4. CASE ToolRepeat(t)
  BY <1>0, <1>4, <1>b, IdleType DEF ToolRepeat, TypeOK, ToolRun
<1>9. CASE ToolAnswer(t)
  BY <1>0, <1>9, <1>b, IdleType DEF ToolAnswer, TypeOK, ToolRun
<1>5. CASE ToolInvalid(t)
  BY <1>0, <1>5, <1>b, IdleType DEF ToolInvalid, TypeOK, ToolRun
<1>6. CASE ToolCreate(t)
  <2>1. tool' \in [AgreementTool -> ToolRun]
    BY <1>0, <1>6 DEF ToolCreate, ToolRun
  <2>2. agreement' \in Seq(Terms)
    BY <1>6, <1>a DEF ToolCreate, TypeOK
  <2> QED BY <1>6, <2>1, <2>2 DEF ToolCreate, TypeOK, ToolRun
<1>7. CASE ToolRecord(t)
  <2>1. tool' \in [AgreementTool -> ToolRun]
    BY <1>0, <1>7 DEF ToolRecord, ToolRun
  <2>2. caseStatus' \in CaseStatus
    BY <1>7 DEF ToolRecord, CaseStatus
  <2> QED BY <1>7, <2>1, <2>2 DEF ToolRecord, TypeOK, ToolRun
<1>8. CASE ToolCrash(t)
  BY <1>0, <1>8, IdleType DEF ToolCrash, TypeOK, ToolRun
<1> QED BY <1>1, <1>2, <1>3, <1>4, <1>5, <1>6, <1>7, <1>8, <1>9

LEMMA FilingType ==
  ASSUME TypeOK, FilingNext
  PROVE  TypeOK'
<1> USE DEF dialogVars, recordVars
<1> PICK d \in DisputeTool : FilingRead(d) \/ FilingReject(d) \/ FilingFind(d)
                             \/ FilingCreate(d) \/ FilingAnswer(d)
  BY DEF FilingNext
<1>0. filing \in [DisputeTool -> FilingRun]
  BY DEF TypeOK, FilingRun
<1>a. filing[d].saw \in Call
  BY <1>0 DEF FilingRun
<1>b. Answer(filing[d].saw, "POST_DISPUTE_CONFIRM") \in Call
  BY <1>a, AnswerType DEF CallState
<1>1. CASE FilingRead(d)
  BY <1>1 DEF FilingRead, TypeOK
<1>2. CASE FilingReject(d)
  BY <1>0, <1>2, <1>a, IdleType DEF FilingReject, TypeOK, FilingRun
<1>3. CASE FilingFind(d)
  <2>1. filing' \in [DisputeTool -> FilingRun]
    BY <1>0, <1>3 DEF FilingFind, FilingRun
  <2> QED BY <1>3, <2>1 DEF FilingFind, TypeOK, FilingRun
<1>4. CASE FilingCreate(d)
  <2>1. [filing[d] EXCEPT !.phase = "answer"] \in FilingRun
    BY <1>0 DEF FilingRun
  <2>2. filing' \in [DisputeTool -> FilingRun]
    BY <1>0, <1>4, <2>1, IdleType DEF FilingCreate
  <2> QED BY <1>4, <2>2 DEF FilingCreate, TypeOK, FilingRun
<1>5. CASE FilingAnswer(d)
  BY <1>0, <1>5, <1>b, IdleType DEF FilingAnswer, TypeOK, FilingRun
<1> QED BY <1>1, <1>2, <1>3, <1>4, <1>5

LEMMA RegisterType ==
  ASSUME TypeOK, RegisterNext
  PROVE  TypeOK'
<1> USE DEF dialogVars, recordVars
<1>0. register.saw \in Call /\ call \in Call
  BY DEF TypeOK
<1>1. CASE RegisterRead
  BY <1>1, <1>0 DEF RegisterRead, TypeOK
<1>2. CASE RegisterWrite
  <2>1. RegisteredCall(register.saw) \in Call
    BY <1>0, NewCallType DEF RegisteredCall, Call
  <2> QED BY <1>2, <2>1, IdleType DEF RegisterWrite, TypeOK, RegisterRun, InteractionStatus, Changed
<1>3. CASE RegisterFail
  BY <1>3, IdleType DEF RegisterFail, TypeOK, RegisterRun, InteractionStatus
<1>4. CASE LegRead
  BY <1>4 DEF LegRead, TypeOK
<1>5. CASE LegWrite
  BY <1>5 DEF LegWrite, TypeOK, InteractionStatus
<1> QED BY <1>1, <1>2, <1>3, <1>4, <1>5 DEF RegisterNext

LEMMA EndType ==
  ASSUME TypeOK, EndNext
  PROVE  TypeOK'
<1> USE DEF dialogVars, recordVars
<1>0. hook \in [Webhook -> HookRun]
  BY DEF TypeOK, HookRun
<1>1. ASSUME NEW w \in Webhook, HookRead(w) PROVE TypeOK'
  BY <1>1 DEF HookRead, TypeOK
<1>2. ASSUME NEW w \in Webhook, HookClose(w) PROVE TypeOK'
  <2>1. [hook[w] EXCEPT !.phase = "case", !.saw = NewCall] \in HookRun
    BY <1>0, NewCallType DEF HookRun
  <2>2. hook' \in [Webhook -> HookRun]
    BY <1>0, <1>2, <2>1 DEF HookClose
  <2>3. call' \in Call
    BY <1>0, <1>2, AnswerType DEF HookClose, HookRun, CallState
  <2> QED BY <1>2, <2>2, <2>3 DEF HookClose, TypeOK, HookRun, InteractionStatus, Changed
<1>3. ASSUME NEW w \in Webhook, NEW o \in Outcome, HookCase(w, o) PROVE TypeOK'
  <2>1. caseStatus' \in CaseStatus
    BY <1>3, CaseStatusType DEF HookCase, TypeOK, Changed
  <2> QED BY <1>0, <1>3, <2>1, IdleType DEF HookCase, TypeOK, HookRun
<1>4. CASE CloseStale
  <2>1. call' \in Call
    BY <1>4, AnswerType DEF CloseStale, TypeOK, CallState
  <2> QED BY <1>4, <2>1 DEF CloseStale, TypeOK, handlerVars, InteractionStatus
<1>5. CASE Crash
  BY <1>5, IdleType DEF Crash, TypeOK, CallRead, ToolRun, FilingRun, HookRun, RegisterRun
<1> QED BY <1>1, <1>2, <1>3, <1>4, <1>5 DEF EndNext

\* Every reachable dialog, record and request of a call has its type.
THEOREM DialogTypeCorrect == Spec => []TypeOK
<1>1. Init => TypeOK
  BY InitType
<1>2. TypeOK /\ [Next]_vars => TypeOK'
  <2> SUFFICES ASSUME TypeOK, [Next]_vars PROVE TypeOK'
    OBVIOUS
  <2>1. CASE UNCHANGED vars
    BY <2>1 DEF TypeOK, vars
  <2> QED BY <2>1, StepType, ToolType, FilingType, RegisterType, EndType DEF Next
<1> QED BY <1>1, <1>2, PTL DEF Spec

-----------------------------------------------------------------------------
(***************************************************************************)
(* No agreement without identity.  The tool looks at the state alone, so   *)
(* the invariant says of every dialog, the stored one and those loaded by  *)
(* a request under way, that a state past the identity (or an interrupted  *)
(* one) is there only when the identity was confirmed; and of every        *)
(* request that it went on only from a state it accepts.                   *)
(***************************************************************************)
Early == {"VERIFY_IDENTITY", "INTERRUPTION", "CLOSE"}

Knows(c, v) ==
  (c.state \notin Early \/ c.returnTo \notin Early \cup {None}) => v

IdentityInv ==
  /\ NoAgreementWithoutIdentity
  /\ Knows(call, verified)
  /\ \A p \in Stepper : Knows(step[p].saw, verified)
  /\ \A t \in AgreementTool :
       /\ Knows(tool[t].saw, verified)
       /\ tool[t].phase \notin {"idle", "reject"} => ToolAllowed(tool[t].saw.state)
  /\ \A d \in DisputeTool :
       /\ Knows(filing[d].saw, verified)
       /\ filing[d].phase \notin {"idle", "reject"}
            => filing[d].saw.state \in DisputeStates
  /\ Knows(register.saw, verified)
  /\ \A w \in Webhook : Knows(hook[w].saw, verified)

\* An orchestrator step leaves the early states only with an identity.
LEMMA StepKnows ==
  ASSUME NEW c \in Call, NEW u \in Utterance, NEW v \in BOOLEAN, Knows(c, v)
  PROVE  Knows(StepResult(c, u), v \/ NextSlots(c, u).identity = "yes")
<1> DEFINE r == ReducerState(c, u)
           slots == SlotsAfter(c.slots, u)
<1>1. c.slots \in Slots /\ c.state \in CallState
  BY DEF Call
<1>2. /\ StepResult(c, u).state = NextState(c, u)
      /\ StepResult(c, u).returnTo =
           IF NextState(c, u) = "CLOSE" THEN None ELSE ReturnTo(c, u)
  BY DEF StepResult
<1>3. ReturnTo(c, u) \notin Early \cup {None} => v
  BY DEF ReturnTo, Knows, Early
<1>4. r \notin Early => v
  BY DEF ReducerState, Resumes, Knows, Early
<1>5. r = "CLOSE" => NextState(c, u) = "CLOSE"
  BY DEF NextState, Reduced, reduceCallState, Goto
<1>6. r = "INTERRUPTION" => NextState(c, u) \in Early
  BY DEF NextState, Reduced, reduceCallState, Goto, Early
<1>7. ASSUME r = "VERIFY_IDENTITY", NextState(c, u) \notin Early
      PROVE  NextSlots(c, u).identity = "yes"
  <2>1. Reduced(c, u) = ReduceVerify(u.action, slots)
    BY <1>7 DEF Reduced, NextState, reduceCallState, Goto, Early
  <2>2. /\ u.action = "VERIFY_IDENTITY_YES" \/ slots.identity = "yes"
        /\ Reduced(c, u).does = "nothing"
    BY <1>7, <2>1 DEF NextState, ReduceVerify, Goto, Early
  <2>3. slots.identity = "yes"
    BY <1>1, <2>2, SlotsAfterType
  <2> QED BY <2>2, <2>3 DEF NextSlots
<1>8. NextState(c, u) \notin Early => v \/ NextSlots(c, u).identity = "yes"
  BY <1>4, <1>5, <1>6, <1>7 DEF Early
<1> HIDE DEF r, slots
<1> QED BY <1>2, <1>3, <1>8 DEF Knows

LEMMA AnswerKnows ==
  ASSUME NEW c \in Call, NEW v \in BOOLEAN, Knows(c, v), NEW s, s \in Early \/ v
  PROVE  Knows(Answer(c, s), v)
  BY DEF Knows, Answer, Call

LEMMA NewKnows ==
  ASSUME NEW v \in BOOLEAN
  PROVE  /\ Knows(NewCall, v)
         /\ Knows(IdleStep.saw, v) /\ Knows(IdleTool.saw, v)
         /\ Knows(IdleFiling.saw, v) /\ Knows(IdleHook.saw, v)
         /\ Knows(IdleRegister.saw, v)
  BY DEF Knows, Early, NewCall, IdleStep, IdleTool, IdleFiling, IdleHook, IdleRegister

\* Identity, once known, stays known to every dialog loaded before.
LEMMA KnowsGrows ==
  ASSUME NEW c, NEW v \in BOOLEAN, NEW w \in BOOLEAN, Knows(c, v), v => w
  PROVE  Knows(c, w)
  BY DEF Knows

LEMMA StepIdentity ==
  ASSUME TypeOK, IdentityInv, StepNext
  PROVE  IdentityInv'
<1> USE DEF dialogVars, recordVars
<1> PICK p \in Stepper : StepRead(p) \/ \E u \in Utterance : StepWrite(p, u)
  BY DEF StepNext
<1>0. step \in [Stepper -> CallRead] /\ verified \in BOOLEAN
  BY DEF TypeOK, CallRead
<1>1. CASE StepRead(p)
  <2>1. \A q \in Stepper : Knows(step'[q].saw, verified)
    BY <1>0, <1>1 DEF StepRead, IdentityInv
  <2> QED BY <1>1, <2>1 DEF StepRead, IdentityInv, NoAgreementWithoutIdentity
<1>2. ASSUME NEW u \in Utterance, StepWrite(p, u) PROVE IdentityInv'
  <2>1. verified' \in BOOLEAN /\ (verified => verified')
    BY <1>0, <1>2 DEF StepWrite
  <2>2. Knows(call', verified')
    <3>1. step[p].saw \in Call /\ Knows(step[p].saw, verified)
      BY <1>0 DEF CallRead, IdentityInv
    <3> QED BY <1>0, <1>2, <3>1, StepKnows DEF StepWrite
  <2>3. \A q \in Stepper : Knows(step'[q].saw, verified')
    <3> TAKE q \in Stepper
    <3>1. step'[q] = IF q = p THEN IdleStep ELSE step[q]
      BY <1>0, <1>2 DEF StepWrite
    <3> QED BY <1>0, <2>1, <3>1, NewKnows, KnowsGrows DEF IdentityInv
  <2>4. /\ \A t \in AgreementTool : Knows(tool[t].saw, verified')
        /\ \A d \in DisputeTool : Knows(filing[d].saw, verified')
        /\ \A w \in Webhook : Knows(hook[w].saw, verified')
        /\ Knows(register.saw, verified')
    BY <1>0, <2>1, KnowsGrows DEF IdentityInv
  <2> QED BY <1>2, <2>1, <2>2, <2>3, <2>4
          DEF StepWrite, IdentityInv, NoAgreementWithoutIdentity
<1> QED BY <1>1, <1>2

LEMMA ToolIdentity ==
  ASSUME TypeOK, IdentityInv, ToolNext
  PROVE  IdentityInv'
<1> USE DEF dialogVars, recordVars
<1> PICK t \in AgreementTool :
      \/ ToolRead(t) \/ ToolReject(t) \/ ToolFind(t) \/ ToolRepeat(t)
      \/ ToolInvalid(t) \/ ToolCreate(t) \/ ToolRecord(t) \/ ToolAnswer(t)
      \/ ToolCrash(t)
  BY DEF ToolNext
<1>0. /\ tool \in [AgreementTool -> ToolRun]
      /\ tool[t].saw \in Call
      /\ verified \in BOOLEAN
  BY DEF TypeOK, ToolRun
<1>a. tool[t].phase \notin {"idle", "reject"} => verified
  BY DEF IdentityInv, Knows, ToolAllowed, AgreementStates, Early
<1>b. Knows(tool[t].saw, verified)
  BY DEF IdentityInv
<1>c. ASSUME tool[t].phase \notin {"idle", "reject"}
      PROVE  /\ Knows(Answer(tool[t].saw, "POST_DELIVERY_CONFIRM"), verified)
             /\ Knows(Answer(tool[t].saw, "CONFIRM_AGREEMENT"), verified)
  BY <1>0, <1>a, <1>b, <1>c, AnswerKnows
<1>1. \* Every action but the creation leaves the agreements alone.
      /\ verified' = verified
      /\ agreement' = agreement \/ verified
  BY <1>a DEF ToolRead, ToolReject, ToolFind, ToolRepeat, ToolInvalid, ToolCreate,
              ToolRecord, ToolAnswer, ToolCrash
<1>2. Knows(call', verified)
  <2>1. CASE ToolReject(t)
    BY <1>b, <2>1 DEF ToolReject
  <2>2. CASE ToolRepeat(t)
    BY <1>c, <2>2 DEF ToolRepeat
  <2>3. CASE ToolInvalid(t)
    BY <1>c, <2>3 DEF ToolInvalid
  <2>4. CASE ToolAnswer(t)
    BY <1>c, <2>4 DEF ToolAnswer
  <2>5. CASE ToolRead(t) \/ ToolFind(t) \/ ToolCreate(t) \/ ToolRecord(t) \/ ToolCrash(t)
    BY <2>5 DEF ToolRead, ToolFind, ToolCreate, ToolRecord, ToolCrash, IdentityInv
  <2> QED BY <2>1, <2>2, <2>3, <2>4, <2>5
<1>3. /\ \A x \in AgreementTool : x # t => tool'[x] = tool[x]
      /\ Knows(tool'[t].saw, verified)
      /\ tool'[t].phase \notin {"idle", "reject"} => ToolAllowed(tool'[t].saw.state)
  <2>1. CASE ToolRead(t)
    BY <1>0, <2>1 DEF ToolRead, IdentityInv
  <2>2. CASE ToolReject(t) \/ ToolRepeat(t) \/ ToolInvalid(t) \/ ToolAnswer(t) \/ ToolCrash(t)
    <3>1. tool' = [tool EXCEPT ![t] = IdleTool]
      BY <2>2 DEF ToolReject, ToolRepeat, ToolInvalid, ToolAnswer, ToolCrash
    <3>2. IdleTool.phase = "idle"
      BY DEF IdleTool
    <3> QED BY <1>0, <3>1, <3>2, NewKnows
  <2>3. CASE ToolFind(t)
    BY <1>0, <1>b, <2>3 DEF ToolFind, ToolRun, IdentityInv
  <2>4. CASE ToolCreate(t)
    BY <1>0, <1>b, <2>4 DEF ToolCreate, ToolRun, IdentityInv
  <2>5. CASE ToolRecord(t)
    BY <1>0, <1>b, <2>5 DEF ToolRecord, ToolRun, IdentityInv
  <2> QED BY <2>1, <2>2, <2>3, <2>4, <2>5
<1>4. UNCHANGED <<step, filing, register, hook>>
  BY DEF ToolRead, ToolReject, ToolFind, ToolRepeat, ToolInvalid, ToolCreate,
         ToolRecord, ToolAnswer, ToolCrash
<1> QED BY <1>1, <1>2, <1>3, <1>4 DEF IdentityInv, NoAgreementWithoutIdentity

LEMMA FilingIdentity ==
  ASSUME TypeOK, IdentityInv, FilingNext
  PROVE  IdentityInv'
<1> USE DEF dialogVars, recordVars
<1> PICK d \in DisputeTool : FilingRead(d) \/ FilingReject(d) \/ FilingFind(d)
                             \/ FilingCreate(d) \/ FilingAnswer(d)
  BY DEF FilingNext
<1>0. /\ filing \in [DisputeTool -> FilingRun]
      /\ filing[d].saw \in Call
      /\ verified \in BOOLEAN
  BY DEF TypeOK, FilingRun
<1>a. filing[d].phase \notin {"idle", "reject"} => verified
  BY DEF IdentityInv, Knows, DisputeStates, Early
<1>b. Knows(filing[d].saw, verified)
  BY DEF IdentityInv
<1>1. UNCHANGED <<verified, agreement, step, tool, register, hook>>
  BY DEF FilingRead, FilingReject, FilingFind, FilingCreate, FilingAnswer
<1>2. Knows(call', verified)
  <2>1. CASE FilingReject(d)
    BY <1>b, <2>1 DEF FilingReject
  <2>2. CASE FilingAnswer(d)
    BY <1>0, <1>a, <1>b, <2>2, AnswerKnows DEF FilingAnswer
  <2>3. CASE FilingRead(d) \/ FilingFind(d) \/ FilingCreate(d)
    BY <2>3 DEF FilingRead, FilingFind, FilingCreate, IdentityInv
  <2> QED BY <2>1, <2>2, <2>3
<1>3. /\ \A x \in DisputeTool : x # d => filing'[x] = filing[x]
      /\ Knows(filing'[d].saw, verified)
      /\ filing'[d].phase \notin {"idle", "reject"}
           => filing'[d].saw.state \in DisputeStates
  <2>0. IdleFiling.phase = "idle" /\ Knows(IdleFiling.saw, verified)
    BY <1>0, NewKnows DEF IdleFiling
  <2>1. CASE FilingRead(d)
    BY <1>0, <2>1 DEF FilingRead, IdentityInv
  <2>2. CASE FilingReject(d) \/ FilingAnswer(d)
    BY <1>0, <2>0, <2>2 DEF FilingReject, FilingAnswer
  <2>3. CASE FilingFind(d)
    BY <1>0, <1>b, <2>3 DEF FilingFind, FilingRun, IdentityInv
  <2>4. CASE FilingCreate(d)
    <3> DEFINE r == [filing[d] EXCEPT !.phase = "answer"]
    <3>1. r.saw = filing[d].saw
      BY <1>0 DEF FilingRun
    <3>2. filing[d].saw.state \in DisputeStates
      BY <2>4 DEF FilingCreate, IdentityInv
    <3>3. filing' = [filing EXCEPT ![d] = IF dispute THEN IdleFiling ELSE r]
      BY <2>4 DEF FilingCreate
    <3> HIDE DEF r
    <3> QED BY <1>0, <1>b, <2>0, <3>1, <3>2, <3>3
  <2> QED BY <2>1, <2>2, <2>3, <2>4
<1> QED BY <1>1, <1>2, <1>3 DEF IdentityInv, NoAgreementWithoutIdentity

LEMMA RegisterIdentity ==
  ASSUME TypeOK, IdentityInv, RegisterNext
  PROVE  IdentityInv'
<1> USE DEF dialogVars, recordVars
<1>0. verified \in BOOLEAN /\ register.saw \in Call
  BY DEF TypeOK
<1>1. UNCHANGED <<verified, agreement, step, tool, filing, hook>>
  BY DEF RegisterNext, RegisterRead, RegisterWrite, RegisterFail, LegRead, LegWrite
<1>2. Knows(call', verified)
  <2>1. CASE RegisterWrite
    <3>1. /\ RegisteredCall(register.saw).state = register.saw.state
          /\ RegisteredCall(register.saw).returnTo = None
      BY DEF RegisteredCall, NewCall
    <3> QED BY <2>1, <3>1 DEF RegisterWrite, IdentityInv, Knows
  <2>2. CASE ~RegisterWrite
    BY <2>2 DEF RegisterNext, RegisterRead, RegisterFail, LegRead, LegWrite, IdentityInv
  <2> QED BY <2>1, <2>2
<1>3. Knows(register'.saw, verified)
  BY <1>0, NewKnows DEF RegisterNext, RegisterRead, RegisterWrite, RegisterFail,
     LegRead, LegWrite, IdentityInv
<1> QED BY <1>1, <1>2, <1>3 DEF IdentityInv, NoAgreementWithoutIdentity

LEMMA EndIdentity ==
  ASSUME TypeOK, IdentityInv, EndNext
  PROVE  IdentityInv'
<1> USE DEF dialogVars, recordVars
<1>0. /\ verified \in BOOLEAN /\ call \in Call
      /\ hook \in [Webhook -> HookRun]
  BY DEF TypeOK, HookRun
<1>1. ASSUME NEW w \in Webhook, HookRead(w) \/ HookClose(w) \/ \E o \in Outcome : HookCase(w, o)
      PROVE  IdentityInv'
  <2>1. UNCHANGED <<verified, agreement, step, tool, filing, register>>
    BY <1>1 DEF HookRead, HookClose, HookCase
  <2>2. Knows(call', verified)
    <3>1. hook[w].saw \in Call /\ Knows(hook[w].saw, verified)
      BY <1>0 DEF HookRun, IdentityInv
    <3>2. Knows(Answer(hook[w].saw, "CLOSE"), verified)
      BY <1>0, <3>1, AnswerKnows DEF Early
    <3> QED BY <1>1, <3>2 DEF HookRead, HookClose, HookCase, IdentityInv
  <2>3. \A x \in Webhook : Knows(hook'[x].saw, verified)
    <3>1. CASE HookRead(w)
      BY <1>0, <3>1 DEF HookRead, IdentityInv
    <3>2. CASE HookClose(w)
      <4> DEFINE r == [hook[w] EXCEPT !.phase = "case", !.saw = NewCall]
      <4>1. r.saw = NewCall
        BY <1>0 DEF HookRun
      <4>2. hook' = [hook EXCEPT ![w] = r]
        BY <3>2 DEF HookClose
      <4> HIDE DEF r
      <4> QED BY <1>0, <4>1, <4>2, NewKnows DEF IdentityInv
    <3>3. CASE \E o \in Outcome : HookCase(w, o)
      BY <1>0, <3>3, NewKnows DEF HookCase, IdentityInv
    <3> QED BY <1>1, <3>1, <3>2, <3>3
  <2> QED BY <2>1, <2>2, <2>3 DEF IdentityInv, NoAgreementWithoutIdentity
<1>2. CASE CloseStale
  <2>1. Knows(call', verified)
    BY <1>0, <1>2, AnswerKnows DEF CloseStale, IdentityInv, Early
  <2> QED BY <1>2, <2>1 DEF CloseStale, IdentityInv, NoAgreementWithoutIdentity, handlerVars
<1>3. CASE Crash
  <2>1. IdleTool.phase = "idle" /\ IdleFiling.phase = "idle"
    BY DEF IdleTool, IdleFiling
  <2> QED BY <1>0, <1>3, <2>1, NewKnows DEF Crash, IdentityInv, NoAgreementWithoutIdentity
<1> QED BY <1>1, <1>2, <1>3 DEF EndNext

\* The invariant: identity is behind every state past its verification, in the
\* stored dialog and in those the requests under way have loaded.
THEOREM IdentityKept == Spec => []IdentityInv
<1>1. Init => IdentityInv
  <2> SUFFICES ASSUME Init PROVE IdentityInv
    OBVIOUS
  <2>1. IdleTool.phase = "idle" /\ IdleFiling.phase = "idle" /\ verified \in BOOLEAN
    BY DEF Init, IdleTool, IdleFiling
  <2> QED BY <2>1, NewKnows DEF Init, IdentityInv, NoAgreementWithoutIdentity
<1>2. TypeOK /\ IdentityInv /\ [Next]_vars => IdentityInv'
  <2> SUFFICES ASSUME TypeOK, IdentityInv, [Next]_vars PROVE IdentityInv'
    OBVIOUS
  <2>1. CASE UNCHANGED vars
    BY <2>1 DEF IdentityInv, NoAgreementWithoutIdentity, vars
  <2> QED BY <2>1, StepIdentity, ToolIdentity, FilingIdentity, RegisterIdentity,
             EndIdentity DEF Next
<1> QED BY <1>1, <1>2, DialogTypeCorrect, PTL DEF Spec

\* No agreement is made in a call whose debtor was not identified, whatever
\* requests, webhooks, retries and failures are under way together.
THEOREM AgreementNeedsIdentity == Spec => []NoAgreementWithoutIdentity
<1>1. IdentityInv => NoAgreementWithoutIdentity
  BY DEF IdentityInv
<1> QED BY <1>1, IdentityKept, PTL

-----------------------------------------------------------------------------
(***************************************************************************)
(* A closed dialog is opened again only by a handler that saw it open.     *)
(***************************************************************************)
LEMMA ClosedStays ==
  ASSUME NEW c \in Call, NEW u \in Utterance, c.state = "CLOSE"
  PROVE  StepResult(c, u).state = "CLOSE"
<1>1. ReducerState(c, u) = "CLOSE"
  BY DEF ReducerState, Resumes, Interrupts
<1> QED BY <1>1 DEF StepResult, NextState, Reduced, reduceCallState, Goto

\* Closing is final for every handler that knows of it: only one that loaded
\* the dialog before it was closed can write an open state over it.
THEOREM ReopenedByStaleOnly == Spec => ReadBeforeClose
<1> DEFINE ByStep == \E p \in Stepper : step'[p] # step[p] /\ step[p].saw.state # "CLOSE"
           ByTool == \E t \in AgreementTool :
                       tool'[t] # tool[t] /\ tool[t].saw.state # "CLOSE"
           ByFiling == \E d \in DisputeTool :
                         filing'[d] # filing[d] /\ filing[d].saw.state # "CLOSE"
           ByRegister == register' # register /\ register.saw.state # "CLOSE"
           Reopens == call.state = "CLOSE" /\ call'.state # "CLOSE"
<1>1. ASSUME TypeOK, IdentityInv, [Next]_vars, Reopens
      PROVE  ByStep \/ ByTool \/ ByFiling \/ ByRegister
  <2>1. call' # call
    BY <1>1
  <2>2. CASE StepNext
    <3> PICK p \in Stepper, u \in Utterance : StepWrite(p, u)
      BY <2>1, <2>2 DEF StepNext, StepRead, dialogVars
    <3>1. step[p].saw \in Call /\ step \in [Stepper -> CallRead]
      BY <1>1 DEF TypeOK, CallRead
    <3>2. call' = StepResult(step[p].saw, u) /\ step'[p].busy # step[p].busy
      BY <3>1 DEF StepWrite, IdleStep
    <3>3. step[p].saw.state # "CLOSE"
      BY <1>1, <3>1, <3>2, ClosedStays
    <3> QED BY <3>2, <3>3
  <2>3. CASE ToolNext
    <3> PICK t \in AgreementTool :
          ToolReject(t) \/ ToolRepeat(t) \/ ToolInvalid(t) \/ ToolAnswer(t)
      BY <2>1, <2>3 DEF ToolNext, ToolRead, ToolFind, ToolCreate, ToolRecord,
         ToolCrash, dialogVars
    <3>1. tool \in [AgreementTool -> ToolRun]
      BY <1>1 DEF TypeOK, ToolRun
    <3>2. tool'[t].phase # tool[t].phase
      BY <3>1 DEF ToolReject, ToolRepeat, ToolInvalid, ToolAnswer, IdleTool
    <3>3. tool[t].saw.state # "CLOSE"
      <4>1. CASE ToolReject(t)
        BY <1>1, <4>1 DEF ToolReject
      <4>2. CASE ToolRepeat(t) \/ ToolInvalid(t) \/ ToolAnswer(t)
        BY <1>1, <4>2 DEF ToolRepeat, ToolInvalid, ToolAnswer, IdentityInv,
           ToolAllowed, AgreementStates
      <4> QED BY <4>1, <4>2
    <3> QED BY <3>2, <3>3
  <2>4. CASE FilingNext
    <3> PICK d \in DisputeTool : FilingReject(d) \/ FilingAnswer(d)
      BY <2>1, <2>4 DEF FilingNext, FilingRead, FilingFind, FilingCreate, dialogVars
    <3>1. filing \in [DisputeTool -> FilingRun]
      BY <1>1 DEF TypeOK, FilingRun
    <3>2. filing'[d].phase # filing[d].phase
      BY <3>1 DEF FilingReject, FilingAnswer, IdleFiling
    <3>3. filing[d].saw.state # "CLOSE"
      <4>1. CASE FilingReject(d)
        BY <1>1, <4>1 DEF FilingReject
      <4>2. CASE FilingAnswer(d)
        BY <1>1, <4>2 DEF FilingAnswer, IdentityInv, DisputeStates
      <4> QED BY <4>1, <4>2
    <3> QED BY <3>2, <3>3
  <2>5. CASE RegisterNext
    <3>1. RegisterWrite
      BY <2>1, <2>5 DEF RegisterNext, RegisterRead, RegisterFail, LegRead, LegWrite,
         dialogVars
    <3>2. register'.busy # register.busy
      BY <3>1 DEF RegisterWrite, IdleRegister
    <3>3. call'.state = register.saw.state
      BY <3>1 DEF RegisterWrite, RegisteredCall, NewCall
    <3> QED BY <1>1, <3>2, <3>3
  <2>6. CASE EndNext
    <3>1. call \in Call /\ hook \in [Webhook -> HookRun]
      BY <1>1 DEF TypeOK, HookRun
    <3>2. ASSUME NEW w \in Webhook, HookClose(w) PROVE FALSE
      BY <1>1, <3>1, <3>2 DEF HookClose, Answer, HookRun, Call
    <3>3. CASE CloseStale
      BY <1>1, <3>1, <3>3 DEF CloseStale, Answer, Call
    <3> QED BY <2>1, <2>6, <3>2, <3>3
            DEF EndNext, HookRead, HookCase, Crash, dialogVars
  <2> QED BY <1>1, <2>1, <2>2, <2>3, <2>4, <2>5, <2>6 DEF Next, vars
<1>2. TypeOK /\ IdentityInv /\ [Next]_vars
        => [Reopens => ByStep \/ ByTool \/ ByFiling \/ ByRegister]_vars
  BY <1>1
<1>3. Spec => [](TypeOK /\ IdentityInv)
  BY DialogTypeCorrect, IdentityKept, PTL
<1> QED BY <1>2, <1>3, PTL DEF Spec, ReadBeforeClose

-----------------------------------------------------------------------------
(***************************************************************************)
(* What a dialog may become, once for all that is said of every dialog:    *)
(* the stored one and those the requests under way have loaded.            *)
(***************************************************************************)
Loaded(S) ==
  /\ call \in S
  /\ register.saw \in S
  /\ \A p \in Stepper : step[p].saw \in S
  /\ \A t \in AgreementTool : tool[t].saw \in S
  /\ \A d \in DisputeTool : filing[d].saw \in S
  /\ \A w \in Webhook : hook[w].saw \in S

\* A tool that went on after its read, and what it may answer with.
Working(t) == tool[t].phase \notin {"idle", "reject"}
Filing(d)  == filing[d].phase \notin {"idle", "reject"}

LEMMA DialogsStep ==
  ASSUME TypeOK, [Next]_vars, NEW S, Loaded(S), NEW T, S \subseteq T, NewCall \in T,
         \A p \in Stepper, u \in Utterance : StepWrite(p, u) => StepResult(step[p].saw, u) \in T,
         RegisterWrite => RegisteredCall(register.saw) \in T,
         \A t \in AgreementTool : Working(t) =>
           /\ Answer(tool[t].saw, "POST_DELIVERY_CONFIRM") \in T
           /\ Answer(tool[t].saw, "CONFIRM_AGREEMENT") \in T,
         \A d \in DisputeTool : Filing(d) => Answer(filing[d].saw, "POST_DISPUTE_CONFIRM") \in T,
         \A c \in S : Answer(c, "CLOSE") \in T
  PROVE  /\ call' \in T
         /\ register'.saw \in T
         /\ \A p \in Stepper : step'[p].saw \in T
         /\ \A t \in AgreementTool : tool'[t].saw \in T
         /\ \A d \in DisputeTool : filing'[d].saw \in T
         /\ \A w \in Webhook : hook'[w].saw \in T
<1> USE DEF dialogVars, recordVars
<1>0. /\ step \in [Stepper -> CallRead]
      /\ tool \in [AgreementTool -> ToolRun]
      /\ filing \in [DisputeTool -> FilingRun]
      /\ hook \in [Webhook -> HookRun]
  BY DEF TypeOK, CallRead, ToolRun, FilingRun, HookRun
<1>n. /\ IdleStep.saw \in T /\ IdleTool.saw \in T
      /\ IdleFiling.saw \in T /\ IdleHook.saw \in T /\ IdleRegister.saw \in T
  BY DEF IdleStep, IdleTool, IdleFiling, IdleHook, IdleRegister
<1>s. Loaded(T)
  BY DEF Loaded
<1> DEFINE Goal == /\ call' \in T
                   /\ register'.saw \in T
                   /\ \A p \in Stepper : step'[p].saw \in T
                   /\ \A t \in AgreementTool : tool'[t].saw \in T
                   /\ \A d \in DisputeTool : filing'[d].saw \in T
                   /\ \A w \in Webhook : hook'[w].saw \in T
<1>1. CASE StepNext
  <2> PICK p \in Stepper : StepRead(p) \/ \E u \in Utterance : StepWrite(p, u)
    BY <1>1 DEF StepNext
  <2>1. CASE StepRead(p)
    BY <1>0, <1>s, <2>1 DEF StepRead, Loaded
  <2>2. ASSUME NEW u \in Utterance, StepWrite(p, u) PROVE Goal
    <3>1. call' \in T
      BY <2>2 DEF StepWrite
    <3>2. \A q \in Stepper : step'[q].saw \in T
      BY <1>0, <1>n, <1>s, <2>2 DEF StepWrite, Loaded
    <3>3. UNCHANGED <<tool, filing, register, hook>>
      BY <2>2 DEF StepWrite
    <3> QED
      BY <1>s, <3>1, <3>2, <3>3 DEF Loaded
  <2> QED BY <2>1, <2>2
<1>2. CASE ToolNext
  <2> PICK t \in AgreementTool :
        \/ ToolRead(t) \/ ToolReject(t) \/ ToolFind(t) \/ ToolRepeat(t)
        \/ ToolInvalid(t) \/ ToolCreate(t) \/ ToolRecord(t) \/ ToolAnswer(t)
        \/ ToolCrash(t)
    BY <1>2 DEF ToolNext
  <2>1. UNCHANGED <<step, filing, register, hook>>
    BY DEF ToolRead, ToolReject, ToolFind, ToolRepeat, ToolInvalid, ToolCreate, ToolRecord,
           ToolAnswer, ToolCrash
  <2>2. call' \in T
    <3>1. CASE ToolRepeat(t) \/ ToolInvalid(t) \/ ToolAnswer(t)
      BY <3>1 DEF ToolRepeat, ToolInvalid, ToolAnswer, Working
    <3>2. CASE ToolReject(t)
      BY <3>2, <1>s DEF ToolReject, Loaded
    <3>3. CASE ToolRead(t) \/ ToolFind(t) \/ ToolCreate(t) \/ ToolRecord(t) \/ ToolCrash(t)
      BY <3>3, <1>s DEF ToolRead, ToolFind, ToolCreate, ToolRecord, ToolCrash, Loaded
    <3> QED BY <3>1, <3>2, <3>3
  <2>3. \A x \in AgreementTool : tool'[x].saw \in T
    <3>1. CASE ToolRead(t)
      BY <1>0, <1>s, <3>1 DEF ToolRead, Loaded
    <3>2. CASE ToolReject(t) \/ ToolRepeat(t) \/ ToolInvalid(t) \/ ToolAnswer(t) \/ ToolCrash(t)
      <4>1. tool' = [tool EXCEPT ![t] = IdleTool]
        BY <3>2 DEF ToolReject, ToolRepeat, ToolInvalid, ToolAnswer, ToolCrash
      <4> QED BY <1>0, <1>n, <1>s, <4>1 DEF Loaded
    <3>3. CASE ToolFind(t)
      BY <1>0, <1>s, <3>3 DEF ToolFind, ToolRun, Loaded
    <3>4. CASE ToolCreate(t) \/ ToolRecord(t)
      BY <1>0, <1>s, <3>4 DEF ToolCreate, ToolRecord, ToolRun, Loaded
    <3> QED BY <3>1, <3>2, <3>3, <3>4
  <2> QED BY <1>s, <2>1, <2>2, <2>3 DEF Loaded
<1>3. CASE FilingNext
  <2> PICK d \in DisputeTool : FilingRead(d) \/ FilingReject(d) \/ FilingFind(d)
                               \/ FilingCreate(d) \/ FilingAnswer(d)
    BY <1>3 DEF FilingNext
  <2>1. UNCHANGED <<step, tool, register, hook>>
    BY DEF FilingRead, FilingReject, FilingFind, FilingCreate, FilingAnswer
  <2>2. call' \in T
    BY <1>s DEF FilingRead, FilingReject, FilingFind, FilingCreate, FilingAnswer, Filing, Loaded
  <2>3. \A x \in DisputeTool : filing'[x].saw \in T
    <3>1. CASE FilingRead(d)
      BY <1>0, <1>s, <3>1 DEF FilingRead, Loaded
    <3>2. CASE FilingReject(d) \/ FilingAnswer(d)
      BY <1>0, <1>n, <1>s, <3>2 DEF FilingReject, FilingAnswer, Loaded
    <3>3. CASE FilingFind(d)
      BY <1>0, <1>s, <3>3 DEF FilingFind, FilingRun, Loaded
    <3>4. CASE FilingCreate(d)
      <4> DEFINE q == [filing[d] EXCEPT !.phase = "answer"]
      <4>1. q.saw = filing[d].saw
        BY <1>0 DEF FilingRun
      <4>2. filing' = [filing EXCEPT ![d] = IF dispute THEN IdleFiling ELSE q]
        BY <3>4 DEF FilingCreate
      <4> HIDE DEF q
      <4> QED BY <1>0, <1>n, <1>s, <4>1, <4>2 DEF Loaded
    <3> QED BY <3>1, <3>2, <3>3, <3>4
  <2> QED BY <1>s, <2>1, <2>2, <2>3 DEF Loaded
<1>4. CASE RegisterNext
  <2>1. UNCHANGED <<step, tool, filing, hook>>
    BY <1>4 DEF RegisterNext, RegisterRead, RegisterWrite, RegisterFail, LegRead, LegWrite
  <2>2. call' \in T
    BY <1>4, <1>s DEF RegisterNext, RegisterRead, RegisterWrite, RegisterFail, LegRead, LegWrite,
                      Loaded
  <2>3. register'.saw \in T
    BY <1>4, <1>n, <1>s DEF RegisterNext, RegisterRead, RegisterWrite, RegisterFail, LegRead,
                            LegWrite, Loaded
  <2> QED BY <1>s, <2>1, <2>2, <2>3 DEF Loaded
<1>5. ASSUME NEW w \in Webhook, HookRead(w) \/ HookClose(w) \/ \E o \in Outcome : HookCase(w, o)
      PROVE  Goal
  <2>1. UNCHANGED <<step, tool, filing, register>>
    BY <1>5 DEF HookRead, HookClose, HookCase
  <2>2. call' \in T
    BY <1>5, <1>s DEF HookRead, HookClose, HookCase, Loaded
  <2>3. \A x \in Webhook : hook'[x].saw \in T
    <3>1. CASE HookRead(w)
      BY <1>0, <1>s, <3>1 DEF HookRead, Loaded
    <3>2. CASE HookClose(w)
      <4> DEFINE q == [hook[w] EXCEPT !.phase = "case", !.saw = NewCall]
      <4>1. q.saw = NewCall
        BY <1>0 DEF HookRun
      <4>2. hook' = [hook EXCEPT ![w] = q]
        BY <3>2 DEF HookClose
      <4> HIDE DEF q
      <4> QED BY <1>0, <1>s, <4>1, <4>2 DEF Loaded
    <3>3. CASE \E o \in Outcome : HookCase(w, o)
      BY <1>0, <1>n, <1>s, <3>3 DEF HookCase, Loaded
    <3> QED BY <1>5, <3>1, <3>2, <3>3
  <2> QED BY <1>s, <2>1, <2>2, <2>3 DEF Loaded
<1>6. CASE CloseStale
  BY <1>6, <1>s DEF CloseStale, handlerVars, Loaded
<1>7. CASE Crash
  BY <1>7, <1>n, <1>s DEF Crash, Loaded
<1>8. CASE UNCHANGED vars
  BY <1>8, <1>s DEF vars, Loaded
<1> QED BY <1>1, <1>2, <1>3, <1>4, <1>5, <1>6, <1>7, <1>8 DEF Next, EndNext

-----------------------------------------------------------------------------
(***************************************************************************)
(* Interruptions.  A state to return to is kept only by a dialog that is   *)
(* interrupted or closed, and is a state that was interrupted.             *)
(***************************************************************************)
Returns(c) ==
  c.returnTo # None => /\ c.state \in {"INTERRUPTION", "CLOSE"}
                       /\ c.returnTo \notin {"INTERRUPTION", "CLOSE"}

\* What the reducer does with an interrupted or a closed dialog, and the state
\* a step ends in.
LEMMA StepMoves ==
  ASSUME NEW c \in Call, NEW u \in Utterance
  PROVE  /\ ReducerState(c, u) = "CLOSE" => NextState(c, u) = "CLOSE"
         /\ ReducerState(c, u) = "INTERRUPTION" =>
              /\ NextState(c, u) \in {"INTERRUPTION", "CLOSE"}
              /\ Reduced(c, u).does = "nothing"
         /\ ReducerState(c, u) # "INTERRUPTION" => NextState(c, u) # "INTERRUPTION"
<1> DEFINE s == ReducerState(c, u)
           slots == SlotsAfter(c.slots, u)
<1>1. s = "CLOSE" => NextState(c, u) = "CLOSE"
  BY DEF NextState, Reduced, reduceCallState, Goto
<1>2. s = "INTERRUPTION" => /\ NextState(c, u) \in {"INTERRUPTION", "CLOSE"}
                            /\ Reduced(c, u).does = "nothing"
  BY DEF NextState, Reduced, reduceCallState, Goto
<1>3. ASSUME s # "INTERRUPTION" PROVE Reduced(c, u).next # "INTERRUPTION"
  <2>1. ReduceVerify(u.action, slots).next # "INTERRUPTION"
    BY DEF ReduceVerify, Goto
  <2>2. ReduceDispute(slots).next # "INTERRUPTION"
    BY DEF ReduceDispute, Goto
  <2>3. ReduceAgreement(s, u.action, slots).next # "INTERRUPTION"
    <3> DEFINE p == ProgressState(slots)
    <3>1. p # "INTERRUPTION"
      BY DEF ProgressState
    <3> HIDE DEF p
    <3> QED BY <3>1 DEF ReduceAgreement, GoDoing, Goto, p
  <2> HIDE DEF slots, s
  <2> QED BY <1>3, <2>1, <2>2, <2>3 DEF Reduced, reduceCallState, Goto, slots, s
<1> QED BY <1>1, <1>2, <1>3 DEF NextState

LEMMA StepReturns ==
  ASSUME NEW c \in Call, NEW u \in Utterance, Returns(c)
  PROVE  Returns(StepResult(c, u))
<1>1. /\ StepResult(c, u).state = NextState(c, u)
      /\ StepResult(c, u).returnTo =
           IF NextState(c, u) = "CLOSE" THEN None ELSE ReturnTo(c, u)
  BY DEF StepResult
<1>2. CASE Resumes(c, u)
  <2>1. ReturnTo(c, u) = None
    BY <1>2 DEF ReturnTo, Resumes, Interrupts
  <2> QED BY <1>1, <2>1 DEF Returns
<1>3. CASE ~Resumes(c, u) /\ Interrupts(c, u)
  <2>1. ReducerState(c, u) = "INTERRUPTION" /\ ReturnTo(c, u) = c.state
    BY <1>3 DEF ReducerState, ReturnTo
  <2>2. c.state \notin {"INTERRUPTION", "CLOSE"}
    BY <1>3 DEF Interrupts
  <2> QED BY <1>1, <2>1, <2>2, StepMoves DEF Returns
<1>4. CASE ~Resumes(c, u) /\ ~Interrupts(c, u)
  <2>1. ReducerState(c, u) = c.state /\ ReturnTo(c, u) = c.returnTo
    BY <1>4 DEF ReducerState, ReturnTo
  <2> QED BY <1>1, <2>1, StepMoves DEF Returns
<1> QED BY <1>2, <1>3, <1>4

\* A tool answers about a dialog it took in a state it accepts, so that nothing
\* was interrupted in it.
LEMMA AnswerReturns ==
  ASSUME NEW c \in Call, Returns(c), NEW s,
         c.state \in AgreementStates \cup DisputeStates \/ s = "CLOSE"
  PROVE  Returns(Answer(c, s)) /\ Answer(c, s).returnTo = c.returnTo /\ Answer(c, s).state = s
  BY DEF Returns, Answer, Call, AgreementStates, DisputeStates

LEMMA NewReturns ==
  ASSUME NEW c
  PROVE  /\ Returns(NewCall) /\ NewCall \in Call
         /\ Returns(RegisteredCall(c))
         /\ Returns(IdleStep.saw) /\ Returns(IdleTool.saw)
         /\ Returns(IdleFiling.saw) /\ Returns(IdleHook.saw)
         /\ Returns(IdleRegister.saw)
  BY NewCallType DEF Returns, NewCall, RegisteredCall, IdleStep, IdleTool, IdleFiling, IdleHook, IdleRegister

ReturnsSet == {c \in Call : Returns(c)}

\* The dialogs loaded are dialogs.
LEMMA LoadedCall ==
  ASSUME TypeOK
  PROVE  /\ Loaded(Call)
         /\ \A p \in Stepper : step[p].saw \in Call
         /\ \A t \in AgreementTool : tool[t].saw \in Call
         /\ \A d \in DisputeTool : filing[d].saw \in Call
  BY DEF TypeOK, Loaded

LEMMA ReturnsNext ==
  ASSUME TypeOK, TypeOK', IdentityInv, Loaded(ReturnsSet), [Next]_vars
  PROVE  Loaded(ReturnsSet)'
<1> DEFINE S == ReturnsSet
<1>1. NewCall \in S
  BY NewReturns DEF ReturnsSet
<1>2. \A p \in Stepper, u \in Utterance :
        StepWrite(p, u) => StepResult(step[p].saw, u) \in S
  BY StepReturns, StepResultType DEF Loaded, ReturnsSet
<1>3. RegisterWrite => RegisteredCall(register.saw) \in S
  BY NewReturns DEF RegisterWrite, ReturnsSet, TypeOK
<1>4. ASSUME NEW t \in AgreementTool, Working(t)
      PROVE  /\ Answer(tool[t].saw, "POST_DELIVERY_CONFIRM") \in S
             /\ Answer(tool[t].saw, "CONFIRM_AGREEMENT") \in S
  <2>1. tool[t].saw \in S /\ tool[t].saw.state \in AgreementStates
    BY <1>4 DEF Loaded, IdentityInv, Working, ToolAllowed
  <2> QED BY <2>1, AnswerReturns, AnswerType DEF ReturnsSet, CallState
<1>5. ASSUME NEW d \in DisputeTool, Filing(d)
      PROVE  Answer(filing[d].saw, "POST_DISPUTE_CONFIRM") \in S
  <2>1. filing[d].saw \in S /\ filing[d].saw.state \in DisputeStates
    BY <1>5 DEF Loaded, IdentityInv, Filing
  <2> QED BY <2>1, AnswerReturns, AnswerType DEF ReturnsSet, CallState
<1>6. \A c \in S : Answer(c, "CLOSE") \in S
  BY AnswerReturns, AnswerType DEF ReturnsSet, CallState
<1> HIDE DEF S
<1>7. Loaded(S)
  BY DEF S
<1>8. /\ call' \in S
      /\ register'.saw \in S
      /\ \A p \in Stepper : step'[p].saw \in S
      /\ \A t \in AgreementTool : tool'[t].saw \in S
      /\ \A d \in DisputeTool : filing'[d].saw \in S
      /\ \A w \in Webhook : hook'[w].saw \in S
  BY <1>1, <1>2, <1>3, <1>4, <1>5, <1>6, <1>7, DialogsStep
<1> QED BY <1>8 DEF S, Loaded

\* Every dialog, stored or loaded, returns to a state that was interrupted.
LEMMA DialogsReturn == Spec => []Loaded(ReturnsSet)
<1>1. Init => Loaded(ReturnsSet)
  <2>1. NewCall \in ReturnsSet
    BY NewReturns DEF ReturnsSet
  <2> QED BY <2>1 DEF Init, Loaded, IdleStep, IdleTool, IdleFiling, IdleHook, IdleRegister
<1>2. TypeOK /\ TypeOK' /\ IdentityInv /\ Loaded(ReturnsSet) /\ [Next]_vars
        => Loaded(ReturnsSet)'
  BY ReturnsNext
<1> QED BY <1>1, <1>2, DialogTypeCorrect, IdentityKept, PTL DEF Spec

\* What an orchestrator step makes of a dialog that is in a dispute.
LEMMA StepDisputes ==
  ASSUME NEW c \in Call, NEW u \in Utterance, Returns(c), Disputing(c)
  PROVE  Disputing(StepResult(c, u)) \/ StepResult(c, u).state = "CLOSE"
<1> DEFINE s == ReducerState(c, u)
<1>1. /\ StepResult(c, u).state = NextState(c, u)
      /\ StepResult(c, u).returnTo =
           IF NextState(c, u) = "CLOSE" THEN None ELSE ReturnTo(c, u)
  BY DEF StepResult
<1>2. ASSUME s \in DisputeStates PROVE NextState(c, u) \in DisputeStates \cup {"CLOSE"}
  <2>1. ReduceDispute(SlotsAfter(c.slots, u)).next \in DisputeStates
    BY DEF ReduceDispute, Goto, DisputeStates
  <2>2. DisputeRequested(s, u.action, SlotsAfter(c.slots, u))
    BY <1>2 DEF DisputeRequested
  <2>3. Reduced(c, u).next \in DisputeStates \cup {"CLOSE", "VERIFY_IDENTITY"}
    BY <1>2, <2>1, <2>2 DEF Reduced, reduceCallState, Goto, DisputeStates, PostToolStates
  <2>4. ~isAllowedTransition(s, "VERIFY_IDENTITY")
    BY <1>2 DEF isAllowedTransition, Transitions, DisputeStates
  <2> QED BY <1>2, <2>3, <2>4 DEF NextState
<1>3. CASE Resumes(c, u)
  <2>1. s = c.returnTo /\ s \in DisputeStates
    BY <1>3 DEF ReducerState, Resumes, Interrupts, Disputing, DisputeStates
  <2> QED BY <1>1, <1>2, <2>1 DEF Disputing
<1>4. CASE ~Resumes(c, u) /\ Interrupts(c, u)
  <2>1. s = "INTERRUPTION" /\ ReturnTo(c, u) = c.state
    BY <1>4 DEF ReducerState, ReturnTo
  <2>2. c.state \in DisputeStates
    BY <1>4, NoneAssumption DEF Interrupts, Disputing, DisputeStates, CallState
  <2> QED BY <1>1, <2>1, <2>2, StepMoves DEF Disputing
<1>5. CASE ~Resumes(c, u) /\ ~Interrupts(c, u)
  <2>1. s = c.state /\ ReturnTo(c, u) = c.returnTo
    BY <1>5 DEF ReducerState, ReturnTo
  <2>2. CASE c.state \in DisputeStates
    BY <1>1, <1>2, <2>1, <2>2 DEF Disputing
  <2>3. CASE c.returnTo \in DisputeStates
    <3>1. c.state \in {"INTERRUPTION", "CLOSE"}
      BY <2>3, NoneAssumption DEF Returns, DisputeStates, CallState
    <3> QED BY <1>1, <2>1, <2>3, <3>1, StepMoves DEF Disputing
  <2> QED BY <2>2, <2>3 DEF Disputing
<1> QED BY <1>3, <1>4, <1>5

\* A step taken in a dispute stays in it or ends the call, interrupted or not,
\* with any number of requests and with repeated webhooks.
THEOREM DisputeStays == Spec => DisputeSticks
<1>1. ASSUME TypeOK, Loaded(ReturnsSet), Next, NEW p \in Stepper,
             step[p].busy, step'[p] # step[p], call' # call, Disputing(step[p].saw)
      PROVE  Disputing(call') \/ call'.state = "CLOSE"
  <2>1. step' # step /\ call' # call
    BY <1>1
  <2>2. PICK q \in Stepper, u \in Utterance : StepWrite(q, u)
    BY <1>1, <2>1 DEF Next, StepNext, StepRead, ToolNext, ToolRead, ToolReject, ToolFind, ToolRepeat,
       ToolInvalid, ToolCreate, ToolRecord, ToolAnswer, ToolCrash, FilingNext, FilingRead,
       FilingReject, FilingFind, FilingCreate, FilingAnswer, RegisterNext, RegisterRead,
       RegisterWrite, RegisterFail, LegRead, LegWrite, EndNext, HookRead, HookClose, HookCase,
       CloseStale, Crash, dialogVars, handlerVars
  <2>3. p = q /\ call' = StepResult(step[p].saw, u)
    BY <1>1, <2>2 DEF StepWrite, TypeOK
  <2>4. step[p].saw \in Call /\ Returns(step[p].saw)
    BY <1>1 DEF Loaded, ReturnsSet
  <2> QED BY <1>1, <2>3, <2>4, StepDisputes
<1>2. TypeOK /\ Loaded(ReturnsSet) /\ [Next]_vars =>
        [\A p \in Stepper :
           (step[p].busy /\ step'[p] # step[p] /\ call' # call /\ Disputing(step[p].saw))
             => Disputing(call') \/ call'.state = "CLOSE"]_vars
  BY <1>1
<1> QED BY <1>2, DialogTypeCorrect, DialogsReturn, PTL DEF Spec, DisputeSticks

-----------------------------------------------------------------------------
(***************************************************************************)
(* While Twilio asks for the voice URL once, the call is registered before *)
(* anything is said: what registering writes back is a new dialog.  (With  *)
(* retries a webhook overwrites the dialog of a call under way, and the    *)
(* two properties below fail.)                                             *)
(***************************************************************************)
FirstInv ==
  /\ status = "queued" =>
       /\ call = NewCall
       /\ \A p \in Stepper : ~step[p].busy
       /\ \A t \in AgreementTool : tool[t].phase = "idle"
       /\ \A d \in DisputeTool : filing[d].phase = "idle"
       /\ \A w \in Webhook : hook[w].phase = "idle"
  /\ register.saw = NewCall /\ register.sawStatus = "queued"

LEMMA FirstNext ==
  ASSUME ~TwilioRetries, TypeOK, FirstInv, [Next]_vars
  PROVE  FirstInv'
<1> USE DEF dialogVars, recordVars
<1>0. /\ ~IdleStep.busy /\ IdleTool.phase = "idle" /\ IdleFiling.phase = "idle"
      /\ IdleHook.phase = "idle" /\ IdleStep.saw = NewCall
      /\ ~IdleRegister.busy /\ IdleRegister.saw = NewCall /\ IdleRegister.sawStatus = "queued"
  BY DEF IdleStep, IdleTool, IdleFiling, IdleHook, IdleRegister
\* Once answered, never queued again.
<1>1. status # "queued" => status' # "queued"
  BY DEF Next, vars, StepNext, StepRead, StepWrite, ToolNext, ToolRead, ToolReject, ToolFind,
     ToolRepeat, ToolInvalid, ToolCreate, ToolRecord, ToolAnswer, ToolCrash, FilingNext, FilingRead,
     FilingReject, FilingFind, FilingCreate, FilingAnswer, RegisterNext, RegisterRead,
     RegisterWrite, RegisterFail, LegRead, LegWrite, TypeOK, EndNext, HookRead, HookClose,
     HookCase, CloseStale, Crash, Changed
<1>2. register'.saw = NewCall /\ register'.sawStatus = "queued"
  <2>1. CASE RegisterRead
    BY <2>1 DEF RegisterRead, FirstInv
  <2>2. CASE RegisterWrite \/ RegisterFail \/ Crash
    BY <1>0, <2>2 DEF RegisterWrite, RegisterFail, Crash
  <2>3. CASE ~(RegisterRead \/ RegisterWrite \/ RegisterFail \/ Crash)
    <3>1. register' = register
      BY <2>3 DEF Next, vars, StepNext, StepRead, StepWrite, ToolNext, ToolRead, ToolReject,
         ToolFind, ToolRepeat, ToolInvalid, ToolCreate, ToolRecord, ToolAnswer, ToolCrash,
         FilingNext, FilingRead, FilingReject, FilingFind, FilingCreate, FilingAnswer,
         RegisterNext, LegRead, LegWrite, EndNext, HookRead, HookClose, HookCase, CloseStale,
         handlerVars
    <3> QED BY <3>1 DEF FirstInv
  <2> QED BY <2>1, <2>2, <2>3
<1>3. ASSUME status = "queued"
      PROVE  FirstInv'
  <2>1. ~StepNext
    BY <1>3 DEF StepNext, StepRead, StepWrite, Answered, FirstInv
  <2>2. ~ToolNext
    BY <1>3 DEF ToolNext, ToolRead, ToolReject, ToolFind, ToolRepeat, ToolInvalid, ToolCreate,
       ToolRecord, ToolAnswer, ToolCrash, Answered, FirstInv
  <2>3. ~FilingNext
    BY <1>3 DEF FilingNext, FilingRead, FilingReject, FilingFind, FilingCreate, FilingAnswer,
       Answered, FirstInv
  <2>4. ~\E w \in Webhook : HookRead(w) \/ HookClose(w) \/ \E o \in Outcome : HookCase(w, o)
    BY <1>3 DEF HookRead, HookClose, HookCase, Answered, FirstInv
  <2>5. CASE RegisterNext
    BY <1>2, <1>3, <2>5 DEF FirstInv, RegisterNext, RegisterRead, RegisterWrite, RegisterFail,
       LegRead, LegWrite, TypeOK, Changed
  <2>6. CASE CloseStale
    BY <1>2, <2>6 DEF CloseStale, FirstInv
  <2>7. CASE Crash
    BY <1>0, <1>2, <1>3, <2>7 DEF Crash, FirstInv
  <2>8. CASE UNCHANGED vars
    BY <1>2, <1>3, <2>8 DEF vars, FirstInv
  <2> QED BY <2>1, <2>2, <2>3, <2>4, <2>5, <2>6, <2>7, <2>8 DEF Next, EndNext
<1> QED BY <1>1, <1>2, <1>3 DEF FirstInv

LEMMA RegisteredNew == RegisteredCall(NewCall) = NewCall
  BY DEF RegisteredCall, NewCall

LEMMA CallRegistersOnce ==
  ASSUME ~TwilioRetries
  PROVE  Spec => []FirstInv
<1>1. Init => FirstInv
  BY DEF Init, FirstInv, IdleStep, IdleTool, IdleFiling, IdleHook, IdleRegister
<1>2. TypeOK /\ FirstInv /\ [Next]_vars => FirstInv'
  BY FirstNext
<1> QED BY <1>1, <1>2, DialogTypeCorrect, PTL DEF Spec

-----------------------------------------------------------------------------
(***************************************************************************)
(* An interrupted dialog knows the state to go back to.                    *)
(***************************************************************************)
ResumesSet ==
  {c \in Call : Returns(c) /\ (c.state = "INTERRUPTION" => c.returnTo # None)}

LEMMA ResumesNext ==
  ASSUME TypeOK, IdentityInv, FirstInv, Loaded(ResumesSet), [Next]_vars
  PROVE  Loaded(ResumesSet)'
<1> DEFINE S == ResumesSet
<1>1. NewCall \in S
  BY NewReturns DEF ResumesSet, NewCall
<1>2. ASSUME NEW c \in S, NEW u \in Utterance PROVE StepResult(c, u) \in S
  <2>1. c \in Call /\ Returns(c) /\ (c.state = "INTERRUPTION" => c.returnTo # None)
    BY DEF ResumesSet
  <2>2. StepResult(c, u) \in Call /\ Returns(StepResult(c, u))
    BY <2>1, StepReturns, StepResultType
  <2>3. ASSUME NextState(c, u) = "INTERRUPTION" PROVE ReturnTo(c, u) # None
    <3>1. ReducerState(c, u) = "INTERRUPTION"
      BY <2>1, <2>3, StepMoves
    <3>2. ~Resumes(c, u)
      BY <2>1, <3>1 DEF ReducerState, Resumes, Interrupts, Returns
    <3>3. CASE Interrupts(c, u)
      BY <2>1, <3>2, <3>3, NoneAssumption DEF ReturnTo, Call
    <3>4. CASE ~Interrupts(c, u)
      BY <2>1, <3>1, <3>2, <3>4 DEF ReturnTo, ReducerState
    <3> QED BY <3>3, <3>4
  <2> QED BY <2>2, <2>3 DEF ResumesSet, StepResult
<1>3. \A p \in Stepper, u \in Utterance :
        StepWrite(p, u) => StepResult(step[p].saw, u) \in S
  BY <1>2 DEF Loaded
<1>4. RegisterWrite => RegisteredCall(register.saw) \in S
  BY <1>1, RegisteredNew DEF FirstInv
<1>5. ASSUME NEW t \in AgreementTool, Working(t)
      PROVE  /\ Answer(tool[t].saw, "POST_DELIVERY_CONFIRM") \in S
             /\ Answer(tool[t].saw, "CONFIRM_AGREEMENT") \in S
  <2>1. tool[t].saw \in S /\ tool[t].saw.state \in AgreementStates
    BY <1>5 DEF Loaded, IdentityInv, Working, ToolAllowed
  <2> QED BY <2>1, AnswerReturns, AnswerType DEF ResumesSet, CallState
<1>6. ASSUME NEW d \in DisputeTool, Filing(d)
      PROVE  Answer(filing[d].saw, "POST_DISPUTE_CONFIRM") \in S
  <2>1. filing[d].saw \in S /\ filing[d].saw.state \in DisputeStates
    BY <1>6 DEF Loaded, IdentityInv, Filing
  <2> QED BY <2>1, AnswerReturns, AnswerType DEF ResumesSet, CallState
<1>7. \A c \in S : Answer(c, "CLOSE") \in S
  BY AnswerReturns, AnswerType DEF ResumesSet, CallState
<1> HIDE DEF S
<1>8. Loaded(S)
  BY DEF S
<1>9. /\ call' \in S
      /\ register'.saw \in S
      /\ \A p \in Stepper : step'[p].saw \in S
      /\ \A t \in AgreementTool : tool'[t].saw \in S
      /\ \A d \in DisputeTool : filing'[d].saw \in S
      /\ \A w \in Webhook : hook'[w].saw \in S
  BY <1>1, <1>3, <1>4, <1>5, <1>6, <1>7, <1>8, DialogsStep
<1> QED BY <1>9 DEF S, Loaded

\* An interrupted dialog knows the state to go back to, as long as Twilio asks
\* for the voice URL once.
THEOREM InterruptionResumes ==
  ASSUME ~TwilioRetries
  PROVE  Spec => []InterruptionCanResume
<1>1. Init => Loaded(ResumesSet)
  <2>1. NewCall \in ResumesSet
    BY NewReturns DEF ResumesSet, NewCall
  <2> QED BY <2>1 DEF Init, Loaded, IdleStep, IdleTool, IdleFiling, IdleHook, IdleRegister
<1>2. TypeOK /\ IdentityInv /\ FirstInv /\ Loaded(ResumesSet) /\ [Next]_vars
        => Loaded(ResumesSet)'
  BY ResumesNext
<1>3. Loaded(ResumesSet) => InterruptionCanResume
  BY DEF Loaded, ResumesSet, InterruptionCanResume
<1> QED BY <1>1, <1>2, <1>3, DialogTypeCorrect, IdentityKept, CallRegistersOnce, PTL DEF Spec

-----------------------------------------------------------------------------
(***************************************************************************)
(* The terms of an agreement were read back.  Of every dialog: what it     *)
(* would commit and what it committed was read back, and in the states of  *)
(* an agreement (or interrupted in one) there is something to commit.  Of  *)
(* every agreement request: the terms it works with were read back.        *)
(***************************************************************************)
TermsSet(read) ==
  {c \in Call : /\ Returns(c)
                /\ c.snapshot \in read \cup {NoTerms}
                /\ c.committed \in read \cup {NoTerms}
                /\ c.state \in AgreementStates \/ c.returnTo \in AgreementStates
                     => c.snapshot # NoTerms}

TermsInv ==
  /\ TermsReadBack
  /\ Loaded(TermsSet(readBack))
  /\ \A t \in AgreementTool : Working(t) => tool[t].terms \in readBack

\* A step reads terms back, commits those read before, or leaves them.
LEMMA StepTerms ==
  ASSUME NEW read, NEW c \in TermsSet(read), NEW u \in Utterance, NEW more,
         more = IF Reduced(c, u).does = "readback" THEN read \cup {Draft(NextSlots(c, u))}
                                                   ELSE read
  PROVE  StepResult(c, u) \in TermsSet(more)
<1> DEFINE s     == ReducerState(c, u)
           slots == SlotsAfter(c.slots, u)
           does  == Reduced(c, u).does
           next  == StepResult(c, u)
<1>1. /\ c \in Call /\ Returns(c)
      /\ c.snapshot \in read \cup {NoTerms}
      /\ c.committed \in read \cup {NoTerms}
      /\ c.state \in AgreementStates \/ c.returnTo \in AgreementStates => c.snapshot # NoTerms
  BY DEF TermsSet
<1>2. next \in Call /\ Returns(next)
  BY <1>1, StepReturns, StepResultType
<1>3. /\ next.state = NextState(c, u)
      /\ next.returnTo = IF NextState(c, u) = "CLOSE" THEN None ELSE ReturnTo(c, u)
      /\ next.snapshot = NextSnapshot(c, u)
      /\ next.committed = NextCommitted(c, u)
  BY DEF StepResult
\* The reducer's ways, where it does anything.
<1>4. /\ does \in {"nothing", "readback", "commit", "reset"}
      /\ does = "readback" => slots.plan # None
      /\ does = "commit" => s \in AgreementStates
      /\ does = "reset" => s = "CONFIRM_AGREEMENT" /\ Reduced(c, u).next = "PLAN_SELECTION"
      /\ does = "nothing" /\ Reduced(c, u).next \in AgreementStates => s \in AgreementStates
  <2> DEFINE p == ProgressState(slots)
             red == ReduceAgreement(s, u.action, slots)
  <2>1. p \in AgreementStates => slots.plan # None
    BY DEF ProgressState, AgreementStates
  <2>2. /\ red.does \in {"nothing", "readback", "commit", "reset"}
        /\ red.does = "readback" => slots.plan # None
        /\ red.does = "commit" => s \in AgreementStates
        /\ red.does = "reset" => s = "CONFIRM_AGREEMENT" /\ red.next = "PLAN_SELECTION"
        /\ red.does = "nothing" => red.next \notin AgreementStates
    <3> HIDE DEF p
    <3> QED BY <2>1 DEF ReduceAgreement, Rejects, GoDoing, Goto, AgreementStates, p
  <2>3. /\ ReduceVerify(u.action, slots).does = "nothing"
        /\ ReduceVerify(u.action, slots).next \notin AgreementStates
        /\ ReduceDispute(slots).does = "nothing"
        /\ ReduceDispute(slots).next \notin AgreementStates
    BY DEF ReduceVerify, ReduceDispute, Goto, AgreementStates
  <2> HIDE DEF red, slots, s
  <2> QED BY <2>2, <2>3 DEF Reduced, reduceCallState, Goto, AgreementStates, red, slots, s
<1>5. ASSUME does = "reset" PROVE NextState(c, u) = "PLAN_SELECTION" /\ ReturnTo(c, u) = None
  <2>1. NextState(c, u) = "PLAN_SELECTION"
    BY <1>4, <1>5 DEF NextState, isAllowedTransition, Transitions, FromSelection
  <2> QED BY <1>2, <1>3, <2>1 DEF Returns
\* The state the reducer starts from belongs to the dialog.
<1>6. s \in AgreementStates => c.state \in AgreementStates \/ c.returnTo \in AgreementStates
  BY DEF ReducerState, Resumes, Interrupts, AgreementStates
<1>7. ReturnTo(c, u) \in AgreementStates =>
        c.state \in AgreementStates \/ c.returnTo \in AgreementStates
  BY NoneAssumption DEF ReturnTo, Resumes, Interrupts, AgreementStates, CallState
<1>8. does # "reset" => NextSlots(c, u) = slots
  BY DEF NextSlots
<1>9. does = "readback" => Draft(NextSlots(c, u)) # NoTerms /\ Draft(NextSlots(c, u)) \in more
  BY <1>4, <1>8 DEF Draft, NoTerms
<1>10. read \subseteq more
  OBVIOUS
<1>11. next.snapshot \in more \cup {NoTerms}
  BY <1>1, <1>3, <1>9, <1>10 DEF NextSnapshot
<1>12. does = "commit" => NextSnapshot(c, u) = c.snapshot /\ c.snapshot # NoTerms
  BY <1>1, <1>4, <1>6 DEF NextSnapshot
<1>13. next.committed \in more \cup {NoTerms}
  BY <1>1, <1>3, <1>10, <1>12 DEF NextCommitted
<1>14. ASSUME next.state \in AgreementStates \/ next.returnTo \in AgreementStates
       PROVE  next.snapshot # NoTerms
  <2>1. does # "reset"
    BY <1>3, <1>5, <1>14, NoneAssumption DEF AgreementStates, CallState
  <2>2. CASE does = "readback"
    BY <1>3, <1>9, <2>2 DEF NextSnapshot
  <2>3. CASE does = "commit"
    BY <1>3, <1>12, <2>3
  <2>4. CASE does = "nothing"
    <3>1. s \in AgreementStates \/ ReturnTo(c, u) \in AgreementStates
      BY <1>3, <1>4, <1>14, <2>4, NoneAssumption DEF NextState, AgreementStates, CallState
    <3>2. c.snapshot # NoTerms
      BY <1>1, <1>6, <1>7, <3>1
    <3> QED BY <1>3, <2>4, <3>2 DEF NextSnapshot
  <2> QED BY <1>4, <2>1, <2>2, <2>3, <2>4
<1> HIDE DEF next
<1>15. next \in TermsSet(more)
  BY <1>2, <1>11, <1>13, <1>14 DEF TermsSet
<1> QED BY <1>15 DEF next

LEMMA TermsNext ==
  ASSUME TypeOK, IdentityInv, FirstInv, TermsInv, [Next]_vars
  PROVE  TermsInv'
<1> DEFINE S == TermsSet(readBack)
           T == TermsSet(readBack')
<1>1. NewCall \in T /\ NewCall \in S
  BY NewReturns, NoneAssumption, SMTT(30) DEF TermsSet, NewCall, AgreementStates, CallState
<1>2. readBack \subseteq readBack'
  BY DEF Next, vars, dialogVars, StepNext, StepRead, StepWrite, ToolNext, ToolRead, ToolReject,
     ToolFind, ToolRepeat, ToolInvalid, ToolCreate, ToolRecord, ToolAnswer, ToolCrash, FilingNext,
     FilingRead, FilingReject, FilingFind, FilingCreate, FilingAnswer, RegisterNext, RegisterRead,
     RegisterWrite, RegisterFail, LegRead, LegWrite, EndNext, HookRead, HookClose, HookCase,
     CloseStale, Crash
<1>3. S \subseteq T
  BY <1>2 DEF TermsSet
<1>4. \A p \in Stepper, u \in Utterance :
        StepWrite(p, u) => StepResult(step[p].saw, u) \in T
  BY StepTerms DEF StepWrite, TermsInv, Loaded
<1>5. RegisterWrite => RegisteredCall(register.saw) \in T
  BY <1>1, RegisteredNew DEF FirstInv
<1>6. ASSUME NEW c \in S, NEW x \in CallState,
             c.state \in AgreementStates \/ (c.state \in DisputeStates /\ x \notin AgreementStates)
               \/ x = "CLOSE"
      PROVE  Answer(c, x) \in S
  <2>1. c \in Call /\ Returns(c)
    BY DEF TermsSet
  <2>2. /\ Returns(Answer(c, x)) /\ Answer(c, x).returnTo = c.returnTo /\ Answer(c, x).state = x
        /\ Answer(c, x) \in Call
    BY <1>6, <2>1, AnswerReturns, AnswerType
  <2>3. Answer(c, x).snapshot = c.snapshot /\ Answer(c, x).committed = c.committed
    BY <2>1 DEF Answer, Call
  <2> QED BY <1>6, <2>2, <2>3 DEF TermsSet, AgreementStates
<1>7. ASSUME NEW t \in AgreementTool, Working(t)
      PROVE  /\ Answer(tool[t].saw, "POST_DELIVERY_CONFIRM") \in T
             /\ Answer(tool[t].saw, "CONFIRM_AGREEMENT") \in T
  <2>1. tool[t].saw \in S /\ tool[t].saw.state \in AgreementStates
    BY <1>7 DEF TermsInv, Loaded, IdentityInv, Working, ToolAllowed
  <2> QED BY <1>3, <1>6, <2>1 DEF CallState
<1>8. ASSUME NEW d \in DisputeTool, Filing(d)
      PROVE  Answer(filing[d].saw, "POST_DISPUTE_CONFIRM") \in T
  <2>1. filing[d].saw \in S /\ filing[d].saw.state \in DisputeStates
    BY <1>8 DEF TermsInv, Loaded, IdentityInv, Filing
  <2> QED BY <1>3, <1>6, <2>1 DEF CallState, AgreementStates
<1>9. \A c \in S : Answer(c, "CLOSE") \in T
  BY <1>3, <1>6 DEF CallState
<1> HIDE DEF S, T
<1>10. Loaded(S)
  BY DEF S, TermsInv
<1>11. /\ call' \in T
       /\ register'.saw \in T
       /\ \A p \in Stepper : step'[p].saw \in T
       /\ \A t \in AgreementTool : tool'[t].saw \in T
       /\ \A d \in DisputeTool : filing'[d].saw \in T
       /\ \A w \in Webhook : hook'[w].saw \in T
  BY <1>1, <1>3, <1>4, <1>5, <1>7, <1>8, <1>9, <1>10, DialogsStep
<1>12. Loaded(TermsSet(readBack))'
  BY <1>11 DEF T, Loaded, TermsSet
<1>13. /\ \A t \in AgreementTool : Working(t)' => tool'[t].terms \in readBack'
       /\ agreement' = agreement \/ \E x \in readBack : agreement' = Append(agreement, x)
  <2>0. tool \in [AgreementTool -> ToolRun] /\ agreement \in Seq(Terms)
    BY DEF TypeOK, ToolRun
  <2>1. CASE ToolNext
    <3> PICK t \in AgreementTool :
          \/ ToolRead(t) \/ ToolReject(t) \/ ToolFind(t) \/ ToolRepeat(t)
          \/ ToolInvalid(t) \/ ToolCreate(t) \/ ToolRecord(t) \/ ToolAnswer(t)
          \/ ToolCrash(t)
      BY <2>1 DEF ToolNext
    <3>1. \A x \in AgreementTool : x # t => tool'[x] = tool[x]
      BY <2>0 DEF ToolRead, ToolReject, ToolFind, ToolRepeat, ToolInvalid, ToolCreate, ToolRecord,
                  ToolAnswer, ToolCrash
    <3>2. tool'[t].phase \notin {"idle", "reject"} => tool'[t].terms \in readBack
      <4>1. CASE ToolRead(t)
        <5> PICK payload \in [plan : Plan, amount : Amount, channel : Channel] :
              tool' = [tool EXCEPT ![t] =
                [phase |-> IF ToolAllowed(call.state) THEN "find" ELSE "reject",
                 saw   |-> call,
                 terms |-> IF ToolAllowed(call.state) THEN EffectiveTerms(call, payload)
                                                      ELSE NoTerms]]
          BY <4>1 DEF ToolRead
        <5>1. call \in S
          BY <1>10 DEF Loaded
        <5>2. ToolAllowed(call.state) => EffectiveTerms(call, payload) \in readBack
          BY <5>1 DEF S, TermsSet, ToolAllowed, EffectiveTerms
        <5> QED BY <2>0, <5>2
      <4>2. CASE ToolReject(t) \/ ToolRepeat(t) \/ ToolInvalid(t) \/ ToolAnswer(t) \/ ToolCrash(t)
        <5>1. tool' = [tool EXCEPT ![t] = IdleTool]
          BY <4>2 DEF ToolReject, ToolRepeat, ToolInvalid, ToolAnswer, ToolCrash
        <5> QED BY <2>0, <5>1 DEF IdleTool
      <4>3. CASE ToolFind(t) \/ ToolCreate(t) \/ ToolRecord(t)
        <5>1. tool[t].terms \in readBack
          BY <4>3 DEF ToolFind, ToolCreate, ToolRecord, TermsInv, Working
        <5>2. tool'[t].terms = tool[t].terms
          BY <2>0, <4>3 DEF ToolFind, ToolCreate, ToolRecord, ToolRun
        <5> QED BY <5>1, <5>2
      <4> QED BY <4>1, <4>2, <4>3
    <3>3. agreement' = agreement \/ \E x \in readBack : agreement' = Append(agreement, x)
      BY DEF recordVars, ToolRead, ToolReject, ToolFind, ToolRepeat, ToolInvalid, ToolCreate,
             ToolRecord, ToolAnswer, ToolCrash, TermsInv, Working
    <3> QED BY <1>2, <3>1, <3>2, <3>3 DEF TermsInv, Working
  <2>2. CASE Crash
    BY <2>0, <2>2 DEF Crash, dialogVars, recordVars, IdleTool, Working
  <2>3. CASE ~ToolNext /\ ~Crash
    <3>1. tool' = tool /\ agreement' = agreement
      BY <2>3 DEF Next, vars, recordVars, handlerVars, StepNext, StepRead, StepWrite, FilingNext,
         FilingRead, FilingReject, FilingFind, FilingCreate, FilingAnswer, RegisterNext,
         RegisterRead, RegisterWrite, RegisterFail, LegRead, LegWrite, EndNext, HookRead,
         HookClose, HookCase, CloseStale
    <3> QED BY <1>2, <3>1 DEF TermsInv, Working
  <2> QED BY <2>1, <2>2, <2>3
<1>14. TermsReadBack'
  <2>1. agreement \in Seq(Terms) /\ TermsReadBack
    BY DEF TypeOK, TermsInv
  <2>2. CASE agreement' = agreement
    BY <1>2, <2>1, <2>2 DEF TermsReadBack
  <2>3. ASSUME NEW x \in readBack, agreement' = Append(agreement, x) PROVE TermsReadBack'
    <3>1. \A i \in DOMAIN agreement' :
            agreement'[i] = x \/ (i \in DOMAIN agreement /\ agreement'[i] = agreement[i])
      BY <2>1, <2>3
    <3> QED BY <1>2, <2>1, <3>1 DEF TermsReadBack
  <2> QED BY <1>13, <2>2, <2>3
<1> QED BY <1>12, <1>13, <1>14 DEF TermsInv

\* The terms of every agreement were read back to the debtor, whichever proposal
\* they came from, as long as Twilio asks for the voice URL once.
THEOREM AgreedTermsReadBack ==
  ASSUME ~TwilioRetries
  PROVE  Spec => []TermsReadBack
<1>1. Init => TermsInv
  <2> SUFFICES ASSUME Init PROVE TermsInv
    OBVIOUS
  <2>1. NewCall \in TermsSet(readBack)
    BY NewReturns, NoneAssumption DEF TermsSet, NewCall, AgreementStates, CallState
  <2>2. Loaded(TermsSet(readBack))
    BY <2>1 DEF Init, Loaded, IdleStep, IdleTool, IdleFiling, IdleHook, IdleRegister
  <2> QED BY <2>2 DEF Init, TermsInv, TermsReadBack, Working, IdleTool
<1>2. TypeOK /\ IdentityInv /\ FirstInv /\ TermsInv /\ [Next]_vars => TermsInv'
  BY TermsNext
<1>3. TermsInv => TermsReadBack
  BY DEF TermsInv
<1> QED BY <1>1, <1>2, <1>3, DialogTypeCorrect, IdentityKept, CallRegistersOnce, PTL DEF Spec

-----------------------------------------------------------------------------
(***************************************************************************)
(* One agreement.  The look for an agreement and its creation are an await *)
(* apart: with one agreement request at a time nothing comes between them, *)
(* over retries and crashes.                                               *)
(***************************************************************************)
OnceInv ==
  /\ AgreementOnce
  /\ \A t \in AgreementTool : tool[t].phase = "create" => agreement = <<>>

LEMMA OnceNext ==
  ASSUME \A t, x \in AgreementTool : t = x, TypeOK, OnceInv, [Next]_vars
  PROVE  OnceInv'
<1>0. tool \in [AgreementTool -> ToolRun] /\ agreement \in Seq(Terms)
  BY DEF TypeOK, ToolRun
<1>1. CASE ToolNext
  <2> PICK t \in AgreementTool :
        \/ ToolRead(t) \/ ToolReject(t) \/ ToolFind(t) \/ ToolRepeat(t)
        \/ ToolInvalid(t) \/ ToolCreate(t) \/ ToolRecord(t) \/ ToolAnswer(t)
        \/ ToolCrash(t)
    BY <1>1 DEF ToolNext
  <2>1. CASE ToolFind(t)
    BY <1>0, <2>1 DEF ToolFind, Existing, OnceInv, AgreementOnce, recordVars, ToolRun
  <2>2. CASE ToolCreate(t)
    <3>1. agreement = <<>> /\ tool[t].terms \in Terms
      BY <1>0, <2>2 DEF ToolCreate, OnceInv, ToolRun
    <3>2. Len(agreement') = 1
      BY <2>2, <3>1 DEF ToolCreate
    <3>3. tool'[t].phase = "record"
      BY <1>0, <2>2 DEF ToolCreate, ToolRun
    <3> QED BY <3>2, <3>3 DEF OnceInv, AgreementOnce
  <2>3. CASE ~ToolFind(t) /\ ~ToolCreate(t)
    <3>1. agreement' = agreement
      BY <2>3 DEF recordVars, ToolRead, ToolReject, ToolRepeat, ToolInvalid, ToolRecord,
                  ToolAnswer, ToolCrash
    <3>2. tool'[t].phase # "create"
      <4>1. CASE ToolRead(t)
        BY <1>0, <4>1 DEF ToolRead
      <4>2. CASE ToolReject(t) \/ ToolRepeat(t) \/ ToolInvalid(t) \/ ToolAnswer(t) \/ ToolCrash(t)
        BY <1>0, <4>2 DEF ToolReject, ToolRepeat, ToolInvalid, ToolAnswer, ToolCrash, IdleTool
      <4>3. CASE ToolRecord(t)
        BY <1>0, <4>3 DEF ToolRecord, ToolRun
      <4> QED BY <2>3, <4>1, <4>2, <4>3
    <3> QED BY <3>1, <3>2 DEF OnceInv, AgreementOnce
  <2> QED BY <2>1, <2>2, <2>3
<1>2. CASE Crash
  BY <1>2 DEF Crash, recordVars, IdleTool, OnceInv, AgreementOnce
<1>3. CASE ~ToolNext /\ ~Crash
  <2>1. tool' = tool /\ agreement' = agreement
    BY <1>3 DEF Next, vars, recordVars, handlerVars, StepNext, StepRead, StepWrite, FilingNext,
       FilingRead, FilingReject, FilingFind, FilingCreate, FilingAnswer, RegisterNext,
       RegisterRead, RegisterWrite, RegisterFail, LegRead, LegWrite, EndNext, HookRead,
       HookClose, HookCase, CloseStale
  <2> QED BY <2>1 DEF OnceInv, AgreementOnce
<1> QED BY <1>1, <1>2, <1>3

\* One interaction makes at most one agreement, over retries and crashes, as long
\* as its agreement requests come one at a time.
THEOREM OneAgreement ==
  ASSUME \A t, x \in AgreementTool : t = x
  PROVE  Spec => []AgreementOnce
<1>1. Init => OnceInv
  BY DEF Init, OnceInv, AgreementOnce, IdleTool
<1>2. TypeOK /\ OnceInv /\ [Next]_vars => OnceInv'
  BY OnceNext
<1>3. OnceInv => AgreementOnce
  BY DEF OnceInv
<1> QED BY <1>1, <1>2, <1>3, DialogTypeCorrect, PTL DEF Spec
=============================================================================
