----------------------- MODULE CollectionEngineProofs -----------------------
(***************************************************************************)
(* Proofs about CollectionEngine, for any sets of automations, cases,      *)
(* ticks, enrolments and operators, any approval modes and page limit.     *)
(***************************************************************************)
EXTENDS CollectionEngine, TLAPS

-----------------------------------------------------------------------------
(***************************************************************************)
(* Type correctness.                                                       *)
(***************************************************************************)
\* The history variable counts, whatever the rest of the step does.
LEMMA LateType ==
  ASSUME TypeOK, TrackLate
  PROVE  late' \in [Why -> [Automation -> [Case -> [Tick -> Nat]]]]
  BY DEF TypeOK, TrackLate

LEMMA AutomationType ==
  ASSUME TypeOK, AutomationStep, TrackLate
  PROVE  TypeOK'
<1> PICK a \in Automation :
      \/ \E e \in Enroller : Create(a, e)
      \/ Activate(a) \/ Pause(a) \/ Stop(a) \/ Delete(a)
  BY DEF AutomationStep
<1>1. ASSUME NEW e \in Enroller, Create(a, e) PROVE TypeOK'
  <2>1. enroller \in [Enroller -> EnrollRecord]
    BY DEF TypeOK
  <2>2. enroller' \in [Enroller -> EnrollRecord]
    BY <1>1, <2>1, ZenonT(40) DEF Create, EnrollRecord
  <2> QED BY <1>1, <2>2, LateType DEF TypeOK, AutomationState, Create, caseVars, rowVars
<1>2. CASE Activate(a) \/ Pause(a) \/ Stop(a)
  BY <1>2, LateType DEF TypeOK, AutomationState, Activate, Pause, Stop, SetStatus, caseVars, rowVars, procVars
<1>3. CASE Delete(a)
  BY <1>3, LateType DEF TypeOK, AutomationState, RowStatus, Delete, caseVars, procVars
<1> QED BY <1>1, <1>2, <1>3

LEMMA EnrollType ==
  ASSUME TypeOK, EnrollStep, TrackLate
  PROVE  TypeOK'
<1>0. enroller \in [Enroller -> EnrollRecord]
  BY DEF TypeOK
<1> PICK e \in Enroller :
      \/ \E a \in Automation : EnrollRequest(e, a)
      \/ \E S \in SUBSET Case : EnrollList(e, S)
      \/ \E c \in Case : EnrollCheck(e, c)
      \/ \E s \in ApprovalStatus : EnrollApprove(e, s)
      \/ EnrollCreate(e) \/ EnrollSkip(e) \/ EnrollEnd(e)
  BY DEF EnrollStep
<1>1. ASSUME NEW a \in Automation, EnrollRequest(e, a) PROVE TypeOK'
  <2>1. enroller' \in [Enroller -> EnrollRecord]
    BY <1>0, <1>1, ZenonT(40) DEF EnrollRequest, EnrollRecord
  <2> QED BY <1>1, <2>1, LateType DEF TypeOK, EnrollRequest, caseVars, rowVars
<1>2. ASSUME NEW S \in SUBSET Case, EnrollList(e, S) PROVE TypeOK'
  <2>1. enroller' \in [Enroller -> EnrollRecord]
    <3> DEFINE r == [enroller[e] EXCEPT !.phase = "visit", !.todo = S,
                                        !.seen = approval]
    <3>0. approval \in [Case -> ApprovalStatus]
      BY DEF TypeOK
    <3>1. r \in EnrollRecord
      BY <1>0, <3>0 DEF EnrollRecord
    <3>2. enroller' = [enroller EXCEPT ![e] = r]
      BY <1>2 DEF EnrollList
    <3> HIDE DEF r
    <3> QED BY <1>0, <3>1, <3>2
  <2> QED BY <1>2, <2>1, LateType DEF TypeOK, EnrollList, caseVars, rowVars
<1>3. ASSUME NEW c \in Case, EnrollCheck(e, c) PROVE TypeOK'
  <2>1. enroller' \in [Enroller -> EnrollRecord]
    <3> DEFINE r == IF HasRow(enroller[e].auto, c)
                      THEN [enroller[e] EXCEPT !.todo = enroller[e].todo \ {c}]
                      ELSE [enroller[e] EXCEPT !.phase = "approve",
                                               !.todo = enroller[e].todo \ {c}, !.case = c]
    <3>1. r \in EnrollRecord
      BY <1>0 DEF EnrollRecord
    <3>2. enroller' = [enroller EXCEPT ![e] = r]
      BY <1>3 DEF EnrollCheck
    <3> HIDE DEF r
    <3> QED BY <1>0, <3>1, <3>2
  <2>2. UNCHANGED <<automationStatus, caseVars, rowVars, openDispute, onDemand, tick, operator>>
    BY <1>3 DEF EnrollCheck
  <2> QED BY <2>1, <2>2, LateType DEF TypeOK, caseVars, rowVars
<1>4. ASSUME NEW s \in ApprovalStatus, EnrollApprove(e, s) PROVE TypeOK'
  <2>1. enroller' \in [Enroller -> EnrollRecord]
    <3>1. [enroller[e] EXCEPT !.phase = "create"] \in EnrollRecord
      BY <1>0 DEF EnrollRecord
    <3>2. enroller' = [enroller EXCEPT ![e] = [enroller[e] EXCEPT !.phase = "create"]]
      BY <1>4 DEF EnrollApprove
    <3> QED BY <1>0, <3>1, <3>2
  <2> QED BY <1>4, <2>1, LateType DEF TypeOK, ApprovalSource, EnrollApprove, caseVars, rowVars
<1>5. ASSUME EnrollCreate(e) PROVE TypeOK'
  <2>1. enroller' \in [Enroller -> EnrollRecord]
    BY <1>0, <1>5, ZenonT(40) DEF EnrollCreate, EnrollRecord
  <2>2. rowStatus' \in [Automation -> [Case -> RowStatus]]
    <3>1. rowStatus \in [Automation -> [Case -> RowStatus]]
      BY DEF TypeOK
    <3> QED BY <1>5, <3>1 DEF EnrollCreate, RowStatus, rowVars
  <2>3. pace' \in [Automation -> [Case -> Pace]]
    <3>1. pace \in [Automation -> [Case -> Pace]]
      BY DEF TypeOK
    <3> QED BY <1>5, <3>1 DEF EnrollCreate, Pace, rowVars
  <2> QED BY <1>5, <2>1, <2>2, <2>3, LateType DEF TypeOK, EnrollCreate, caseVars
<1>6. ASSUME EnrollSkip(e) PROVE TypeOK'
  <2>1. enroller' \in [Enroller -> EnrollRecord]
    BY <1>0, <1>6, ZenonT(40) DEF EnrollSkip, EnrollRecord
  <2> QED BY <1>6, <2>1, LateType DEF TypeOK, EnrollSkip, caseVars, rowVars
<1>7. ASSUME EnrollEnd(e) PROVE TypeOK'
  <2>1. enroller' \in [Enroller -> EnrollRecord]
    BY <1>0, <1>7 DEF EnrollEnd, EnrollRecord, IdleEnroller, ApprovalStatus
  <2> QED BY <1>7, <2>1, LateType DEF TypeOK, EnrollEnd, caseVars, rowVars
<1> QED BY <1>1, <1>2, <1>3, <1>4, <1>5, <1>6, <1>7

LEMMA DecisionType ==
  ASSUME TypeOK, DecisionStep, TrackLate
  PROVE  TypeOK'
<1> USE LateType DEF TypeOK, caseVars, rowVars, procVars, OperatorRecord, IdleOperator
<1>1. ASSUME NEW a \in Automation, NEW S \in SUBSET Case, BulkApprove(a, S)
      PROVE  TypeOK'
  BY <1>1 DEF BulkApprove, ApprovalStatus, ApprovalSource
<1>2. ASSUME NEW o \in Operator, NEW a \in Automation, NEW S \in SUBSET Case,
             NEW v \in ApprovalStatus, BulkRefuse(o, a, S, v)
      PROVE  TypeOK'
  BY <1>2 DEF BulkRefuse, ApprovalSource
<1>3. ASSUME NEW o \in Operator, CloseRows(o) PROVE TypeOK'
  BY <1>3, NoneAssumption DEF CloseRows, RowStatus
<1>4. ASSUME NEW o \in Operator, RefuseFail(o) PROVE TypeOK'
  BY <1>4 DEF RefuseFail
<1> QED BY <1>1, <1>2, <1>3, <1>4 DEF DecisionStep, BulkReject, BulkExclude, ApprovalStatus

LEMMA CaseType ==
  ASSUME TypeOK, CaseStep, TrackLate
  PROVE  TypeOK'
<1> USE LateType DEF TypeOK, caseVars, rowVars, procVars
<1> PICK c \in Case :
      \/ OpenDispute(c) \/ ResolveDispute(c)
      \/ \E a \in Automation : PauseCase(a, c) \/ ResumeCase(a, c) \/ RunStrategy(a, c)
                              \/ RunRecorded(a, c) \/ RunFails(a, c)
      \/ \E a \in Automation, p \in Pace : PaceChanges(a, c, p)
  BY DEF CaseStep
<1>1. ASSUME NEW a \in Automation, PauseCase(a, c) \/ ResumeCase(a, c)
      PROVE  TypeOK'
  <2>1. PICK s \in RowStatus : SetRow(a, c, s)
    BY <1>1 DEF PauseCase, ResumeCase, RowStatus
  <2>2. rowStatus' \in [Automation -> [Case -> RowStatus]]
    BY <2>1 DEF SetRow
  <2> QED BY <2>1, <2>2 DEF SetRow
<1>2. CASE OpenDispute(c) \/ ResolveDispute(c)
  BY <1>2 DEF OpenDispute, ResolveDispute
<1>3. ASSUME NEW a \in Automation, RunStrategy(a, c) PROVE TypeOK'
  BY <1>3 DEF RunStrategy
<1>4. ASSUME NEW a \in Automation, RunRecorded(a, c) PROVE TypeOK'
  BY <1>4 DEF RunRecorded, Pace
<1>5. ASSUME NEW a \in Automation, RunFails(a, c) PROVE TypeOK'
  BY <1>5 DEF RunFails
<1>6. ASSUME NEW a \in Automation, NEW p \in Pace, PaceChanges(a, c, p)
      PROVE  TypeOK'
  BY <1>6 DEF PaceChanges
<1> QED BY <1>1, <1>2, <1>3, <1>4, <1>5, <1>6

LEMMA TickType ==
  ASSUME TypeOK, TrackLate, NEW t \in Tick,
         StartTick(t) \/ TickStep(t) \/ TickFault(t)
  PROVE  TypeOK'
<1>0. tick \in [Tick -> TickRecord]
  BY DEF TypeOK
<1>1. IdleTick \in TickRecord
  BY DEF IdleTick, TickRecord
<1>2. ASSUME NextAutomation(t) PROVE tick' \in [Tick -> TickRecord]
  <2>1. [IdleTick EXCEPT !.phase = "select", !.pending = tick[t].pending]
          \in TickRecord
    BY <1>0, <1>1 DEF TickRecord
  <2> QED BY <1>0, <1>1, <1>2, <2>1 DEF NextAutomation
<1>3. ASSUME StartTick(t) PROVE TypeOK'
  <2>1. tick' \in [Tick -> TickRecord]
    <3> DEFINE r == [tick[t] EXCEPT !.phase = "select", !.pending = ActiveAutomations]
    <3>1. r \in TickRecord
      BY <1>0 DEF TickRecord, ActiveAutomations
    <3>2. tick' = [tick EXCEPT ![t] = r]
      BY <1>3 DEF StartTick
    <3> HIDE DEF r
    <3> QED BY <1>0, <3>1, <3>2
  <2> QED BY <1>3, <2>1, LateType DEF TypeOK, StartTick, caseVars, rowVars
<1>4. ASSUME NEW a \in Automation, NEW S \in SUBSET Case, SelectRows(t, a, S) PROVE TypeOK'
  <2>1. tick' \in [Tick -> TickRecord]
    <3> DEFINE r == [tick[t] EXCEPT !.phase = "disputes", !.pending = tick[t].pending \ {a},
                          !.current = a, !.due = S,
                          !.fit = {c \in S : approval[c] = "APPROVED"
                                             /\ pace[a][c] = "ready"}]
    <3>1. r \in TickRecord
      BY <1>0 DEF TickRecord
    <3>2. tick' = [tick EXCEPT ![t] = r]
      BY <1>4 DEF SelectRows
    <3> HIDE DEF r
    <3> QED BY <1>0, <3>1, <3>2
  <2> QED BY <1>4, <2>1, LateType DEF TypeOK, SelectRows, caseVars, rowVars
<1>5. ASSUME ReadDisputes(t) PROVE TypeOK'
  <2>1. tick' \in [Tick -> TickRecord]
    <3> DEFINE r == [tick[t] EXCEPT !.phase = "visit",
                          !.disputed = tick[t].due \cap openDispute]
    <3>1. r \in TickRecord
      BY <1>0 DEF TickRecord
    <3>2. tick' = [tick EXCEPT ![t] = r]
      BY <1>5 DEF ReadDisputes
    <3> HIDE DEF r
    <3> QED BY <1>0, <3>1, <3>2
  <2> QED BY <1>5, <2>1, LateType DEF TypeOK, ReadDisputes, caseVars, rowVars
<1>6. ASSUME NEW c \in Case, SkipRow(t, c) PROVE TypeOK'
  <2>1. tick' \in [Tick -> TickRecord]
    <3> DEFINE r == [tick[t] EXCEPT !.due = tick[t].due \ {c}]
    <3>1. r \in TickRecord
      BY <1>0 DEF TickRecord
    <3>2. tick' = [tick EXCEPT ![t] = r]
      BY <1>6 DEF SkipRow
    <3> HIDE DEF r
    <3> QED BY <1>0, <3>1, <3>2
  <2> QED BY <1>6, <2>1, LateType DEF TypeOK, SkipRow, caseVars, rowVars
<1>7. ASSUME NEW c \in Case, Dispatch(t, c) PROVE TypeOK'
  <2>1. tick' \in [Tick -> TickRecord]
    <3> DEFINE r == [tick[t] EXCEPT !.phase = "record", !.due = tick[t].due \ {c}, !.hand = c]
    <3>1. r \in TickRecord
      BY <1>0 DEF TickRecord
    <3>2. tick' = [tick EXCEPT ![t] = r]
      BY <1>7 DEF Dispatch
    <3> HIDE DEF r
    <3> QED BY <1>0, <3>1, <3>2
  <2> QED BY <1>7, <2>1, LateType DEF TypeOK, Dispatch, caseVars, rowVars
<1>8. ASSUME RecordAttempt(t) PROVE TypeOK'
  <2>1. tick' \in [Tick -> TickRecord]
    <3> DEFINE r == [tick[t] EXCEPT !.phase = "visit", !.hand = NoCase]
    <3>1. r \in TickRecord
      BY <1>0 DEF TickRecord
    <3>2. tick' = [tick EXCEPT ![t] = r]
      BY <1>8 DEF RecordAttempt
    <3> HIDE DEF r
    <3> QED BY <1>0, <3>1, <3>2
  <2> QED BY <1>8, <2>1, LateType DEF TypeOK, Pace, RecordAttempt, caseVars, rowVars
<1>9. CASE FinishAutomation(t)
  BY <1>2, <1>9, LateType DEF TypeOK, FinishAutomation, caseVars, rowVars
<1>10. CASE FailAutomation(t)
  BY <1>2, <1>10, LateType DEF TypeOK, FailAutomation, caseVars, rowVars
<1>11. CASE CrashTick(t)
  BY <1>1, <1>11, LateType DEF TypeOK, CrashTick, caseVars, rowVars
<1> QED
  BY <1>3, <1>4, <1>5, <1>6, <1>7, <1>8, <1>9, <1>10, <1>11 DEF TickStep, TickFault

\* Every variable keeps its type.
THEOREM TypeCorrect == Spec => []TypeOK
<1>1. Init => TypeOK
  BY DEF Init, TypeOK, AutomationState, ApprovalStatus, ApprovalSource,
         RowStatus, Pace, IdleTick, TickRecord, IdleEnroller, EnrollRecord,
         IdleOperator, OperatorRecord
<1>2. TypeOK /\ [Next]_vars => TypeOK'
  <2>1. CASE UNCHANGED vars
    BY <2>1 DEF vars, TypeOK
  <2>2. ASSUME TypeOK, Next PROVE TypeOK'
    BY <2>2, AutomationType, EnrollType, DecisionType, CaseType, TickType DEF Next
  <2> QED BY <2>1, <2>2
<1> QED BY <1>1, <1>2, PTL DEF Spec
-----------------------------------------------------------------------------
(***************************************************************************)
(* Late dispatches.  First what one step does to the local variables of    *)
(* one tick, then that a tick which carries a row after a step carried it  *)
(* before, or has just read that it may.                                   *)
(***************************************************************************)

\* A step of the system changes the variables of at most one tick.
LEMMA OneSlot ==
  ASSUME TypeOK, Next, NEW t \in Tick
  PROVE  tick'[t] = tick[t] \/ StartTick(t) \/ TickStep(t) \/ TickFault(t)
<1>1. CASE AutomationStep
  BY <1>1, ZenonT(40) DEF AutomationStep, Create, Activate, Pause, Stop, SetStatus, Delete, procVars
<1>2. CASE EnrollStep
  BY <1>2 DEF EnrollStep, EnrollRequest, EnrollList, EnrollCheck, EnrollApprove,
              EnrollCreate, EnrollSkip, EnrollEnd
<1>3. CASE DecisionStep
  BY <1>3 DEF DecisionStep, BulkApprove, BulkReject, BulkExclude, BulkRefuse,
              CloseRows, RefuseFail, procVars
<1>4. CASE CaseStep
  BY <1>4 DEF CaseStep, PauseCase, ResumeCase, SetRow, OpenDispute,
              ResolveDispute, RunStrategy, RunRecorded, RunFails, PaceChanges, procVars
<1>5. ASSUME NEW u \in Tick, StartTick(u) \/ TickStep(u) \/ TickFault(u), u # t
      PROVE  tick'[t] = tick[t]
  <2>1. tick \in [Tick -> TickRecord]
    BY SMTT(30) DEF TypeOK
  <2>2. \E r : tick' = [tick EXCEPT ![u] = r]
    BY <1>5 DEF StartTick, TickStep, SelectRows, ReadDisputes, SkipRow, Dispatch,
                RecordAttempt, FinishAutomation, TickFault, FailAutomation,
                CrashTick, NextAutomation
  <2> QED BY <1>5, <2>1, <2>2
<1> QED BY <1>1, <1>2, <1>3, <1>4, <1>5 DEF Next

\* What a tick holds after each of its own steps.
LEMMA StartEffect ==
  ASSUME TypeOK, NEW t \in Tick, StartTick(t)
  PROVE  /\ tick[t].phase = "idle" /\ tick'[t].phase = "select"
         /\ tick'[t].pending = ActiveAutomations
         /\ tick'[t].current = tick[t].current
         /\ tick'[t].due = tick[t].due
         /\ tick'[t].fit = tick[t].fit
         /\ automationStatus' = automationStatus
<1>1. tick \in [Tick -> TickRecord]
  BY DEF TypeOK
<1> QED BY <1>1 DEF StartTick, TickRecord

LEMMA SelectEffect ==
  ASSUME TypeOK, NEW t \in Tick, NEW a \in Automation, NEW S \in SUBSET Case,
         SelectRows(t, a, S)
  PROVE  /\ tick'[t].phase = "disputes"
         /\ a \in tick[t].pending
         /\ tick'[t].pending = tick[t].pending \ {a}
         /\ tick'[t].current = a
         /\ tick'[t].due = S
         /\ tick'[t].fit = {c \in S : approval[c] = "APPROVED" /\ pace[a][c] = "ready"}
         /\ S \subseteq DueRows(a)
         /\ automationStatus' = automationStatus
         /\ rowStatus' = rowStatus
         /\ approval' = approval
<1>1. tick \in [Tick -> TickRecord]
  BY DEF TypeOK
<1>2. S \subseteq DueRows(a)
  BY DEF SelectRows, Pages
<1> DEFINE F == {c \in S : approval[c] = "APPROVED" /\ pace[a][c] = "ready"}
<1>3. tick'[t] = [tick[t] EXCEPT !.phase = "disputes", !.pending = tick[t].pending \ {a},
                                 !.current = a, !.due = S, !.fit = F]
  BY <1>1 DEF SelectRows
<1> HIDE DEF F
<1>4. /\ tick'[t].phase = "disputes"
      /\ tick'[t].pending = tick[t].pending \ {a}
      /\ tick'[t].current = a
      /\ tick'[t].due = S
      /\ tick'[t].fit = F
  BY <1>1, <1>3 DEF TickRecord
<1> QED BY <1>2, <1>4 DEF SelectRows, caseVars, rowVars, F

\* The steps that visit rows: they may only shrink what is due.
LEMMA VisitEffect ==
  ASSUME TypeOK, NEW t \in Tick,
         \/ ReadDisputes(t) \/ RecordAttempt(t)
         \/ \E c \in Case : SkipRow(t, c) \/ Dispatch(t, c)
  PROVE  /\ tick[t].phase \notin {"idle", "select"}
         /\ tick'[t].phase \notin {"idle", "select"}
         /\ tick'[t].pending = tick[t].pending
         /\ tick'[t].current = tick[t].current
         /\ tick'[t].due \subseteq tick[t].due
         /\ tick'[t].fit = tick[t].fit
         /\ tick'[t].phase = "record" =>
              \E c \in Case : /\ tick'[t].hand = c
                              /\ c \in tick[t].due
                              /\ c \in tick[t].fit
                              /\ c \notin tick'[t].due
<1>1. tick \in [Tick -> TickRecord]
  BY DEF TypeOK
<1> DEFINE Visited ==
      /\ tick[t].phase \notin {"idle", "select"}
      /\ tick'[t].phase \notin {"idle", "select"}
      /\ tick'[t].pending = tick[t].pending
      /\ tick'[t].current = tick[t].current
      /\ tick'[t].due \subseteq tick[t].due
      /\ tick'[t].fit = tick[t].fit
      /\ tick'[t].phase = "record" =>
           \E c \in Case : /\ tick'[t].hand = c
                           /\ c \in tick[t].due
                           /\ c \in tick[t].fit
                           /\ c \notin tick'[t].due
<1> SUFFICES Visited
  OBVIOUS
<1>2. CASE ReadDisputes(t)
  BY <1>1, <1>2 DEF ReadDisputes, TickRecord
<1>3. CASE RecordAttempt(t)
  BY <1>1, <1>3 DEF RecordAttempt, TickRecord
<1>4. ASSUME NEW c \in Case, SkipRow(t, c) PROVE Visited
  <2>1. /\ tick[t].phase = "visit" /\ tick'[t].phase = "visit"
        /\ tick'[t].pending = tick[t].pending
        /\ tick'[t].current = tick[t].current
        /\ tick'[t].due = tick[t].due \ {c}
        /\ tick'[t].fit = tick[t].fit
    BY <1>1, <1>4 DEF SkipRow, TickRecord
  <2> QED BY <2>1
<1>5. ASSUME NEW c \in Case, Dispatch(t, c) PROVE Visited
  <2>1. /\ tick[t].phase = "visit" /\ tick'[t].phase = "record"
        /\ tick'[t].pending = tick[t].pending
        /\ tick'[t].current = tick[t].current
        /\ tick'[t].due = tick[t].due \ {c}
        /\ tick'[t].fit = tick[t].fit
        /\ tick'[t].hand = c /\ c \in tick[t].due /\ c \in tick[t].fit
    BY <1>1, <1>5, ZenonT(40) DEF Dispatch, TickRecord
  <2> QED BY <2>1
<1> HIDE DEF Visited
<1> QED BY <1>2, <1>3, <1>4, <1>5

\* The end of an automation or of the tick, in any way.
LEMMA LeaveEffect ==
  ASSUME TypeOK, NEW t \in Tick,
         FinishAutomation(t) \/ FailAutomation(t) \/ CrashTick(t)
  PROVE  /\ tick'[t].phase \in {"idle", "select"}
         /\ tick'[t].pending \subseteq tick[t].pending
         /\ tick'[t].current = NoAutomation
<1>1. tick \in [Tick -> TickRecord]
  BY DEF TypeOK
<1>2. \/ tick'[t] = IdleTick
      \/ tick'[t] = [IdleTick EXCEPT !.phase = "select", !.pending = tick[t].pending]
  BY <1>1 DEF FinishAutomation, FailAutomation, NextAutomation, CrashTick
<1> DEFINE next == [IdleTick EXCEPT !.phase = "select", !.pending = tick[t].pending]
<1>3. IdleTick.phase = "idle" /\ IdleTick.pending = {} /\ IdleTick.current = NoAutomation
  BY DEF IdleTick
<1>4. /\ next.phase = "select" /\ next.pending = tick[t].pending
      /\ next.current = NoAutomation
  BY DEF IdleTick
<1> HIDE DEF next
<1> QED BY <1>2, <1>3, <1>4 DEF next

LEMMA SlotPreserved ==
  ASSUME TypeOK, Next, NEW t \in Tick, SlotOK(t)
  PROVE  SlotOK(t)'
<1>0. tick[t].pending \subseteq Automation
  BY DEF TypeOK, TickRecord
<1>1. CASE tick'[t] = tick[t]
  BY <1>1 DEF SlotOK
<1>2. CASE StartTick(t)
  BY <1>2, StartEffect, NoneAssumption DEF SlotOK, ActiveAutomations
<1>3. ASSUME NEW a \in Automation, NEW S \in SUBSET Case, SelectRows(t, a, S)
      PROVE  SlotOK(t)'
  BY <1>3, SelectEffect DEF SlotOK
<1>4. CASE \/ ReadDisputes(t) \/ RecordAttempt(t)
           \/ \E c \in Case : SkipRow(t, c) \/ Dispatch(t, c)
  BY <1>4, VisitEffect DEF SlotOK
<1>5. CASE FinishAutomation(t) \/ FailAutomation(t) \/ CrashTick(t)
  BY <1>0, <1>5, LeaveEffect, NoneAssumption DEF SlotOK
<1> QED BY OneSlot, <1>1, <1>2, <1>3, <1>4, <1>5 DEF TickStep, TickFault

\* A tick that carries a row after a step carried it before, unless w allows
\* the row now.
LEMMA CarriesStep ==
  ASSUME TypeOK, Next, NEW w \in Why, NEW t \in Tick, NEW a \in Automation,
         NEW c \in Case, SlotOK(t), Carries(w, t, a, c)'
  PROVE  Carries(w, t, a, c) \/ Allows(w, a, c)'
<1>1. CASE tick'[t] = tick[t]
  BY <1>1 DEF Carries
<1>2. CASE StartTick(t)
  BY <1>2, StartEffect, NoneAssumption DEF SlotOK, ActiveAutomations, Carries, Allows, ActiveAutomations
<1>3. ASSUME NEW b \in Automation, NEW S \in SUBSET Case, SelectRows(t, b, S)
      PROVE  Carries(w, t, a, c) \/ Allows(w, a, c)'
  <2>1. CASE w = "row"
    <3>1. /\ rowStatus' = rowStatus
          /\ approval' = approval
          /\ a = b /\ c \in S /\ approval[c] = "APPROVED"
          /\ c \in DueRows(b)
      BY <1>3, <2>1, SelectEffect DEF Carries
    <3> QED BY <2>1, <3>1 DEF Allows, Contactable, DueRows
  <2>2. CASE w # "row"
    BY <1>3, <2>2, SelectEffect DEF Carries
  <2> QED BY <2>1, <2>2
<1>4. CASE \/ ReadDisputes(t) \/ RecordAttempt(t)
           \/ \E d \in Case : SkipRow(t, d) \/ Dispatch(t, d)
  BY <1>4, VisitEffect DEF Carries
<1>5. CASE FinishAutomation(t) \/ FailAutomation(t) \/ CrashTick(t)
  BY <1>5, LeaveEffect, NoneAssumption DEF Carries
<1> QED BY OneSlot, <1>1, <1>2, <1>3, <1>4, <1>5 DEF TickStep, TickFault

\* A dispatch is of a row the tick carried, and takes it out of its hands.
LEMMA DispatchCarries ==
  ASSUME TypeOK, Next, NEW w \in Why, NEW t \in Tick, NEW a \in Automation,
         NEW c \in Case, SlotOK(t), Dispatched(t, a, c)
  PROVE  Carries(w, t, a, c) /\ ~Carries(w, t, a, c)'
<1>0. /\ tick[t].phase = "visit" /\ tick'[t].phase = "record"
      /\ tick[t].current = a /\ tick'[t].hand = c
  BY DEF Dispatched
<1>1. ~StartTick(t)
  BY <1>0, StartEffect
<1>2. \A b \in Automation, S \in SUBSET Case : ~SelectRows(t, b, S)
  BY <1>0, SelectEffect
<1>3. ~(FinishAutomation(t) \/ FailAutomation(t) \/ CrashTick(t))
  BY <1>0, LeaveEffect
<1>4. \/ ReadDisputes(t) \/ RecordAttempt(t)
      \/ \E d \in Case : SkipRow(t, d) \/ Dispatch(t, d)
  BY <1>0, <1>1, <1>2, <1>3, OneSlot DEF TickStep, TickFault
<1>5. /\ tick'[t].pending = tick[t].pending
      /\ tick'[t].current = tick[t].current
      /\ c \in tick[t].due /\ c \in tick[t].fit /\ c \notin tick'[t].due
  BY <1>0, <1>4, VisitEffect
<1> QED BY <1>0, <1>5 DEF SlotOK, Carries

LEMMA LateStep ==
  ASSUME TypeOK, LateInv, Next
  PROVE  LateInv'
<1>1. ASSUME NEW t \in Tick PROVE SlotOK(t)'
  BY SlotPreserved DEF LateInv
<1>2. ASSUME NEW w \in Why, NEW a \in Automation, NEW c \in Case, NEW t \in Tick
      PROVE  LateOK(w, a, c, t)'
  <2> DEFINE n == late[w][a][c][t]
  <2>1. n \in Nat /\ LateOK(w, a, c, t) /\ SlotOK(t)
    BY DEF TypeOK, LateInv
  <2>2. n' = IF Allows(w, a, c)' THEN 0
             ELSE n + (IF Dispatched(t, a, c) THEN 1 ELSE 0)
    BY DEF Next, TrackLate
  <2>3. CASE Allows(w, a, c)'
    BY <2>2, <2>3 DEF LateOK
  <2>4. CASE ~Allows(w, a, c)' /\ Dispatched(t, a, c)
    <3>1. Carries(w, t, a, c) /\ ~Carries(w, t, a, c)'
      BY <2>1, <2>4, DispatchCarries
    <3>2. n = 0
      BY <2>1, <3>1 DEF LateOK
    <3> QED BY <2>2, <2>4, <3>1, <3>2 DEF LateOK
  <2>5. CASE ~Allows(w, a, c)' /\ ~Dispatched(t, a, c)
    <3>1. n' = n
      BY <2>1, <2>2, <2>5
    <3>2. Carries(w, t, a, c)' => Carries(w, t, a, c)
      BY <2>1, <2>5, CarriesStep
    <3> QED BY <2>1, <2>5, <3>1, <3>2 DEF LateOK
  <2> QED BY <2>3, <2>4, <2>5
<1> QED BY <1>1, <1>2 DEF LateInv

\* A decision that forbids a row is followed by at most one more dispatch of
\* it by each tick.
THEOREM LateBound == Spec => []LateAtMostOncePerTick
<1>1. Init => LateInv
  BY NoneAssumption
     DEF Init, LateInv, SlotOK, LateOK, Carries, Allows, Contactable, IdleTick, Why
<1>2. TypeOK /\ LateInv /\ [Next]_vars => LateInv'
  <2>1. CASE UNCHANGED vars
    BY <2>1 DEF vars, LateInv, SlotOK, LateOK, Carries, Allows, Contactable
  <2> QED BY <2>1, LateStep
<1>3. LateInv => LateAtMostOncePerTick
  BY DEF LateInv, LateOK, LateAtMostOncePerTick
<1> QED BY <1>1, <1>2, <1>3, TypeCorrect, PTL DEF Spec
-----------------------------------------------------------------------------
(***************************************************************************)
(* Review.  In the three lemmas enroller, approval and rowStatus are what  *)
(* matters; the ticks change none of them.                                 *)
(***************************************************************************)
LEMMA EnrollReview ==
  ASSUME TypeOK, ReviewInv, AllReviewed, EnrollStep
  PROVE  ReviewInv'
<1>0. /\ enroller \in [Enroller -> EnrollRecord]
      /\ approval \in [Case -> ApprovalStatus]
      /\ approvedBy \in [Case -> ApprovalSource]
      /\ rowStatus \in [Automation -> [Case -> RowStatus]]
  BY DEF TypeOK
<1> PICK e \in Enroller :
      \/ \E a \in Automation : EnrollRequest(e, a)
      \/ \E S \in SUBSET Case : EnrollList(e, S)
      \/ \E c \in Case : EnrollCheck(e, c)
      \/ \E s \in ApprovalStatus : EnrollApprove(e, s)
      \/ EnrollCreate(e) \/ EnrollSkip(e) \/ EnrollEnd(e)
  BY DEF EnrollStep
<1>1. ASSUME NEW a \in Automation, EnrollRequest(e, a) PROVE ReviewInv'
  <2> DEFINE r == [enroller[e] EXCEPT !.phase = "list", !.auto = a]
  <2>1. enroller' = [enroller EXCEPT ![e] = r]
    BY <1>1 DEF EnrollRequest
  <2>2. /\ r.phase = "list" /\ r.auto = a
        /\ r.seen = enroller[e].seen /\ r.case = enroller[e].case
    BY <1>0 DEF EnrollRecord
  <2> HIDE DEF r
  <2>3. /\ approval' = approval /\ approvedBy' = approvedBy
        /\ rowStatus' = rowStatus
    BY <1>1 DEF EnrollRequest, caseVars, rowVars
  <2>4. \A f \in Enroller : enroller'[f] = IF f = e THEN r ELSE enroller[f]
    BY <1>0, <2>1
  <2>5. \A c \in Case : Untouched(c) => Untouched(c)'
    BY <2>2, <2>3, <2>4 DEF Untouched
  <2> QED BY <2>2, <2>3, <2>4, <2>5 DEF ReviewInv
<1>2. ASSUME NEW S \in SUBSET Case, EnrollList(e, S) PROVE ReviewInv'
  <2> DEFINE r == [enroller[e] EXCEPT !.phase = "visit", !.todo = S, !.seen = approval]
  <2>1. enroller' = [enroller EXCEPT ![e] = r]
    BY <1>2 DEF EnrollList
  <2>2. /\ r.phase = "visit" /\ r.seen = approval
        /\ r.auto = enroller[e].auto /\ r.case = enroller[e].case
    BY <1>0 DEF EnrollRecord
  <2>3. enroller[e].phase # "idle"
    BY <1>2 DEF EnrollList
  <2> HIDE DEF r
  <2>4. /\ approval' = approval /\ approvedBy' = approvedBy
        /\ rowStatus' = rowStatus
    BY <1>2 DEF EnrollList, caseVars, rowVars
  <2>5. \A f \in Enroller :
          /\ enroller'[f].auto = enroller[f].auto
          /\ enroller'[f].case = enroller[f].case
          /\ \/ enroller'[f].phase = "visit" /\ enroller[f].phase # "idle"
             \/ enroller'[f].phase = enroller[f].phase
          /\ enroller'[f].seen \in {approval, enroller[f].seen}
    BY <1>0, <2>1, <2>2, <2>3
  <2>6. \A c \in Case : Untouched(c) => Untouched(c)'
    BY <2>4, <2>5 DEF Untouched
  <2> QED BY <2>4, <2>5, <2>6 DEF ReviewInv
<1>3. ASSUME NEW c \in Case, EnrollCheck(e, c) PROVE ReviewInv'
  <2> DEFINE r == enroller'[e]
  <2>1. enroller[e].phase = "visit"
    BY <1>3 DEF EnrollCheck
  <2>2. /\ r.auto = enroller[e].auto /\ r.seen = enroller[e].seen
        /\ \/ r.phase = "visit" /\ r.case = enroller[e].case
           \/ r.phase = "approve" /\ r.case = c
    BY <1>0, <1>3 DEF EnrollCheck, EnrollRecord
  <2>3. \A f \in Enroller : f # e => enroller'[f] = enroller[f]
    BY <1>0, <1>3 DEF EnrollCheck
  <2> HIDE DEF r
  <2>4. /\ approval' = approval /\ approvedBy' = approvedBy
        /\ rowStatus' = rowStatus
    BY <1>3 DEF EnrollCheck, caseVars, rowVars
  <2>5. \A d \in Case : Untouched(d) => Untouched(d)'
    BY <2>1, <2>2, <2>3, <2>4 DEF Untouched, r
  <2> QED BY <2>1, <2>2, <2>3, <2>4, <2>5 DEF ReviewInv, r
<1>4. ASSUME NEW s \in ApprovalStatus, EnrollApprove(e, s) PROVE ReviewInv'
  BY <1>0, <1>4 DEF EnrollApprove, WriteNeeded, Resolved, AllReviewed, EnrollRecord,
                    ReviewInv, Untouched, caseVars, rowVars
<1>5. ASSUME EnrollCreate(e) PROVE ReviewInv'
  BY <1>0, <1>5, NoneAssumption
     DEF EnrollCreate, EnrollRecord, ReviewInv, Untouched, caseVars, rowVars
<1>6. ASSUME EnrollSkip(e) PROVE ReviewInv'
  BY <1>0, <1>6 DEF EnrollSkip, EnrollRecord, ReviewInv, Untouched, caseVars, rowVars
<1>7. ASSUME EnrollEnd(e) PROVE ReviewInv'
  BY <1>0, <1>7 DEF EnrollEnd, EnrollRecord, IdleEnroller, ReviewInv, Untouched, caseVars, rowVars
<1> QED BY <1>1, <1>2, <1>3, <1>4, <1>5, <1>6, <1>7

LEMMA OperatorReview ==
  ASSUME TypeOK, ReviewInv, AutomationStep \/ DecisionStep
  PROVE  ReviewInv'
<1>0. /\ enroller \in [Enroller -> EnrollRecord]
      /\ approval \in [Case -> ApprovalStatus]
      /\ approvedBy \in [Case -> ApprovalSource]
      /\ rowStatus \in [Automation -> [Case -> RowStatus]]
  BY DEF TypeOK
<1>1. ASSUME NEW a \in Automation, NEW e \in Enroller, Create(a, e)
      PROVE  ReviewInv'
  BY <1>0, <1>1 DEF Create, EnrollRecord, ReviewInv, Untouched, caseVars, rowVars
<1>2. ASSUME NEW a \in Automation, Activate(a) \/ Pause(a) \/ Stop(a)
      PROVE  ReviewInv'
  BY <1>2 DEF Activate, Pause, Stop, SetStatus, ReviewInv, Untouched, caseVars,
              rowVars, procVars
<1>3. ASSUME NEW a \in Automation, Delete(a) PROVE ReviewInv'
  BY <1>0, <1>3 DEF Delete, ReviewInv, Untouched, caseVars, procVars
<1>4. ASSUME NEW a \in Automation, NEW S \in SUBSET Case,
             \/ BulkApprove(a, S)
             \/ \E o \in Operator, v \in ApprovalStatus : BulkRefuse(o, a, S, v)
      PROVE  ReviewInv'
  BY <1>0, <1>4 DEF BulkApprove, BulkRefuse, ReviewInv, Untouched, rowVars, procVars
<1>5. ASSUME NEW o \in Operator, CloseRows(o) PROVE ReviewInv'
  BY <1>0, <1>5 DEF CloseRows, ReviewInv, Untouched, caseVars
<1>6. ASSUME NEW o \in Operator, RefuseFail(o) PROVE ReviewInv'
  BY <1>6 DEF RefuseFail, ReviewInv, Untouched, caseVars, rowVars
<1>7. CASE AutomationStep
  BY <1>1, <1>2, <1>3, <1>7 DEF AutomationStep
<1>8. CASE DecisionStep
  BY <1>4, <1>5, <1>6, <1>8
     DEF DecisionStep, BulkReject, BulkExclude, ApprovalStatus
<1> QED BY <1>7, <1>8

LEMMA CaseReview ==
  ASSUME TypeOK, ReviewInv, CaseStep
  PROVE  ReviewInv'
<1>0. rowStatus \in [Automation -> [Case -> RowStatus]]
  BY DEF TypeOK
<1>1. ASSUME NEW c \in Case, NEW a \in Automation, NEW s \in RowStatus,
             SetRow(a, c, s)
      PROVE  ReviewInv'
  <2>1. \A b \in Automation, d \in Case :
          rowStatus[b][d] = "none" => rowStatus'[b][d] = "none"
    BY <1>0, <1>1 DEF SetRow, Enrolled
  <2> QED BY <1>1, <2>1 DEF SetRow, ReviewInv, Untouched, caseVars, procVars
<1>2. ASSUME NEW c \in Case,
             \/ OpenDispute(c) \/ ResolveDispute(c)
             \/ \E a \in Automation : RunStrategy(a, c) \/ RunRecorded(a, c) \/ RunFails(a, c)
             \/ \E a \in Automation, p \in Pace : PaceChanges(a, c, p)
      PROVE  ReviewInv'
  <2>1. UNCHANGED <<approval, approvedBy, rowStatus, enroller>>
    BY <1>2 DEF OpenDispute, ResolveDispute, RunStrategy, RunRecorded, RunFails, PaceChanges,
                caseVars, rowVars, procVars
  <2> QED BY <2>1 DEF ReviewInv, Untouched
<1> QED BY <1>1, <1>2 DEF CaseStep, PauseCase, ResumeCase, RowStatus

\* When every automation requires approval, a case with a row is APPROVED
\* only by an operator.
THEOREM ReviewBound ==
  ASSUME AllReviewed
  PROVE  Spec => []ReviewedBeforeContact
<1>1. Init => ReviewInv
  BY DEF Init, ReviewInv, Untouched, IdleEnroller
<1>2. TypeOK /\ ReviewInv /\ [Next]_vars => ReviewInv'
  <2> SUFFICES ASSUME TypeOK, ReviewInv, [Next]_vars PROVE ReviewInv'
    OBVIOUS
  <2>1. CASE UNCHANGED vars
    BY <2>1, SMTT(30) DEF vars, ReviewInv, Untouched
  <2>2. ASSUME NEW t \in Tick, StartTick(t) \/ TickStep(t) \/ TickFault(t)
        PROVE  ReviewInv'
    BY <2>2 DEF StartTick, TickStep, TickFault, SelectRows, ReadDisputes, SkipRow,
                Dispatch, RecordAttempt, FinishAutomation, FailAutomation,
                CrashTick, ReviewInv, Untouched, caseVars, rowVars
  <2> QED BY <2>1, <2>2, EnrollReview, OperatorReview, CaseReview DEF Next
<1>3. TypeOK /\ ReviewInv => ReviewedBeforeContact
  BY DEF TypeOK, ApprovalSource, ReviewInv, Untouched, ReviewedBeforeContact
<1> QED BY <1>1, <1>2, <1>3, TypeCorrect, PTL DEF Spec

-----------------------------------------------------------------------------
(***************************************************************************)
(* Refusals.  The case an enrolment is about to approve has no row in its  *)
(* automation: only the enrolment itself could have given it one since it  *)
(* looked.                                                                 *)
(***************************************************************************)
EnrollInv ==
  \A e \in Enroller :
    /\ enroller[e].phase # "idle" => enroller[e].auto \in Automation
    /\ enroller[e].phase = "approve" =>
         /\ enroller[e].case \in Case
         /\ rowStatus[enroller[e].auto][enroller[e].case] = "none"

LEMMA EnrollNext ==
  ASSUME \A e, f \in Enroller : e = f, TypeOK, EnrollInv, [Next]_vars
  PROVE  EnrollInv'
<1>0. /\ enroller \in [Enroller -> EnrollRecord]
      /\ rowStatus \in [Automation -> [Case -> RowStatus]]
  BY DEF TypeOK
\* Rows that are not there stay so, but for what the enrolment creates.
<1>keep. ASSUME enroller' = enroller,
                \A a \in Automation, c \in Case :
                  rowStatus[a][c] = "none" => rowStatus'[a][c] = "none"
         PROVE  EnrollInv'
  BY <1>keep DEF EnrollInv
<1>turn. ASSUME NEW e \in Enroller,
                enroller'[e].phase # "idle" => enroller'[e].auto \in Automation,
                enroller'[e].phase # "approve"
         PROVE  EnrollInv'
  BY <1>turn DEF EnrollInv
<1>1. ASSUME NEW a \in Automation, NEW e \in Enroller, Create(a, e) \/ EnrollRequest(e, a)
      PROVE  EnrollInv'
  <2>1. enroller'[e].phase = "list" /\ enroller'[e].auto = a
    BY <1>0, <1>1, ZenonT(40) DEF Create, EnrollRequest, EnrollRecord
  <2> QED BY <1>turn, <2>1
<1>2. ASSUME NEW e \in Enroller, NEW S \in SUBSET Case, EnrollList(e, S) PROVE EnrollInv'
  <2>1. /\ enroller'[e].phase = "visit" /\ enroller'[e].auto = enroller[e].auto
        /\ enroller[e].phase # "idle"
    BY <1>0, <1>2 DEF EnrollList, EnrollRecord
  <2> QED BY <1>turn, <2>1 DEF EnrollInv
<1>3. ASSUME NEW e \in Enroller, NEW c \in Case, EnrollCheck(e, c) PROVE EnrollInv'
  <2>1. /\ enroller'[e].auto = enroller[e].auto /\ rowStatus' = rowStatus
        /\ enroller[e].auto \in Automation
    BY <1>0, <1>3 DEF EnrollCheck, EnrollRecord, EnrollInv, rowVars
  <2>2. \/ enroller'[e].phase = "visit"
        \/ enroller'[e].phase = "approve" /\ enroller'[e].case = c /\ ~HasRow(enroller[e].auto, c)
    BY <1>0, <1>3 DEF EnrollCheck, EnrollRecord
  <2>3. ~HasRow(enroller[e].auto, c) => rowStatus[enroller[e].auto][c] = "none"
    BY DEF HasRow, Enrolled
  <2> QED BY <2>1, <2>2, <2>3 DEF EnrollInv
<1>4. ASSUME NEW e \in Enroller,
             \/ \E s \in ApprovalStatus : EnrollApprove(e, s)
             \/ EnrollCreate(e) \/ EnrollSkip(e) \/ EnrollEnd(e)
      PROVE  EnrollInv'
  <2>1. /\ enroller'[e].phase # "approve"
        /\ enroller'[e].phase # "idle" => enroller'[e].auto = enroller[e].auto
        /\ enroller[e].phase # "idle"
    <3>1. ASSUME NEW s \in ApprovalStatus, EnrollApprove(e, s)
          PROVE  /\ enroller'[e].phase = "create" /\ enroller'[e].auto = enroller[e].auto
                 /\ enroller[e].phase = "approve"
      BY <1>0, <3>1 DEF EnrollApprove, EnrollRecord
    <3> DEFINE back == [enroller[e] EXCEPT !.phase = "visit", !.case = NoCase]
    <3>q. back.phase = "visit" /\ back.auto = enroller[e].auto
      BY <1>0 DEF EnrollRecord
    <3>2. ASSUME EnrollCreate(e) \/ EnrollSkip(e)
          PROVE  /\ enroller'[e].phase = "visit" /\ enroller'[e].auto = enroller[e].auto
                 /\ enroller[e].phase # "idle"
      <4>1. enroller' = [enroller EXCEPT ![e] = back]
        BY <3>2, Zenon DEF EnrollCreate, EnrollSkip
      <4>2. enroller[e].phase # "idle"
        <5>1. CASE EnrollCreate(e)
          BY <5>1 DEF EnrollCreate
        <5>2. CASE EnrollSkip(e)
          BY <5>2 DEF EnrollSkip
        <5> QED BY <3>2, <5>1, <5>2
      <4> HIDE DEF back
      <4>3. enroller'[e] = back
        BY <1>0, <4>1
      <4> QED BY <4>2, <4>3, <3>q
    <3>3. ASSUME EnrollEnd(e)
          PROVE  enroller'[e].phase = "idle" /\ enroller[e].phase # "idle"
      BY <1>0, <3>3 DEF EnrollEnd, IdleEnroller
    <3> QED BY <1>4, <3>1, <3>2, <3>3
  <2> QED BY <1>turn, <2>1 DEF EnrollInv
<1>5. CASE EnrollStep
  BY <1>1, <1>2, <1>3, <1>4, <1>5 DEF EnrollStep
<1>6. CASE AutomationStep
  <2>1. ASSUME NEW a \in Automation, Activate(a) \/ Pause(a) \/ Stop(a) PROVE EnrollInv'
    BY <1>keep, <2>1 DEF Activate, Pause, Stop, SetStatus, rowVars, procVars
  <2>2. ASSUME NEW a \in Automation, Delete(a) PROVE EnrollInv'
    BY <1>0, <1>keep, <2>2 DEF Delete, procVars
  <2> QED BY <1>1, <1>6, <2>1, <2>2 DEF AutomationStep
<1>7. CASE DecisionStep
  <2>1. ASSUME NEW a \in Automation, NEW S \in SUBSET Case,
               \/ BulkApprove(a, S)
               \/ \E o \in Operator : BulkReject(o, a, S) \/ BulkExclude(o, a, S)
        PROVE  EnrollInv'
    BY <1>keep, <2>1 DEF BulkApprove, BulkReject, BulkExclude, BulkRefuse, rowVars, procVars
  <2>2. ASSUME NEW o \in Operator, CloseRows(o) PROVE EnrollInv'
    BY <1>0, <1>keep, <2>2 DEF CloseRows
  <2>3. ASSUME NEW o \in Operator, RefuseFail(o) PROVE EnrollInv'
    BY <1>keep, <2>3 DEF RefuseFail, rowVars
  <2> QED BY <1>7, <2>1, <2>2, <2>3 DEF DecisionStep
<1>8. CASE CaseStep
  <2>1. ASSUME NEW c \in Case, NEW a \in Automation, PauseCase(a, c) \/ ResumeCase(a, c)
        PROVE  EnrollInv'
    BY <1>0, <1>keep, <2>1 DEF PauseCase, ResumeCase, SetRow, Enrolled, procVars
  <2>2. ASSUME NEW c \in Case,
               \/ OpenDispute(c) \/ ResolveDispute(c)
               \/ \E a \in Automation : RunStrategy(a, c) \/ RunRecorded(a, c) \/ RunFails(a, c)
               \/ \E a \in Automation, p \in Pace : PaceChanges(a, c, p)
        PROVE  EnrollInv'
    BY <1>keep, <2>2 DEF OpenDispute, ResolveDispute, RunStrategy, RunRecorded, RunFails,
                         PaceChanges, rowVars, procVars
  <2> QED BY <1>8, <2>1, <2>2 DEF CaseStep
<1>9. ASSUME NEW t \in Tick, StartTick(t) \/ TickStep(t) \/ TickFault(t) PROVE EnrollInv'
  BY <1>keep, <1>9 DEF StartTick, TickStep, TickFault, SelectRows, ReadDisputes, SkipRow,
     Dispatch, RecordAttempt, FinishAutomation, FailAutomation, CrashTick, rowVars
<1>10. CASE UNCHANGED vars
  BY <1>keep, <1>10 DEF vars
<1> QED BY <1>5, <1>6, <1>7, <1>8, <1>9, <1>10 DEF Next

\* With one automation and one enroll() at a time, enrolment never takes back an
\* operator's refusal of an enrolled case.
THEOREM RefusalIsKept ==
  ASSUME \A a, b \in Automation : a = b, \A e, f \in Enroller : e = f
  PROVE  Spec => RefusalStands
<1>1. ASSUME TypeOK, EnrollInv, Next, NEW c \in Case, Refused(c)
      PROVE  approval'[c] = approval[c] \/ approvedBy'[c] = "operator"
  <2>0. /\ approval \in [Case -> ApprovalStatus]
        /\ approvedBy \in [Case -> ApprovalSource]
    BY <1>1 DEF TypeOK
  <2>1. ASSUME NEW e \in Enroller, NEW s \in ApprovalStatus, EnrollApprove(e, s)
        PROVE  approval'[c] = approval[c]
    <3>1. rowStatus[enroller[e].auto][enroller[e].case] = "none" /\ enroller[e].auto \in Automation
      BY <1>1, <2>1 DEF EnrollApprove, EnrollInv
    <3>2. enroller[e].case # c
      BY <1>1, <3>1 DEF Refused, Enrolled
    <3> QED BY <2>0, <2>1, <3>2 DEF EnrollApprove, caseVars
  <2>2. ASSUME NEW a \in Automation, NEW S \in SUBSET Case,
               \/ BulkApprove(a, S)
               \/ \E o \in Operator : BulkReject(o, a, S) \/ BulkExclude(o, a, S)
        PROVE  approval'[c] = approval[c] \/ approvedBy'[c] = "operator"
    BY <2>2, SMTT(30) DEF BulkApprove, BulkReject, BulkExclude, BulkRefuse
  <2>3. CASE EnrollStep
    BY <2>1, <2>3 DEF EnrollStep, EnrollRequest, EnrollList, EnrollCheck, EnrollCreate, EnrollSkip,
       EnrollEnd, caseVars
  <2>4. CASE DecisionStep
    BY <2>2, <2>4 DEF DecisionStep, CloseRows, RefuseFail, caseVars
  <2>5. CASE AutomationStep \/ CaseStep
    BY <2>5, ZenonT(40) DEF AutomationStep, Create, Activate, Pause, Stop, SetStatus, Delete, CaseStep,
       OpenDispute, ResolveDispute, PauseCase, ResumeCase, SetRow, RunStrategy, RunRecorded,
       RunFails, PaceChanges, caseVars
  <2>6. ASSUME NEW t \in Tick, StartTick(t) \/ TickStep(t) \/ TickFault(t)
        PROVE  approval' = approval
    BY <2>6 DEF StartTick, TickStep, TickFault, SelectRows, ReadDisputes, SkipRow, Dispatch,
       RecordAttempt, FinishAutomation, FailAutomation, CrashTick, caseVars
  <2> QED BY <1>1, <2>3, <2>4, <2>5, <2>6 DEF Next
<1>2. TypeOK /\ EnrollInv /\ [Next]_vars =>
        [\A c \in Case : Refused(c) => approval'[c] = approval[c]
                                         \/ approvedBy'[c] = "operator"]_vars
  BY <1>1
<1>3. Init => EnrollInv
  BY DEF Init, EnrollInv, IdleEnroller
<1>4. TypeOK /\ EnrollInv /\ [Next]_vars => EnrollInv'
  BY EnrollNext
<1> QED BY <1>2, <1>3, <1>4, TypeCorrect, PTL DEF Spec, RefusalStands
=============================================================================
