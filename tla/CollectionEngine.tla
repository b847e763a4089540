-------------------------- MODULE CollectionEngine --------------------------
(***************************************************************************)
(* The collection engine: which cases the 15-minute tick may contact.      *)
(*                                                                         *)
(* An automation applies a strategy to the debt cases enrolled in it.  A   *)
(* row of case_automation_state ties one case to one automation; operators *)
(* approve, reject, exclude, pause and resume cases while enrolment runs   *)
(* and while the tick walks over a page of rows it read earlier.  Nothing  *)
(* is locked and nothing runs in a transaction: every await is a place     *)
(* where another handler may run, and is a step boundary here.             *)
(*                                                                         *)
(* The spacing of attempts (cooldown, weekly budget, promises) is the      *)
(* subject of DispatchPacing; here a row is only "ready", "held" by one of *)
(* those rules, or "waiting" for its nextActionAt.  Which stage a row is   *)
(* in, and so which channels are used, is the subject of StageSelection.   *)
(***************************************************************************)
EXTENDS Naturals, FiniteSets

CONSTANTS
  Automation,    \* automations of one PMS connection
  Case,          \* debt cases of the tenant
  Tick,          \* ticks that may be under way at once (worker slots)
  Enroller,      \* enroll() calls that may be under way at once
  Operator,      \* reject/exclude requests that may be under way at once
  NoAutomation,  \* "no automation" in a local variable
  NoCase,        \* "no case", and what reading an absent key gives
  ApprovalMode,  \* the approvalMode of each automation
  PageLimit      \* rows one tick reads per automation (100 in the code)

ApprovalModes   == {"AUTO", "REQUIRE_APPROVAL", "HYBRID"}
ApprovalStatus  == {"PENDING_APPROVAL", "APPROVED", "REJECTED", "EXCLUDED"}
\* Who wrote the present approval status: the column default of a new case,
\* an enrolment, or an operator.
ApprovalSource  == {"default", "enroll", "operator"}
AutomationState == {"none", "paused", "active", "stopped", "deleted"}
RowStatus       == {"none", "active", "paused", "closed"}
Pace            == {"ready", "held", "waiting"}

ASSUME NoneAssumption  == NoAutomation \notin Automation /\ NoCase \notin Case
ASSUME ModeAssumption  == ApprovalMode \in [Automation -> ApprovalModes]
ASSUME LimitAssumption == PageLimit \in Nat \ {0}

VARIABLES
  automationStatus,  \* collection_automations.status
  approval,          \* debt_cases.approval_status: one per case, not per row
  approvedBy,        \* history: who wrote approval
  rowStatus,         \* case_automation_state.status
  pace,              \* where the row stands with the pacing rules
  openDispute,       \* cases with a dispute in status OPEN
  onDemand,          \* rows that a run on demand is contacting, its checks passed
  tick,              \* the local variables of each tick under way
  enroller,          \* the local variables of each enroll() under way
  operator,          \* the local variables of each reject or exclude request
  late               \* history: late dispatches, see TrackLate

caseVars == <<approval, approvedBy>>
rowVars  == <<rowStatus, pace>>
procVars == <<tick, enroller, operator>>
vars     == <<automationStatus, approval, approvedBy, rowStatus, pace,
              openDispute, onDemand, tick, enroller, operator, late>>

TickRecord == [
  phase    : {"idle", "select", "disputes", "visit", "record"},
  pending  : SUBSET Automation,             \* loaded and not processed yet
  current  : Automation \cup {NoAutomation},
  due      : SUBSET Case,                   \* rows of the page still to visit
  fit      : SUBSET Case,                   \* rows the page shows as allowed
  disputed : SUBSET Case,                   \* rows the dispute query returned
  hand     : Case \cup {NoCase}]            \* row being dispatched

IdleTick == [phase |-> "idle", pending |-> {}, current |-> NoAutomation,
             due |-> {}, fit |-> {}, disputed |-> {}, hand |-> NoCase]

EnrollRecord == [
  phase : {"idle", "list", "visit", "approve", "create"},
  auto  : Automation \cup {NoAutomation},
  todo  : SUBSET Case,
  seen  : [Case -> ApprovalStatus],         \* approvals as the list read them
  case  : Case \cup {NoCase}]

IdleEnroller == [phase |-> "idle", auto |-> NoAutomation, todo |-> {},
                 seen |-> [c \in Case |-> "APPROVED"], case |-> NoCase]

OperatorRecord == [auto : Automation \cup {NoAutomation}, cases : SUBSET Case]

IdleOperator == [auto |-> NoAutomation, cases |-> {}]

(***************************************************************************)
(* History of late dispatches.  A tick works on what it read, so it may    *)
(* contact a case after the decision that forbids it.  late[w][a][c][t]    *)
(* counts what tick slot t dispatched of row <<a, c>> since w last         *)
(* allowed it, where w is one of                                           *)
(*   "row":        the row is active and its case approved (one SQL join), *)
(*   "automation": the automation is active (read when the tick starts).   *)
(***************************************************************************)
Why == {"row", "automation"}

Contactable(a, c) == rowStatus[a][c] = "active" /\ approval[c] = "APPROVED"

Allows(w, a, c) == IF w = "row" THEN Contactable(a, c)
                                ELSE automationStatus[a] = "active"

Dispatched(t, a, c) ==
  /\ tick[t].phase = "visit"
  /\ tick'[t].phase = "record"
  /\ tick[t].current = a
  /\ tick'[t].hand = c

TrackLate ==
  late' = [w \in Why |-> [a \in Automation |-> [c \in Case |-> [t \in Tick |->
            IF Allows(w, a, c)' THEN 0
            ELSE late[w][a][c][t] + (IF Dispatched(t, a, c) THEN 1 ELSE 0)]]]]

-----------------------------------------------------------------------------
TypeOK ==
  /\ automationStatus \in [Automation -> AutomationState]
  /\ approval \in [Case -> ApprovalStatus]
  /\ approvedBy \in [Case -> ApprovalSource]
  /\ rowStatus \in [Automation -> [Case -> RowStatus]]
  /\ pace \in [Automation -> [Case -> Pace]]
  /\ openDispute \in SUBSET Case
  /\ onDemand \in SUBSET (Automation \X Case)
  /\ tick \in [Tick -> TickRecord]
  /\ enroller \in [Enroller -> EnrollRecord]
  /\ operator \in [Operator -> OperatorRecord]
  /\ late \in [Why -> [Automation -> [Case -> [Tick -> Nat]]]]

Init ==
  /\ automationStatus = [a \in Automation |-> "none"]
  /\ approval = [c \in Case |-> "APPROVED"]
  /\ approvedBy = [c \in Case |-> "default"]
  /\ rowStatus = [a \in Automation |-> [c \in Case |-> "none"]]
  /\ pace = [a \in Automation |-> [c \in Case |-> "waiting"]]
  /\ openDispute = {}
  /\ onDemand = {}
  /\ tick = [t \in Tick |-> IdleTick]
  /\ enroller = [e \in Enroller |-> IdleEnroller]
  /\ operator = [o \in Operator |-> IdleOperator]
  /\ late = [w \in Why |-> [a \in Automation |-> [c \in Case |->
               [t \in Tick |-> 0]]]]

Exists(a) == automationStatus[a] \notin {"none", "deleted"}

Enrolled(a) == {c \in Case : rowStatus[a][c] # "none"}

-----------------------------------------------------------------------------
(***************************************************************************)
(* Automations: create (which goes on to enroll), activate, pause, stop    *)
(* and delete.  activate has no guard on the present status.               *)
(***************************************************************************)
SetStatus(a, s) ==
  /\ Exists(a)
  /\ automationStatus' = [automationStatus EXCEPT ![a] = s]
  /\ UNCHANGED <<caseVars, rowVars, openDispute, onDemand, procVars>>

Create(a, e) ==
  /\ automationStatus[a] = "none"
  /\ enroller[e].phase = "idle"
  /\ automationStatus' = [automationStatus EXCEPT ![a] = "paused"]
  /\ enroller' = [enroller EXCEPT ![e] = [@ EXCEPT !.phase = "list", !.auto = a]]
  /\ UNCHANGED <<caseVars, rowVars, openDispute, onDemand, tick, operator>>

Activate(a) == SetStatus(a, "active")
Pause(a)    == SetStatus(a, "paused")
Stop(a)     == SetStatus(a, "stopped")

\* The foreign key of case_automation_state cascades.
Delete(a) ==
  /\ Exists(a)
  /\ automationStatus' = [automationStatus EXCEPT ![a] = "deleted"]
  /\ rowStatus' = [rowStatus EXCEPT ![a] = [c \in Case |-> "none"]]
  /\ UNCHANGED <<caseVars, pace, openDispute, onDemand, procVars>>

-----------------------------------------------------------------------------
(***************************************************************************)
(* Enrolment.  The list of cases is read once, with their approval status; *)
(* each case is then checked for a row, given the approval status the      *)
(* automation's mode calls for, and given a row that is due at once.       *)
(***************************************************************************)
Resolved(a) ==
  CASE ApprovalMode[a] = "AUTO"             -> {"APPROVED"}
    [] ApprovalMode[a] = "REQUIRE_APPROVAL" -> {"PENDING_APPROVAL"}
    [] ApprovalMode[a] = "HYBRID"           -> {"APPROVED", "PENDING_APPROVAL"}

EnrollRequest(e, a) ==
  /\ enroller[e].phase = "idle"
  /\ Exists(a)
  /\ enroller' = [enroller EXCEPT ![e] = [@ EXCEPT !.phase = "list", !.auto = a]]
  /\ UNCHANGED <<automationStatus, caseVars, rowVars, openDispute, onDemand, tick, operator>>

\* Either the ids the caller names, enrolled or not, or a subset of the
\* cases without a row: those whose case status is eligible.
EnrollList(e, S) ==
  /\ enroller[e].phase = "list"
  /\ enroller' = [enroller EXCEPT ![e] =
                    [@ EXCEPT !.phase = "visit", !.todo = S, !.seen = approval]]
  /\ UNCHANGED <<automationStatus, caseVars, rowVars, openDispute, onDemand, tick, operator>>

\* The look for a row of the case in the automation, and its mutation: left
\* to the unique constraint.
HasRowDropped(a, c) == FALSE
HasRow(a, c)        == c \in Enrolled(a)

EnrollCheck(e, c) ==
  /\ enroller[e].phase = "visit"
  /\ c \in enroller[e].todo
  /\ enroller' = [enroller EXCEPT ![e] =
                    IF HasRow(enroller[e].auto, c)
                      THEN [@ EXCEPT !.todo = enroller[e].todo \ {c}]
                      ELSE [@ EXCEPT !.phase = "approve", !.todo = enroller[e].todo \ {c},
                                     !.case = c]]
  /\ UNCHANGED <<automationStatus, caseVars, rowVars, openDispute, onDemand, tick, operator>>

\* The status is written when it differs from the one the list read; the
\* mutation keeps a case that was approved already.
WriteUnlessApproved(seen, s) == seen # s /\ seen # "APPROVED"
WriteNeeded(seen, s)         == seen # s

EnrollApprove(e, s) ==
  LET c == enroller[e].case IN
  /\ enroller[e].phase = "approve"
  /\ s \in Resolved(enroller[e].auto)
  /\ IF WriteNeeded(enroller[e].seen[c], s)
       THEN /\ approval' = [approval EXCEPT ![c] = s]
            /\ approvedBy' = [approvedBy EXCEPT ![c] = "enroll"]
       ELSE UNCHANGED caseVars
  /\ enroller' = [enroller EXCEPT ![e] = [@ EXCEPT !.phase = "create"]]
  /\ UNCHANGED <<automationStatus, rowVars, openDispute, onDemand, tick, operator>>

\* The unique constraint on (case, automation) rejects a second row and the
\* foreign key one of a deleted automation: an error of this case only.
EnrollCreate(e) ==
  LET a == enroller[e].auto
      c == enroller[e].case
  IN
  /\ enroller[e].phase = "create"
  /\ IF rowStatus[a][c] = "none" /\ Exists(a)
       THEN /\ rowStatus' = [rowStatus EXCEPT ![a][c] = "active"]
            /\ pace' = [pace EXCEPT ![a][c] = "ready"]
       ELSE UNCHANGED rowVars
  /\ enroller' = [enroller EXCEPT ![e] = [@ EXCEPT !.phase = "visit", !.case = NoCase]]
  /\ UNCHANGED <<automationStatus, caseVars, openDispute, onDemand, tick, operator>>

\* No stage for the case, or a failed query, which is caught per case.
EnrollSkip(e) ==
  /\ enroller[e].phase \in {"approve", "create"}
  /\ enroller' = [enroller EXCEPT ![e] = [@ EXCEPT !.phase = "visit", !.case = NoCase]]
  /\ UNCHANGED <<automationStatus, caseVars, rowVars, openDispute, onDemand, tick, operator>>

\* The end of the loop, an error of the list query, or a crash of the server.
EnrollEnd(e) ==
  /\ enroller[e].phase # "idle"
  /\ enroller' = [enroller EXCEPT ![e] = IdleEnroller]
  /\ UNCHANGED <<automationStatus, caseVars, rowVars, openDispute, onDemand, tick, operator>>

-----------------------------------------------------------------------------
(***************************************************************************)
(* Operator decisions.  Approval is one UPDATE of the case; rejection and  *)
(* exclusion are two: the case first, the row of this automation after.    *)
(***************************************************************************)
BulkApprove(a, S) ==
  /\ Exists(a)
  /\ S \subseteq Enrolled(a)
  /\ approval' = [c \in Case |-> IF c \in S THEN "APPROVED" ELSE approval[c]]
  /\ approvedBy' = [c \in Case |-> IF c \in S THEN "operator" ELSE approvedBy[c]]
  /\ UNCHANGED <<automationStatus, rowVars, openDispute, onDemand, procVars>>

BulkRefuse(o, a, S, verdict) ==
  /\ operator[o] = IdleOperator
  /\ Exists(a)
  /\ S \subseteq Enrolled(a)
  /\ approval' = [c \in Case |-> IF c \in S THEN verdict ELSE approval[c]]
  /\ approvedBy' = [c \in Case |-> IF c \in S THEN "operator" ELSE approvedBy[c]]
  /\ operator' = [operator EXCEPT ![o] = [auto |-> a, cases |-> S]]
  /\ UNCHANGED <<automationStatus, rowVars, openDispute, onDemand, tick, enroller>>

BulkReject(o, a, S)  == BulkRefuse(o, a, S, "REJECTED")
BulkExclude(o, a, S) == BulkRefuse(o, a, S, "EXCLUDED")

CloseRows(o) ==
  LET a == operator[o].auto IN
  /\ operator[o] # IdleOperator
  /\ rowStatus' = [rowStatus EXCEPT ![a] =
                     [c \in Case |-> IF c \in operator[o].cases /\ @[c] # "none"
                                       THEN "closed" ELSE @[c]]]
  /\ operator' = [operator EXCEPT ![o] = IdleOperator]
  /\ UNCHANGED <<automationStatus, caseVars, pace, openDispute, onDemand, tick, enroller>>

\* The second UPDATE fails, or the server crashes before it.
RefuseFail(o) ==
  /\ operator[o] # IdleOperator
  /\ operator' = [operator EXCEPT ![o] = IdleOperator]
  /\ UNCHANGED <<automationStatus, caseVars, rowVars, openDispute, onDemand, tick, enroller>>

\* case.service pause and resume, whatever the status of the row.  For a case
\* with several rows the handler is one such step per row.
SetRow(a, c, s) ==
  /\ c \in Enrolled(a)
  /\ rowStatus' = [rowStatus EXCEPT ![a][c] = s]
  /\ UNCHANGED <<automationStatus, caseVars, pace, openDispute, onDemand, procVars>>

\* Mutation of PauseCase: a status the column's CHECK does not list.
HoldCase(a, c)   == SetRow(a, c, "on_hold")
PauseCase(a, c)  == SetRow(a, c, "paused")
ResumeCase(a, c) == SetRow(a, c, "active")

\* At most one OPEN dispute per case: checked first, and a unique index.
OpenDispute(c) ==
  /\ c \notin openDispute
  /\ openDispute' = openDispute \cup {c}
  /\ UNCHANGED <<automationStatus, caseVars, rowVars, onDemand, procVars>>

ResolveDispute(c) ==
  /\ c \in openDispute
  /\ openDispute' = openDispute \ {c}
  /\ UNCHANGED <<automationStatus, caseVars, rowVars, onDemand, procVars>>

\* A run on demand, of a stage with channels (of one without it does nothing):
\* the row, its case and its disputes are read, then a job per channel is put
\* on the queue, unless it has no template or there is no queue.  Whatever was
\* queued of them, the row is then written due at once, held by the cooldown.
RunStrategy(a, c) ==
  /\ <<a, c>> \notin onDemand
  /\ c \in Enrolled(a)
  /\ approval[c] = "APPROVED"
  /\ c \notin openDispute
  /\ onDemand' = onDemand \cup {<<a, c>>}
  /\ UNCHANGED <<automationStatus, caseVars, rowVars, openDispute, procVars>>

\* The row is written as it was found, whatever a tick or a manager wrote since.
RunRecorded(a, c) ==
  /\ <<a, c>> \in onDemand
  /\ pace' = [pace EXCEPT ![a][c] = "held"]
  /\ onDemand' = onDemand \ {<<a, c>>}
  /\ UNCHANGED <<automationStatus, caseVars, rowStatus, openDispute, procVars>>

\* A query fails, or the server crashes, after any of the jobs.
RunFails(a, c) ==
  /\ <<a, c>> \in onDemand
  /\ onDemand' = onDemand \ {<<a, c>>}
  /\ UNCHANGED <<automationStatus, caseVars, rowVars, openDispute, procVars>>

\* Time passes: nextActionAt is reached, a rule of DispatchPacing starts or
\* stops holding the row.
PaceChanges(a, c, p) ==
  /\ c \in Enrolled(a)
  /\ p \in {"ready", "held"}
  /\ p # pace[a][c]
  /\ pace' = [pace EXCEPT ![a][c] = p]
  /\ UNCHANGED <<automationStatus, caseVars, rowStatus, openDispute, onDemand, procVars>>

-----------------------------------------------------------------------------
(***************************************************************************)
(* The tick: load the active automations; for each of them read a page of  *)
(* due rows with their cases, then the open disputes, then visit the rows. *)
(***************************************************************************)
\* The mutation reads rows of every status.
DueRowsAnyStatus(a) == {c \in Enrolled(a) : pace[a][c] \in {"ready", "held"}}

DueRows(a) == {c \in Case : rowStatus[a][c] = "active"
                             /\ pace[a][c] \in {"ready", "held"}}

\* LIMIT without ORDER BY: the database may return any rows that match.
Pages(a) ==
  {S \in SUBSET DueRows(a) :
     \/ S = DueRows(a) /\ Cardinality(S) <= PageLimit
     \/ Cardinality(S) = PageLimit}

\* The rows of the query are keyed debtCaseId; the code reads debt_case_id
\* of them, which is undefined.
OpenDisputeCaseIds(t) == {NoCase : c \in tick[t].disputed}

ActiveAutomations == {a \in Automation : automationStatus[a] = "active"}

StartTick(t) ==
  /\ tick[t].phase = "idle"
  /\ ActiveAutomations # {}
  /\ tick' = [tick EXCEPT ![t] = [@ EXCEPT !.phase = "select",
                                          !.pending = ActiveAutomations]]
  /\ UNCHANGED <<automationStatus, caseVars, rowVars, openDispute, onDemand, enroller, operator>>

SelectRows(t, a, S) ==
  /\ tick[t].phase = "select"
  /\ a \in tick[t].pending
  /\ S \in Pages(a)
  /\ tick' = [tick EXCEPT ![t] =
                [@ EXCEPT !.phase = "disputes", !.pending = tick[t].pending \ {a},
                          !.current = a, !.due = S,
                          !.fit = {c \in S : approval[c] = "APPROVED"
                                             /\ pace[a][c] = "ready"}]]
  /\ UNCHANGED <<automationStatus, caseVars, rowVars, openDispute, onDemand, enroller, operator>>

ReadDisputes(t) ==
  /\ tick[t].phase = "disputes"
  /\ tick' = [tick EXCEPT ![t] =
                [@ EXCEPT !.phase = "visit",
                          !.disputed = tick[t].due \cap openDispute]]
  /\ UNCHANGED <<automationStatus, caseVars, rowVars, openDispute, onDemand, enroller, operator>>

SkipRow(t, c) ==
  /\ tick[t].phase = "visit"
  /\ c \in tick[t].due
  /\ c \notin tick[t].fit \/ c \in OpenDisputeCaseIds(t)
  /\ tick' = [tick EXCEPT ![t] = [@ EXCEPT !.due = tick[t].due \ {c}]]
  /\ UNCHANGED <<automationStatus, caseVars, rowVars, openDispute, onDemand, enroller, operator>>

\* The jobs of the stage's channels go on the case-actions queue.
Dispatch(t, c) ==
  /\ tick[t].phase = "visit"
  /\ c \in tick[t].due
  /\ c \in tick[t].fit
  /\ c \notin OpenDisputeCaseIds(t)
  /\ tick' = [tick EXCEPT ![t] =
                [@ EXCEPT !.phase = "record", !.due = tick[t].due \ {c}, !.hand = c]]
  /\ UNCHANGED <<automationStatus, caseVars, rowVars, openDispute, onDemand, enroller, operator>>

\* Mutation of RecordAttempt: nextActionAt is left where it was.
RecordAttemptOnly(t) ==
  /\ tick[t].phase = "record"
  /\ tick' = [tick EXCEPT ![t] = [@ EXCEPT !.phase = "visit", !.hand = NoCase]]
  /\ UNCHANGED <<automationStatus, caseVars, rowVars, openDispute, onDemand, enroller, operator>>

\* state.update: nextActionAt is moved by the cooldown; a deleted row is not
\* brought back.
RecordAttempt(t) ==
  LET a == tick[t].current IN
  /\ tick[t].phase = "record"
  /\ pace' = [pace EXCEPT ![a][tick[t].hand] = "waiting"]
  /\ tick' = [tick EXCEPT ![t] = [@ EXCEPT !.phase = "visit", !.hand = NoCase]]
  /\ UNCHANGED <<automationStatus, caseVars, rowStatus, openDispute, onDemand, enroller, operator>>

\* The next automation, or the end of the tick.
NextAutomation(t) ==
  tick' = [tick EXCEPT ![t] =
             IF tick[t].pending = {} THEN IdleTick
             ELSE [IdleTick EXCEPT !.phase = "select",
                                   !.pending = tick[t].pending]]

FinishAutomation(t) ==
  /\ tick[t].phase = "visit"
  /\ tick[t].due = {}
  /\ NextAutomation(t)
  /\ UNCHANGED <<automationStatus, caseVars, rowVars, openDispute, onDemand, enroller, operator>>

\* An error anywhere in the loop body is caught per automation: the rest of
\* the page is dropped, and a row already dispatched may stay unrecorded.
FailAutomation(t) ==
  /\ tick[t].phase \in {"disputes", "visit", "record"}
  /\ NextAutomation(t)
  /\ UNCHANGED <<automationStatus, caseVars, rowVars, openDispute, onDemand, enroller, operator>>

CrashTick(t) ==
  /\ tick[t].phase # "idle"
  /\ tick' = [tick EXCEPT ![t] = IdleTick]
  /\ UNCHANGED <<automationStatus, caseVars, rowVars, openDispute, onDemand, enroller, operator>>

-----------------------------------------------------------------------------
AutomationStep ==
  \E a \in Automation :
    \/ \E e \in Enroller : Create(a, e)
    \/ Activate(a) \/ Pause(a) \/ Stop(a) \/ Delete(a)

EnrollStep ==
  \E e \in Enroller :
    \/ \E a \in Automation : EnrollRequest(e, a)
    \/ \E S \in SUBSET Case : EnrollList(e, S)
    \/ \E c \in Case : EnrollCheck(e, c)
    \/ \E s \in ApprovalStatus : EnrollApprove(e, s)
    \/ EnrollCreate(e) \/ EnrollSkip(e) \/ EnrollEnd(e)

DecisionStep ==
  \/ \E a \in Automation, S \in SUBSET Case \ {{}} :
       \/ BulkApprove(a, S)
       \/ \E o \in Operator : BulkReject(o, a, S) \/ BulkExclude(o, a, S)
  \/ \E o \in Operator : CloseRows(o) \/ RefuseFail(o)

CaseStep ==
  \E c \in Case :
    \/ OpenDispute(c) \/ ResolveDispute(c)
    \/ \E a \in Automation :
         \/ PauseCase(a, c) \/ ResumeCase(a, c)
         \/ RunStrategy(a, c) \/ RunRecorded(a, c) \/ RunFails(a, c)
    \/ \E a \in Automation, p \in Pace : PaceChanges(a, c, p)

TickStep(t) ==
  \/ \E a \in Automation, S \in SUBSET Case : SelectRows(t, a, S)
  \/ ReadDisputes(t)
  \/ \E c \in Case : SkipRow(t, c) \/ Dispatch(t, c)
  \/ RecordAttempt(t)
  \/ FinishAutomation(t)

TickFault(t) == FailAutomation(t) \/ CrashTick(t)

Next ==
  /\ \/ AutomationStep
     \/ EnrollStep
     \/ DecisionStep
     \/ CaseStep
     \/ \E t \in Tick : StartTick(t) \/ TickStep(t) \/ TickFault(t)
  /\ TrackLate

Spec == Init /\ [][Next]_vars
-----------------------------------------------------------------------------
(***************************************************************************)
(* Properties                                                              *)
(***************************************************************************)

\* Whatever takes a row or an automation out of the engine - a pause, a
\* rejection, an exclusion, a stop, a delete - each tick already under way
\* contacts the case at most once more, however long it runs and however the
\* decisions interleave with its reads.
LateAtMostOncePerTick ==
  \A w \in Why, a \in Automation, c \in Case, t \in Tick : late[w][a][c][t] <= 1

\* Why that holds, as an inductive invariant.  A slot carries a row for w as
\* long as what it has read lets it dispatch the row although w may forbid it
\* by now; once it has dispatched the row late it carries it no more, and it
\* can only pick it up again by reading a state in which w allows it.
Carries(w, t, a, c) ==
  LET k == tick[t] IN
  IF w = "row" THEN k.current = a /\ c \in k.due /\ c \in k.fit
               ELSE a \in k.pending \/ (k.current = a /\ c \in k.due)

SlotOK(t) ==
  /\ tick[t].current \notin tick[t].pending
  /\ tick[t].phase \in {"idle", "select"} => tick[t].current = NoAutomation

LateOK(w, a, c, t) ==
  /\ late[w][a][c][t] <= 1
  /\ Allows(w, a, c) => late[w][a][c][t] = 0
  /\ late[w][a][c][t] = 1 => ~Carries(w, t, a, c)

LateInv ==
  /\ \A t \in Tick : SlotOK(t)
  /\ \A w \in Why, a \in Automation, c \in Case, t \in Tick : LateOK(w, a, c, t)

\* A case enrolled in an automation that requires approval is APPROVED only
\* by an operator's decision: neither the default of the column nor another
\* enrolment lets the tick contact it unreviewed.  It rests on enroll()
\* writing the approval status before it creates the row.
ReviewedBeforeContact ==
  \A a \in Automation, c \in Case :
    /\ ApprovalMode[a] = "REQUIRE_APPROVAL"
    /\ rowStatus[a][c] # "none"
    /\ approval[c] = "APPROVED"
    => approvedBy[c] = "operator"

\* Why it holds when every automation requires approval, as an inductive
\* invariant: enrolment only ever writes PENDING_APPROVAL, and a case whose
\* status is still the column's default has no row and none on the way.
AllReviewed == \A a \in Automation : ApprovalMode[a] = "REQUIRE_APPROVAL"

Untouched(c) ==
  /\ approval[c] = "APPROVED"
  /\ \A a \in Automation : rowStatus[a][c] = "none"
  /\ \A e \in Enroller : /\ enroller[e].seen[c] = "APPROVED"
                         /\ enroller[e].phase = "create" => enroller[e].case # c

ReviewInv ==
  /\ \A c \in Case : /\ approvedBy[c] = "enroll" => approval[c] # "APPROVED"
                     /\ approvedBy[c] = "default" => Untouched(c)
  /\ \A e \in Enroller :
       /\ enroller[e].phase # "idle" => enroller[e].auto \in Automation
       /\ enroller[e].phase \in {"approve", "create"} => enroller[e].case \in Case

\* Enrolment never takes back an operator's refusal of an enrolled case: it
\* stays rejected or excluded until an operator decides again.  It holds
\* with one automation and one enroll() at a time; a second automation, a
\* second enroll() or a delete in the middle of one would break it.
Refused(c) ==
  /\ approval[c] \in {"REJECTED", "EXCLUDED"}
  /\ approvedBy[c] = "operator"
  /\ \E a \in Automation : c \in Enrolled(a)

RefusalStands ==
  [][\A c \in Case : Refused(c) => approval'[c] = approval[c]
                                  \/ approvedBy'[c] = "operator"]_vars

\* A row that stays due, approved and active under an active automation is
\* not passed over for ever by the ticks.
Eligible(a, c) ==
  automationStatus[a] = "active" /\ Contactable(a, c) /\ pace[a][c] = "ready"

EveryEligibleRowDispatched ==
  \A a \in Automation, c \in Case : ~<>[]Eligible(a, c)

\* The tick runs every 15 minutes and its worker goes on while it is up; no
\* fairness for operators, enrolment, time or faults.
TickFairness == \A t \in Tick : WF_vars(StartTick(t) /\ TrackLate)
                             /\ WF_vars(TickStep(t) /\ TrackLate)

\* The tick dispatches no case that its own query for open disputes returned
\* (docs/CASE_APPROVAL_AND_DISPUTES.md:113, migration 055, case-dispute.model.js:2).
NoDispatchDuringDispute ==
  [][\A t \in Tick, a \in Automation, c \in Case :
       Dispatched(t, a, c) => c \notin tick[t].disputed]_vars
=============================================================================
