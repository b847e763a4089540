---------------------------- MODULE PmsSyncProofs ----------------------------
(***************************************************************************)
(* Proofs about PmsSync: the types, that a process in the middle of a sync *)
(* owns the active row, and that the module implements SyncSlot.           *)
(***************************************************************************)
EXTENDS PmsSync, TLAPS

\* A job that waits in the queue has an attempt left.
QueuedHasAttempt == \A r \in Manual : task[r] = "queued" => tries[r] < 2

TypeInv == TypeOK /\ QueuedHasAttempt

\* The steps of every kind of task are steps.
LEMMA StepsTyped == ASSUME NEW k \in Kind PROVE StepsOf(k) \in Seq(Step)
<1>1. \A s \in Step : <<s>> \in Seq(Step) /\ \A t \in Step : <<s, t>> \in Seq(Step)
  OBVIOUS
<1>2. ALL_STEPS \in Seq(Step)
  BY DEF ALL_STEPS, Step
<1>3. CASE k = "hourly"
  BY <1>1, <1>3 DEF StepsOf, Step
<1>4. CASE k = "daily"
  BY <1>1, <1>4 DEF StepsOf, Step
<1>5. CASE k # "hourly" /\ k # "daily"
  BY <1>2, <1>5 DEF StepsOf
<1> QED
  BY <1>3, <1>4, <1>5

\* No kind of job is tried more than twice.
LEMMA AttemptsBounded == ASSUME NEW k \in Kind PROVE Attempts(k) \in 0..2
  BY DEF Attempts

\* A request, and a maintenance task, is a process.
LEMMA ManualIsProc == /\ \A r \in Manual : r \in Proc
                      /\ \A m \in Maint : m \in Proc
  BY DEF Proc

\* The initial states have their types.
LEMMA TypeInit == Init => TypeInv
<1> SUFFICES ASSUME Init PROVE TypeInv
  OBVIOUS
<1>1. left \in [Proc -> Seq(Step)]
  BY DEF Init
<1>2. status \in ConnectionStatus /\ kind \in [Proc -> Kind] /\ seen \in [Manual -> ConnectionStatus]
  BY DEF Init, ConnectionStatus, Kind, ManualKind
<1>5. \A r \in Manual : kind[r] \in ManualKind
  BY ManualIsProc DEF Init, ManualKind
<1>3. /\ lock \in Proc \cup {NoProc} /\ active \in Proc \cup {NoProc}
      /\ writer \in [Step -> Proc \cup {NoProc}] /\ cases \in SUBSET Lease
      /\ request \in [Manual -> RequestPhase] /\ task \in [Proc -> TaskPhase]
      /\ tries \in [Manual -> 0..2]
  BY DEF Init, RequestPhase, TaskPhase
<1>4. QueuedHasAttempt
  BY ManualIsProc DEF Init, QueuedHasAttempt
<1> QED
  BY <1>1, <1>2, <1>3, <1>4, <1>5 DEF TypeInv, TypeOK

\* Requests and the worker that takes their jobs.
LEMMA TypeRequest ==
  ASSUME TypeInv, NEW r \in Manual, RequestStep(r) \/ TakeJob(r)
  PROVE  TypeInv'
<1> USE ManualIsProc
<1>1. ASSUME NEW k \in ManualKind, RequestLoad(r, k) PROVE TypeInv'
  BY <1>1 DEF RequestLoad, TypeInv, TypeOK, QueuedHasAttempt, Goto, TaskPhase, RequestPhase, ManualKind, Kind
<1>2. CASE RequestConflict(r)
  BY <1>2 DEF RequestConflict, TypeInv, TypeOK, QueuedHasAttempt, Goto, TaskPhase, RequestPhase
<1>3. CASE RequestLock(r)
  BY <1>3 DEF RequestLock, AcquireLock, TypeInv, TypeOK, QueuedHasAttempt, Goto, TaskPhase, RequestPhase
<1>4. CASE RequestFail(r)
  BY <1>4 DEF RequestFail, TypeInv, TypeOK, QueuedHasAttempt, Goto, TaskPhase, RequestPhase
<1>5. CASE RequestEnqueue(r)
  BY <1>5 DEF RequestEnqueue, Forget, ConnectionStatus, TypeInv, TypeOK, QueuedHasAttempt, Goto, TaskPhase, RequestPhase
<1>6. CASE RequestMark(r)
  BY <1>6 DEF RequestMark, ConnectionStatus, TypeInv, TypeOK, QueuedHasAttempt, Goto, TaskPhase, RequestPhase
<1>7. CASE TakeJob(r)
  <2> DEFINE next == IF LooksAtStatus(kind[r]) THEN "check" ELSE kind[r]
             loaded == IF kind[r] = "flow" THEN status ELSE seen[r]
  <2>1. next \in TaskPhase /\ next # "queued"
    BY DEF TypeInv, TypeOK, LooksAtStatus, ManualKind, TaskPhase
  <2>2. loaded \in ConnectionStatus
    BY DEF TypeInv, TypeOK
  <2>3. task' = [task EXCEPT ![r] = next] /\ seen' = [seen EXCEPT ![r] = loaded]
    BY <1>7 DEF TakeJob, Goto
  <2> HIDE DEF next, loaded
  <2>4. tries' \in [Manual -> 0..2] /\ \A q \in Manual : q # r => tries'[q] = tries[q]
    <3>1. tries \in [Manual -> 0..2] /\ tries[r] < 2
      BY <1>7 DEF TakeJob, TypeInv, TypeOK, QueuedHasAttempt
    <3>2. tries[r] + 1 \in 0..2
      BY <3>1
    <3>3. tries' = [tries EXCEPT ![r] = tries[r] + 1]
      BY <1>7 DEF TakeJob
    <3> QED
      BY <3>1, <3>2, <3>3
  <2>5. UNCHANGED <<status, lock, active, writer, cases, request, kind, left>>
    BY <1>7 DEF TakeJob
  <2> QED
    BY <2>1, <2>2, <2>3, <2>4, <2>5 DEF TypeInv, TypeOK, QueuedHasAttempt
<1> QED
  BY <1>1, <1>2, <1>3, <1>4, <1>5, <1>6, <1>7 DEF RequestStep

\* Maintenance.
LEMMA TypeMaint ==
  ASSUME TypeInv, NEW m \in Maint, MaintStep(m)
  PROVE  TypeInv'
<1> USE ManualIsProc, ProcAssumption
<1>1. ASSUME NEW k \in {"hourly", "daily"}, MaintList(m, k) PROVE TypeInv'
  <2>1. m \in Proc /\ m \notin Manual
    OBVIOUS
  <2>2. kind' \in [Proc -> Kind] /\ \A r \in Manual : kind'[r] \in ManualKind
    BY <1>1, <2>1 DEF MaintList, TypeInv, TypeOK, Kind
  <2>3. task' \in [Proc -> TaskPhase] /\ \A r \in Manual : task'[r] = task[r]
    BY <1>1, <2>1 DEF MaintList, Goto, TypeInv, TypeOK, TaskPhase
  <2> QED
    BY <1>1, <2>2, <2>3 DEF MaintList, TypeInv, TypeOK, QueuedHasAttempt
<1>2. CASE MaintLock(m)
  BY <1>2 DEF MaintLock, AcquireLock, TypeInv, TypeOK, QueuedHasAttempt, Goto, TaskPhase, RequestPhase
<1>3. CASE MaintSkip(m)
  BY <1>3 DEF MaintSkip, TypeInv, TypeOK, QueuedHasAttempt, Goto, TaskPhase, RequestPhase
<1> QED
  BY <1>1, <1>2, <1>3 DEF MaintStep

\* The tasks.
LEMMA TypeTask ==
  ASSUME TypeInv, NEW p \in Proc, TaskStep(p) \/ TaskFault(p) \/ Crash(p)
  PROVE  TypeInv'
<1>1. CASE SyncCheck(p)
  BY <1>1 DEF SyncCheck, TypeInv, TypeOK, QueuedHasAttempt, Goto, TaskPhase, RequestPhase
<1>2. CASE SyncCreate(p)
  BY <1>2, StepsTyped DEF SyncCreate, TypeInv, TypeOK, QueuedHasAttempt, Goto, TaskPhase, RequestPhase
<1>3. CASE SyncStep(p)
  BY <1>3 DEF SyncStep, TypeInv, TypeOK, QueuedHasAttempt, Goto, TaskPhase, RequestPhase
<1>4. CASE SyncConnected(p)
  BY <1>4 DEF SyncConnected, ConnectionStatus, TypeInv, TypeOK, QueuedHasAttempt, Goto, TaskPhase, RequestPhase
<1>5. CASE SyncComplete(p)
  BY <1>5 DEF SyncComplete, CloseRow, AfterSync, TypeInv, TypeOK, QueuedHasAttempt, Goto, TaskPhase, RequestPhase
<1>6. CASE SyncError(p)
  BY <1>6 DEF SyncError, ConnectionStatus, TypeInv, TypeOK, QueuedHasAttempt, Goto, TaskPhase, RequestPhase
<1>7. CASE SyncClose(p)
  BY <1>7 DEF SyncClose, CloseRow, TypeInv, TypeOK, QueuedHasAttempt, Goto, TaskPhase, RequestPhase
<1>8. CASE Refresh(p)
  BY <1>8 DEF Refresh, TypeInv, TypeOK, QueuedHasAttempt, Goto, TaskPhase, RequestPhase
<1>9. CASE BuildNewCases(p)
  BY <1>9 DEF BuildNewCases, TypeInv, TypeOK, QueuedHasAttempt, Goto, TaskPhase, RequestPhase
<1>10. CASE FlowConnected(p)
  BY <1>10 DEF FlowConnected, ConnectionStatus, TypeInv, TypeOK, QueuedHasAttempt, Goto, TaskPhase, RequestPhase
<1>11. CASE FlowSyncError(p)
  BY <1>11 DEF FlowSyncError, ConnectionStatus, TypeInv, TypeOK, QueuedHasAttempt, Goto, TaskPhase, RequestPhase
<1>12. CASE SyncThrew(p)
  BY <1>12 DEF SyncThrew, TypeInv, TypeOK, QueuedHasAttempt, Goto, TaskPhase, RequestPhase
<1>13. CASE TaskThrew(p)
  <2> DEFINE next == IF p \in Maint THEN "drop"
                     ELSE IF tries[p] < Attempts(kind[p]) THEN "queued" ELSE "release"
  <2>1. next \in TaskPhase /\ (p \in Manual /\ next = "queued" => tries[p] < 2)
    <3>1. kind[p] \in Kind /\ (p \in Manual => tries[p] \in 0..2)
      BY DEF TypeInv, TypeOK
    <3>2. Attempts(kind[p]) \in 0..2
      BY <3>1, AttemptsBounded
    <3>3. p \in Manual /\ next = "queued" => tries[p] < Attempts(kind[p])
      BY ProcAssumption
    <3>4. next \in TaskPhase
      BY DEF TaskPhase
    <3> HIDE DEF next
    <3> QED
      BY <3>1, <3>2, <3>3, <3>4
  <2>2. task' = [task EXCEPT ![p] = next]
    BY <1>13 DEF TaskThrew, Goto
  <2> HIDE DEF next
  <2>3. UNCHANGED <<status, lock, active, writer, cases, request, kind, seen, left, tries>>
    BY <1>13 DEF TaskThrew
  <2> QED
    BY <2>1, <2>2, <2>3, ManualIsProc DEF TypeInv, TypeOK, QueuedHasAttempt
<1>14. CASE Release(p)
  BY <1>14 DEF Release, ReleaseLock, Forget, AfterRelease, ConnectionStatus, TypeInv, TypeOK, QueuedHasAttempt, Goto, TaskPhase, RequestPhase
<1>15. CASE SyncCreateFail(p)
  BY <1>15 DEF SyncCreateFail, TypeInv, TypeOK, QueuedHasAttempt, Goto, TaskPhase, RequestPhase
<1>16. CASE SyncFault(p)
  BY <1>16 DEF SyncFault, TypeInv, TypeOK, QueuedHasAttempt, Goto, TaskPhase, RequestPhase
<1>17. CASE SyncCloseFail(p)
  BY <1>17 DEF SyncCloseFail, TypeInv, TypeOK, QueuedHasAttempt, Goto, TaskPhase, RequestPhase
<1>18. CASE FollowFault(p)
  BY <1>18 DEF FollowFault, TypeInv, TypeOK, QueuedHasAttempt, Goto, TaskPhase, RequestPhase
<1>19. CASE Crash(p)
  <2>1. CASE Goto(p, "idle") /\ Forget(p)
    BY <1>19, <2>1 DEF Crash, Forget, ConnectionStatus, TypeInv, TypeOK, QueuedHasAttempt, Goto, TaskPhase, RequestPhase
  <2>2. CASE p \in Manual /\ tries[p] < 2 /\ Goto(p, "queued") /\ UNCHANGED <<seen, tries>>
    BY <1>19, <2>2 DEF Crash, TypeInv, TypeOK, QueuedHasAttempt, Goto, TaskPhase, RequestPhase
  <2> QED
    BY <1>19, <2>1, <2>2 DEF Crash
<1> QED
  BY <1>1, <1>2, <1>3, <1>4, <1>5, <1>6, <1>7, <1>8, <1>9, <1>10, <1>11, <1>12, <1>13, <1>14, <1>15, <1>16, <1>17, <1>18, <1>19 DEF TaskStep, TaskFault

\* Every step keeps the types.
LEMMA TypeNext == TypeInv /\ [Next]_vars => TypeInv'
<1> SUFFICES ASSUME TypeInv, [Next]_vars PROVE TypeInv'
  OBVIOUS
<1>1. ASSUME NEW s \in ConnectionStatus, UpdateStatus(s) PROVE TypeInv'
  BY <1>1 DEF UpdateStatus, TypeInv, TypeOK, QueuedHasAttempt
<1>2. CASE Expire
  BY <1>2 DEF Expire, TypeInv, TypeOK, QueuedHasAttempt
<1>3. CASE UNCHANGED vars
  BY <1>3 DEF vars, TypeInv, TypeOK, QueuedHasAttempt
<1> QED
  BY <1>1, <1>2, <1>3, TypeRequest, TypeMaint, TypeTask DEF Next

\* Type correctness, for every set of requests and maintenance tasks.
THEOREM SyncTypeCorrect == Spec => []TypeOK
<1>1. TypeInv => TypeOK
  BY DEF TypeInv
<1> QED
  BY <1>1, TypeInit, TypeNext, PTL DEF Spec

-----------------------------------------------------------------------------
(* Who owns the active row.                                                 *)

\* Nobody is in the middle of a sync at the start.
LEMMA OwnInit == Init => SyncOwnsRow
  BY DEF Init, SyncOwnsRow, InSync

\* Only the process itself moves between phases, and into the middle of a sync
\* only from there or with the row: all the others keep what they have as long
\* as the row stays with its owner.
LEMMA OwnTask ==
  ASSUME TypeInv, SyncOwnsRow, NEW p \in Proc,
         TaskStep(p) \/ TaskFault(p) \/ Crash(p)
  PROVE  SyncOwnsRow'
<1> USE ProcAssumption DEF TypeInv, TypeOK, SyncOwnsRow, InSync, Goto
<1>1. CASE SyncCheck(p)
  BY <1>1 DEF SyncCheck
<1>2. CASE SyncCreate(p)
  BY <1>2 DEF SyncCreate
<1>3. CASE SyncStep(p)
  BY <1>3 DEF SyncStep
<1>4. CASE SyncConnected(p)
  BY <1>4 DEF SyncConnected
<1>5. CASE SyncComplete(p)
  BY <1>5 DEF SyncComplete, CloseRow, AfterSync
<1>6. CASE SyncError(p)
  BY <1>6 DEF SyncError
<1>7. CASE SyncClose(p)
  BY <1>7 DEF SyncClose, CloseRow
<1>8. CASE Refresh(p)
  BY <1>8 DEF Refresh
<1>9. CASE BuildNewCases(p)
  BY <1>9 DEF BuildNewCases
<1>10. CASE FlowConnected(p)
  BY <1>10 DEF FlowConnected
<1>11. CASE FlowSyncError(p)
  BY <1>11 DEF FlowSyncError
<1>12. CASE SyncThrew(p)
  BY <1>12 DEF SyncThrew
<1>13. CASE TaskThrew(p)
  BY <1>13 DEF TaskThrew
<1>14. CASE Release(p)
  BY <1>14 DEF Release, AfterRelease
<1>15. CASE SyncCreateFail(p)
  BY <1>15 DEF SyncCreateFail
<1>16. CASE SyncFault(p)
  BY <1>16 DEF SyncFault
<1>17. CASE SyncCloseFail(p)
  BY <1>17 DEF SyncCloseFail
<1>18. CASE FollowFault(p)
  BY <1>18 DEF FollowFault
<1>19. CASE Crash(p)
  BY <1>19 DEF Crash
<1> QED
  BY <1>1, <1>2, <1>3, <1>4, <1>5, <1>6, <1>7, <1>8, <1>9, <1>10, <1>11, <1>12, <1>13, <1>14, <1>15, <1>16, <1>17, <1>18, <1>19 DEF TaskStep, TaskFault

\* Requests and maintenance do not touch the row, nor a task in a sync.
LEMMA OwnOther ==
  ASSUME TypeInv, SyncOwnsRow, [Next]_vars,
         ~ \E p \in Proc : TaskStep(p) \/ TaskFault(p) \/ Crash(p)
  PROVE  SyncOwnsRow'
<1> USE ManualIsProc DEF TypeInv, TypeOK, SyncOwnsRow, InSync, Goto
<1>1. ASSUME NEW r \in Manual, RequestStep(r) \/ TakeJob(r) PROVE SyncOwnsRow'
  <2>1. ASSUME NEW k \in ManualKind, RequestLoad(r, k) PROVE SyncOwnsRow'
    BY <2>1 DEF RequestLoad
  <2>2. CASE RequestConflict(r)
    BY <2>2 DEF RequestConflict
  <2>3. CASE RequestLock(r)
    BY <2>3 DEF RequestLock
  <2>4. CASE RequestFail(r)
    BY <2>4 DEF RequestFail
  <2>5. CASE RequestEnqueue(r)
    BY <2>5 DEF RequestEnqueue
  <2>6. CASE RequestMark(r)
    BY <2>6 DEF RequestMark
  <2>7. CASE TakeJob(r)
    BY <2>7 DEF TakeJob, LooksAtStatus, ManualKind
  <2> QED
    BY <1>1, <2>1, <2>2, <2>3, <2>4, <2>5, <2>6, <2>7 DEF RequestStep
<1>2. ASSUME NEW m \in Maint, MaintStep(m) PROVE SyncOwnsRow'
  BY <1>2 DEF MaintStep, MaintList, MaintLock, MaintSkip
<1>3. ASSUME NEW s \in ConnectionStatus, UpdateStatus(s) PROVE SyncOwnsRow'
  BY <1>3 DEF UpdateStatus
<1>4. CASE Expire
  BY <1>4 DEF Expire
<1>5. CASE UNCHANGED vars
  BY <1>5 DEF vars
<1> QED
  BY <1>1, <1>2, <1>3, <1>4, <1>5 DEF Next

\* A process in the middle of a sync owns the active row, however locks expire,
\* writes fail and processes die.
THEOREM RowOwned == Spec => []SyncOwnsRow
<1>1. TypeInv /\ SyncOwnsRow /\ [Next]_vars => SyncOwnsRow'
  BY OwnTask, OwnOther
<1> QED
  BY <1>1, OwnInit, TypeInit, TypeNext, PTL DEF Spec

-----------------------------------------------------------------------------
(* The module implements SyncSlot.                                          *)

LEMMA SlotInit == Init => Slot!Init
  BY DEF Init, Slot!Init

\* A step of a task begins a sync, writes a table, ends a sync, or leaves the
\* slot and the tables alone.
LEMMA SlotTask ==
  ASSUME TypeInv, SyncOwnsRow, NEW p \in Proc,
         TaskStep(p) \/ TaskFault(p) \/ Crash(p)
  PROVE  [Slot!Next]_<<active, writer>>
<1> USE ProcAssumption
<1>1. CASE SyncCreate(p)
  BY <1>1 DEF SyncCreate, Slot!Next, Slot!Begin
<1>2. CASE SyncStep(p)
  <2>1. active = p /\ Head(left[p]) \in Step
    BY <1>2 DEF SyncStep, SyncOwnsRow, InSync, TypeInv, TypeOK
  <2>2. Slot!Write(p, Head(left[p]))
    BY <1>2, <2>1 DEF SyncStep, Slot!Write
  <2> QED
    BY <2>1, <2>2 DEF Slot!Next
<1>3. CASE SyncComplete(p) \/ SyncClose(p)
  BY <1>3 DEF SyncComplete, SyncClose, CloseRow, Slot!Next, Slot!End
<1>4. CASE UNCHANGED <<active, writer>>
  BY <1>4
<1> QED
  BY <1>1, <1>2, <1>3, <1>4 DEF TaskStep, TaskFault, Crash,
     SyncCheck, SyncConnected, SyncError, Refresh, BuildNewCases, FlowConnected,
     FlowSyncError, SyncThrew, TaskThrew, Release, SyncCreateFail, SyncFault,
     SyncCloseFail, FollowFault

\* Everything else leaves them alone.
LEMMA SlotOther ==
  ASSUME [Next]_vars, ~ \E p \in Proc : TaskStep(p) \/ TaskFault(p) \/ Crash(p)
  PROVE  UNCHANGED <<active, writer>>
  BY DEF Next, UpdateStatus, Expire, RequestStep, RequestLoad, RequestConflict,
     RequestLock, RequestFail, RequestEnqueue, RequestMark, TakeJob, MaintStep,
     MaintList, MaintLock, MaintSkip, vars

\* One sync at a time, and only the active one writes the tables.
THEOREM OneSync == Spec => OneSyncAtATime
<1>1. TypeInv /\ SyncOwnsRow /\ [Next]_vars => [Slot!Next]_<<active, writer>>
  BY SlotTask, SlotOther
<1>2. TypeInv /\ SyncOwnsRow /\ [Next]_vars => SyncOwnsRow'
  BY OwnTask, OwnOther
<1> QED
  BY <1>1, <1>2, OwnInit, SlotInit, TypeInit, TypeNext, PTL
     DEF Spec, OneSyncAtATime, Slot!Spec, Slot!vars
=============================================================================
