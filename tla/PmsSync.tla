------------------------------- MODULE PmsSync -------------------------------
(***************************************************************************)
(* Synchronisation of one PMS connection.                                  *)
(*                                                                         *)
(* Three parties start work on a connection: API requests, which enqueue a *)
(* job that a worker runs, and the hourly and daily maintenance.  Two      *)
(* mechanisms keep them apart: a Redis key with a time to live that holds  *)
(* '1' and not its owner, and the sync_runs table, whose partial unique    *)
(* index admits one active row per connection.  The status of the          *)
(* connection is written by all of them, and by operators.                 *)
(*                                                                         *)
(* A manual request and the job it enqueues share an identity here, as     *)
(* they share the lock: the request goes on while the job runs.  The       *)
(* worker that takes jobs from the queue is another program; its part is   *)
(* modelled from what this one says of it: it runs the exported functions  *)
(* and releases the lock when the job is completed.                        *)
(***************************************************************************)
EXTENDS Naturals, Sequences

CONSTANTS
  Manual,     \* requests, with their jobs, that may be under way at once
  Maint,      \* maintenance tasks that may be under way at once
  NoProc,     \* "nobody"
  Lease,      \* leases of the connection that have a balance
  Undefined   \* what reading an absent key gives

Proc == Manual \cup Maint

ASSUME ProcAssumption  == NoProc \notin Proc /\ Manual \cap Maint = {}
ASSUME LeaseAssumption == Undefined \notin Lease

Step == {"debtors_leases", "charges", "payments", "balances_aging"}

ALL_STEPS == <<"debtors_leases", "charges", "payments", "balances_aging">>

ConnectionStatus == {"draft", "connected", "syncing", "error", "disabled"}

ManualKind == {"sync", "flow", "refresh", "build"}
Kind       == ManualKind \cup {"hourly", "daily"}

\* The steps runSync makes for each kind of task.
StepsOf(k) == CASE k = "hourly" -> <<"payments", "balances_aging">>
                [] k = "daily"  -> <<"debtors_leases">>
                [] OTHER        -> ALL_STEPS

\* Mutant: the queue is asked for one attempt more than it is meant to make.
ThreeAttempts(k) == 3

\* Jobs are tried again once, the full flow is not.
Attempts(k) == IF k = "flow" THEN 1 ELSE 2

RequestPhase == {"idle", "loaded", "locked", "enqueued"}

TaskPhase == {
  "idle", "queued", "listed",
  "check", "create", "steps", "complete",  \* runSync
  "fail", "failclose",                     \* its catch block
  "refused", "failed",                     \* its two ways to throw
  "refresh", "build", "connected",         \* what follows a sync
  "broken",                                \* the task has thrown
  "release", "drop", "rerelease"}          \* the ends of a task

VARIABLES
  status,    \* pms_connections.status
  lock,      \* who set the Redis key; the key itself does not say
  active,    \* who created the sync_runs row that is pending or running
  writer,    \* who last wrote the tables of each step
  cases,     \* leases with a debt case
  request,   \* where each API request is
  task,      \* where each job or maintenance task is
  kind,      \* what each task is
  seen,      \* the status a request, and later its full flow, has loaded
  left,      \* steps each task has still to make
  tries      \* attempts made of each job

vars == <<status, lock, active, writer, cases,
          request, task, kind, seen, left, tries>>

TypeOK ==
  /\ status \in ConnectionStatus
  /\ lock \in Proc \cup {NoProc}
  /\ active \in Proc \cup {NoProc}
  /\ writer \in [Step -> Proc \cup {NoProc}]
  /\ cases \in SUBSET Lease
  /\ request \in [Manual -> RequestPhase]
  /\ task \in [Proc -> TaskPhase]
  /\ kind \in [Proc -> Kind]
  /\ \A r \in Manual : kind[r] \in ManualKind
  /\ seen \in [Manual -> ConnectionStatus]
  /\ left \in [Proc -> Seq(Step)]
  /\ tries \in [Manual -> 0..2]

Init ==
  /\ status \in {"draft", "connected"}
  /\ lock = NoProc
  /\ active = NoProc
  /\ writer = [s \in Step |-> NoProc]
  /\ cases = {}
  /\ request = [r \in Manual |-> "idle"]
  /\ task = [p \in Proc |-> "idle"]
  /\ kind = [p \in Proc |-> IF p \in Manual THEN "sync" ELSE "hourly"]
  /\ seen = [r \in Manual |-> "draft"]
  /\ left = [p \in Proc |-> <<>>]
  /\ tries = [r \in Manual |-> 0]

Goto(p, phase) == task' = [task EXCEPT ![p] = phase]

\* The local variables of a request that has enqueued its job, or of a job
\* that has ended.
Forget(p) ==
  /\ seen' = [r \in Manual |-> IF r = p THEN "draft" ELSE seen[r]]
  /\ tries' = [r \in Manual |-> IF r = p THEN 0 ELSE tries[r]]

-----------------------------------------------------------------------------
(* The Redis key: SET NX EX to take it, an unconditional DEL to drop it.    *)

\* SET NX: whoever finds the key loses, and so does one who cannot ask.
AcquireLock(p) == lock = NoProc /\ lock' = p

\* DEL, whoever set the key; an error is only logged.
ReleaseLock == lock' \in {NoProc, lock}

\* The time to live is up, whatever the one who set the key is doing.
Expire ==
  /\ lock # NoProc
  /\ lock' = NoProc
  /\ UNCHANGED <<status, active, writer, cases, request, task, kind, seen, left, tries>>

-----------------------------------------------------------------------------
(* Operators.                                                               *)

\* PATCH status takes any status at any time; create() on a connection that
\* is disabled or a draft writes the status it is given.
UpdateStatus(s) ==
  /\ status' = s
  /\ UNCHANGED <<lock, active, writer, cases, request, task, kind, seen, left, tries>>

-----------------------------------------------------------------------------
(* API requests: load, lock, enqueue, and only then write the status.       *)

\* A sync and a full flow look at the status; refresh and build do not.
LooksAtStatus(k) == k \in {"sync", "flow"}

RequestLoad(r, k) ==
  /\ request[r] = "idle" /\ task[r] = "idle"
  /\ LooksAtStatus(k) => status # "syncing"
  /\ request' = [request EXCEPT ![r] = "loaded"]
  /\ kind' = [kind EXCEPT ![r] = k]
  /\ seen' = [seen EXCEPT ![r] = status]
  /\ UNCHANGED <<status, lock, active, writer, cases, task, left, tries>>

RequestConflict(r) ==
  /\ request[r] = "loaded"
  /\ request' = [request EXCEPT ![r] = "idle"]
  /\ UNCHANGED <<status, lock, active, writer, cases, task, kind, seen, left, tries>>

RequestLock(r) ==
  /\ request[r] = "loaded"
  /\ AcquireLock(r)
  /\ request' = [request EXCEPT ![r] = "locked"]
  /\ UNCHANGED <<status, active, writer, cases, task, kind, seen, left, tries>>

\* The status is refused, the connector is missing, the queue is down or the
\* server stops: the request ends and nobody drops the key.
RequestFail(r) ==
  /\ request[r] \in {"locked", "enqueued"}
  /\ request' = [request EXCEPT ![r] = "idle"]
  /\ UNCHANGED <<status, lock, active, writer, cases, task, kind, seen, left, tries>>

RequestEnqueue(r) ==
  /\ request[r] = "locked"
  /\ LooksAtStatus(kind[r]) => seen[r] \in {"connected", "error"}
  /\ request' = [request EXCEPT ![r] = "enqueued"]
  /\ Goto(r, "queued")
  /\ Forget(r)
  /\ UNCHANGED <<status, lock, active, writer, cases, kind, left>>

\* The job may be under way, or done, by now.
RequestMark(r) ==
  /\ request[r] = "enqueued"
  /\ status' = IF LooksAtStatus(kind[r]) THEN "syncing" ELSE status
  /\ request' = [request EXCEPT ![r] = "idle"]
  /\ UNCHANGED <<lock, active, writer, cases, task, kind, seen, left, tries>>

-----------------------------------------------------------------------------
(* The worker takes a job, and maintenance takes a connection.              *)

TakeJob(r) ==
  /\ task[r] = "queued"
  /\ Goto(r, IF LooksAtStatus(kind[r]) THEN "check" ELSE kind[r])
  /\ seen' = [seen EXCEPT ![r] = IF kind[r] = "flow" THEN status ELSE @]
  /\ tries' = [tries EXCEPT ![r] = @ + 1]
  /\ UNCHANGED <<status, lock, active, writer, cases, request, kind, left>>

\* The connections are listed first and visited one after another.
MaintList(m, k) ==
  /\ task[m] = "idle"
  /\ status = "connected"
  /\ Goto(m, "listed")
  /\ kind' = [kind EXCEPT ![m] = k]
  /\ UNCHANGED <<status, lock, active, writer, cases, request, seen, left, tries>>

MaintLock(m) ==
  /\ task[m] = "listed"
  /\ AcquireLock(m)
  /\ Goto(m, "check")
  /\ UNCHANGED <<status, active, writer, cases, request, kind, seen, left, tries>>

MaintSkip(m) ==
  /\ task[m] = "listed"
  /\ Goto(m, "idle")
  /\ UNCHANGED <<status, lock, active, writer, cases, request, kind, seen, left, tries>>

-----------------------------------------------------------------------------
(* runSync: look for an active row, create one, write the tables, close.    *)

SyncCheck(p) ==
  /\ task[p] = "check"
  /\ Goto(p, IF active = NoProc THEN "create" ELSE "refused")
  /\ UNCHANGED <<status, lock, active, writer, cases, request, kind, seen, left, tries>>

\* Mutant: the table has no partial unique index, and the check is all there is.
CreateUnindexed(p) ==
  /\ task[p] = "create"
  /\ active' = p
  /\ left' = [left EXCEPT ![p] = StepsOf(kind[p])]
  /\ Goto(p, "steps")
  /\ UNCHANGED <<status, lock, writer, cases, request, kind, seen, tries>>

\* The unique index refuses a second active row, with an error that has not
\* the code of the check above.
SyncCreate(p) ==
  /\ task[p] = "create"
  /\ active = NoProc
  /\ active' = p
  /\ left' = [left EXCEPT ![p] = StepsOf(kind[p])]
  /\ Goto(p, "steps")
  /\ UNCHANGED <<status, lock, writer, cases, request, kind, seen, tries>>

SyncCreateFail(p) ==
  /\ task[p] = "create"
  /\ Goto(p, "failed")
  /\ UNCHANGED <<status, lock, active, writer, cases, request, kind, seen, left, tries>>

\* One transaction per step.
SyncStep(p) ==
  /\ task[p] = "steps"
  /\ left[p] # <<>>
  /\ writer' = [writer EXCEPT ![Head(left[p])] = p]
  /\ left' = [left EXCEPT ![p] = Tail(@)]
  /\ UNCHANGED <<status, lock, active, cases, request, task, kind, seen, tries>>

CloseRow(p) == active' = IF active = p THEN NoProc ELSE active

\* Mutant: the row is closed first, and the connection is written after it.
ConnectedLast(p) ==
  /\ task[p] = "steps"
  /\ left[p] = <<>>
  /\ status' = "connected"
  /\ CloseRow(p)
  /\ Goto(p, "complete")
  /\ UNCHANGED <<lock, writer, cases, request, kind, seen, left, tries>>

SyncConnected(p) ==
  /\ task[p] = "steps"
  /\ left[p] = <<>>
  /\ status' = "connected"
  /\ Goto(p, "complete")
  /\ UNCHANGED <<lock, active, writer, cases, request, kind, seen, left, tries>>

AfterSync(k) == IF k \in {"flow", "hourly"} THEN "refresh" ELSE "release"

SyncComplete(p) ==
  /\ task[p] = "complete"
  /\ CloseRow(p)
  /\ Goto(p, AfterSync(kind[p]))
  /\ UNCHANGED <<status, lock, writer, cases, request, kind, seen, left, tries>>

\* The connector, a step or a write of the closing pair throws.
SyncFault(p) ==
  /\ task[p] \in {"steps", "complete"}
  /\ Goto(p, "fail")
  /\ left' = [left EXCEPT ![p] = <<>>]
  /\ UNCHANGED <<status, lock, active, writer, cases, request, kind, seen, tries>>

\* The catch block; an error of its writes is swallowed.
SyncError(p) ==
  /\ task[p] = "fail"
  /\ status' \in {"error", status}
  /\ Goto(p, "failclose")
  /\ UNCHANGED <<lock, active, writer, cases, request, kind, seen, left, tries>>

\* Mutant: the catch block writes the connection and leaves the row.
CloseForgotten(p) ==
  /\ task[p] = "failclose"
  /\ Goto(p, "failed")
  /\ UNCHANGED <<status, lock, active, writer, cases, request, kind, seen, left, tries>>

SyncClose(p) ==
  /\ task[p] = "failclose"
  /\ CloseRow(p)
  /\ Goto(p, "failed")
  /\ UNCHANGED <<status, lock, writer, cases, request, kind, seen, left, tries>>

SyncCloseFail(p) ==
  /\ task[p] = "failclose"
  /\ Goto(p, "failed")
  /\ UNCHANGED <<status, lock, active, writer, cases, request, kind, seen, left, tries>>

-----------------------------------------------------------------------------
(* What follows a sync, and how a task ends.                                *)

\* The rows are read raw, so their keys are the attribute names, and the code
\* asks for the column name.
BalanceRows ==
  IF writer["balances_aging"] = NoProc THEN {}
  ELSE {[pmsLeaseId |-> l] : l \in Lease}

LeaseKey(row) ==
  IF "pms_lease_id" \in DOMAIN row THEN row.pms_lease_id ELSE Undefined

\* refreshCasesFromPms: the cases of these leases, which are none, and the
\* sync state.
Refresh(p) ==
  /\ task[p] = "refresh"
  /\ Goto(p, IF kind[p] = "refresh" THEN "release" ELSE "build")
  /\ UNCHANGED <<status, lock, active, writer, cases, request, kind, seen, left, tries>>

BuildNewCases(p) ==
  /\ task[p] = "build"
  /\ cases' = cases \cup {l \in Lease : l \in {LeaseKey(row) : row \in BalanceRows}}
  /\ Goto(p, IF kind[p] = "flow" THEN "connected" ELSE "release")
  /\ UNCHANGED <<status, lock, active, writer, request, kind, seen, left, tries>>

FlowConnected(p) ==
  /\ task[p] = "connected"
  /\ status' = "connected"
  /\ Goto(p, "release")
  /\ UNCHANGED <<lock, active, writer, cases, request, kind, seen, left, tries>>

FollowFault(p) ==
  /\ task[p] \in {"refresh", "build", "connected"}
  /\ Goto(p, "broken")
  /\ UNCHANGED <<status, lock, active, writer, cases, request, kind, seen, left, tries>>

\* runSyncFullFlow writes an error whatever runSync threw, through the
\* instance it loaded: an unchanged status is not written.
FlowSyncError(p) ==
  /\ task[p] \in {"refused", "failed"}
  /\ kind[p] = "flow"
  /\ status' \in {IF seen[p] = "error" THEN status ELSE "error", status}
  /\ Goto(p, "broken")
  /\ UNCHANGED <<lock, active, writer, cases, request, kind, seen, left, tries>>

\* Maintenance takes a refusal for a skip; for a job it is an error.
SyncThrew(p) ==
  /\ task[p] \in {"refused", "failed"}
  /\ kind[p] # "flow"
  /\ Goto(p, IF task[p] = "refused" /\ p \in Maint THEN "release" ELSE "broken")
  /\ UNCHANGED <<status, lock, active, writer, cases, request, kind, seen, left, tries>>

\* The queue tries a job again; maintenance drops the key twice, in the
\* finally block of the connection and in the catch block of the loop.
TaskThrew(p) ==
  /\ task[p] = "broken"
  /\ Goto(p, IF p \in Maint THEN "drop"
             ELSE IF tries[p] < Attempts(kind[p]) THEN "queued" ELSE "release")
  /\ UNCHANGED <<status, lock, active, writer, cases, request, kind, seen, left, tries>>

AfterRelease(phase) == IF phase = "drop" THEN "rerelease" ELSE "idle"

Release(p) ==
  /\ task[p] \in {"release", "drop", "rerelease"}
  /\ ReleaseLock
  /\ Goto(p, AfterRelease(task[p]))
  /\ Forget(p)
  /\ UNCHANGED <<status, active, writer, cases, request, kind, left>>

Running(p) == task[p] \notin {"idle", "queued"}

\* The process dies; the queue may hand a job that stalled to another worker.
Crash(p) ==
  /\ Running(p)
  /\ left' = [left EXCEPT ![p] = <<>>]
  /\ \/ Goto(p, "idle") /\ Forget(p)
     \/ /\ p \in Manual /\ tries[p] < 2
        /\ Goto(p, "queued")
        /\ UNCHANGED <<seen, tries>>
  /\ UNCHANGED <<status, lock, active, writer, cases, request, kind>>

-----------------------------------------------------------------------------
RequestStep(r) ==
  \/ \E k \in ManualKind : RequestLoad(r, k)
  \/ RequestConflict(r) \/ RequestLock(r) \/ RequestFail(r)
  \/ RequestEnqueue(r) \/ RequestMark(r)

MaintStep(m) ==
  \/ \E k \in {"hourly", "daily"} : MaintList(m, k)
  \/ MaintLock(m) \/ MaintSkip(m)

\* The steps a task makes when nothing fails.
TaskStep(p) ==
  \/ SyncCheck(p) \/ SyncCreate(p) \/ SyncStep(p) \/ SyncConnected(p)
  \/ SyncComplete(p) \/ SyncError(p) \/ SyncClose(p)
  \/ Refresh(p) \/ BuildNewCases(p) \/ FlowConnected(p)
  \/ FlowSyncError(p) \/ SyncThrew(p) \/ TaskThrew(p) \/ Release(p)

TaskFault(p) ==
  SyncCreateFail(p) \/ SyncFault(p) \/ SyncCloseFail(p) \/ FollowFault(p)

Next ==
  \/ \E s \in ConnectionStatus : UpdateStatus(s)
  \/ Expire
  \/ \E r \in Manual : RequestStep(r) \/ TakeJob(r)
  \/ \E m \in Maint : MaintStep(m)
  \/ \E p \in Proc : TaskStep(p) \/ TaskFault(p) \/ Crash(p)

Spec == Init /\ [][Next]_vars

-----------------------------------------------------------------------------
(* Properties.                                                              *)

InSync(p) == task[p] \in {"steps", "complete", "fail", "failclose"}

\* One sync is under way at a time, although the lock expires and is dropped
\* by those who do not hold it, and processes die: the row and its unique
\* index carry it alone.  And a table is written by the sync that is active.
Slot == INSTANCE SyncSlot
          WITH Sync <- Proc, Table <- Step, NoSync <- NoProc, slot <- active

OneSyncAtATime == Slot!Spec

\* Every process in the middle of a sync is the owner of the active row: what
\* it takes for the check, the index and the closing writes to fit together.
SyncOwnsRow == \A p \in Proc : InSync(p) => active = p

\* As long as no process dies and the closing write gets through, a sync that
\* fails or is refused, a request that leaves the lock behind and a task that
\* drops the lock of another leave the connection free for the next sync.
FreeAgain == []<>(lock = NoProc) /\ []<>(active = NoProc)
=============================================================================
