----------------------------- MODULE MCPmsSync -----------------------------
(***************************************************************************)
(* Small instances of PmsSync for TLC.                                     *)
(***************************************************************************)
EXTENDS PmsSync, TLC

CONSTANT MCKind   \* the kinds of task a run looks at

\* Nobody sets a status by hand, and no key expires, unless a run says so.
WorkNext ==
  \/ \E r \in Manual :
       \/ \E k \in MCKind \cap ManualKind : RequestLoad(r, k)
       \/ RequestConflict(r) \/ RequestLock(r) \/ RequestFail(r)
       \/ RequestEnqueue(r) \/ RequestMark(r)
       \/ TakeJob(r)
  \/ \E m \in Maint :
       \/ \E k \in MCKind \ ManualKind : MaintList(m, k)
       \/ MaintLock(m) \/ MaintSkip(m)
  \/ \E p \in Proc : TaskStep(p)

FaultNext == WorkNext \/ \E p \in Proc : TaskFault(p)

AnyNext ==
  \/ FaultNext
  \/ \E s \in {"disabled", "connected"} : UpdateStatus(s)
  \/ Expire
  \/ \E p \in Proc : Crash(p)

AnySpec == Init /\ [][AnyNext]_vars

\* Servers and workers that stay up: the key expires, a step may fail, and the
\* write that closes the row gets through.
UpFault(p) == SyncCreateFail(p) \/ SyncFault(p) \/ FollowFault(p)

Fairness ==
  /\ WF_vars(Expire)
  /\ \A r \in Manual : WF_vars(TakeJob(r))
  /\ \A p \in Proc : WF_vars(TaskStep(p) \/ SyncCreateFail(p))

UpSpec ==
  /\ Init
  /\ [][WorkNext \/ Expire \/ \E p \in Proc : UpFault(p)]_vars
  /\ Fairness
=============================================================================
