------------------------- MODULE MCCollectionEngine -------------------------
(***************************************************************************)
(* Small instances of CollectionEngine for TLC.                            *)
(***************************************************************************)
EXTENDS CollectionEngine, TLC

CONSTANTS a1, a2

HybridModes  == [a \in Automation |-> "HYBRID"]
AutoModes    == [a \in Automation |-> "AUTO"]
ReviewModes  == [a \in Automation |-> "REQUIRE_APPROVAL"]

\* A server and a worker that stay up, for liveness.  The operators approve,
\* refuse, pause and resume; time passes or does not.
UpNext ==
  /\ \/ \E a \in Automation :
          \/ \E e \in Enroller : Create(a, e)
          \/ Activate(a) \/ Pause(a)
          \/ \E c \in Case : \/ BulkApprove(a, {c}) \/ PaceChanges(a, c, "ready")
                            \/ PauseCase(a, c) \/ ResumeCase(a, c)
     \/ \E e \in Enroller :
          \/ EnrollList(e, Case) \/ EnrollCreate(e)
          \/ \E c \in Case : EnrollCheck(e, c)
          \/ \E s \in ApprovalStatus : EnrollApprove(e, s)
     \/ \E t \in Tick : StartTick(t) \/ TickStep(t)
  /\ TrackLate

UpSpec == Init /\ [][UpNext]_vars /\ TickFairness
=============================================================================
