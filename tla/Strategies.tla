----------------------------- MODULE Strategies -----------------------------
(***************************************************************************)
(* A collection strategy: its stages, each a range of days past due, the   *)
(* stage that a case is given, and the deletion of the strategy.  A stage  *)
(* is checked against the others and then written, a strategy is found     *)
(* deletable and then deleted, in both cases with nothing held in between: *)
(* one such request is at work while the others run whole.                 *)
(***************************************************************************)
EXTENDS Integers, FiniteSets

CONSTANTS
  StageId,
  MaxDays,   \* bound on the days past due and on those before, of cases and of ranges
  PastKind,      \* what may come of an enrolment: "event", "dispute", "agreement"
  None

StrategyAssumption == MaxDays \in Nat /\ None \notin Int /\ None \notin StageId \cup PastKind

\* The days that a range is of: before the due date they are negative (strategy.validator.js).
\* Those of a case never are: the importer and the sync begin them at zero.
PastDue  == -MaxDays .. MaxDays
CaseDays == 0 .. MaxDays
DayRange == {r \in [min : PastDue, max : PastDue \cup {None}] : r.max = None \/ r.min <= r.max}
Row      == [range : DayRange, isActive : BOOLEAN]
Past     == PastKind \cup {None}

VARIABLES
  stages,    \* collection_stages of the strategy; None: no such row
  enrolled,  \* the case of its automation: None, or its days and its stage
  past,      \* what has come of the enrolment first: None or the kind of row
  deleted,   \* deletedAt of the strategy is set
  job,       \* the request at work: it has checked and is about to write
  overtaken  \* history: rows were written while a request was at work

vars == <<stages, enrolled, past, deleted, job, overtaken>>

NoJob == [do |-> "nothing"]
Write == [do : {"write"}, stage : StageId, row : Row]

Init ==
  /\ stages = [s \in StageId |-> None]
  /\ enrolled = None
  /\ past = None
  /\ deleted = FALSE
  /\ job = NoJob
  /\ overtaken = FALSE

-----------------------------------------------------------------------------
(* The ranges.                                                              *)

\* Mutant: an open range ends where it begins.
rangesOverlapClosed(a, b) ==
  LET top(r) == IF r.max = None THEN r.min ELSE r.max
  IN  a.min <= top(b) /\ b.min <= top(a)

\* An open range has no end.
rangesOverlap(a, b) ==
  /\ b.max = None \/ a.min <= b.max
  /\ a.max = None \/ b.min <= a.max

stagesOverlap(range, excludeStageId) ==
  \E s \in StageId \ {excludeStageId} :
    /\ stages[s] # None /\ stages[s].isActive
    /\ rangesOverlap(range, stages[s].range)

Covers(range, days) == range.min <= days /\ (range.max = None \/ days <= range.max)

Active == {s \in StageId : stages[s] # None /\ stages[s].isActive}

\* The stage of a number of days past due.
selectStageByDaysPastDue(days) ==
  LET Min(s)   == stages[s].range.min
      Last(S)  == CHOOSE s \in S : \A t \in S : Min(t) <= Min(s)
      First(S) == CHOOSE s \in S : \A t \in S : Min(s) <= Min(t)
      withMax  == {s \in Active : stages[s].range.max # None}
      matching == {s \in Active : Covers(stages[s].range, days)}
      aboveAll == IF withMax = {} THEN days > 0
                                  ELSE \A s \in withMax : days > stages[s].range.max
  IN  CASE Active = {}                -> None
        [] Active # {} /\ aboveAll    -> Last(Active)
        [] ~aboveAll /\ matching # {} -> Last(matching)
        [] OTHER -> IF days < Min(First(Active)) THEN First(Active) ELSE Last(Active)

-----------------------------------------------------------------------------
(* createStage, updateStage, deleteStage.                                    *)

\* The rows a request may ask for: a new stage is active; an update may leave
\* the activity as it is, and a null maximum leaves the old one.
Asked(s, row) ==
  IF stages[s] = None THEN row.isActive
  ELSE stages[s].range.max # None => row.range.max # None

\* The range is compared with the active stages, whatever the row's own activity.
Checked(s, row) == ~deleted /\ Asked(s, row) /\ ~stagesOverlap(row.range, s)

\* A whole request, while another is at work: alone it is BeginSave and EndSave.
SaveStage(s, row) ==
  /\ job # NoJob
  /\ Checked(s, row)
  /\ stages' = [stages EXCEPT ![s] = row]
  /\ overtaken' = (overtaken \/ job.do = "write")
  /\ UNCHANGED <<enrolled, past, deleted, job>>

BeginSave(s, row) ==
  /\ job = NoJob
  /\ Checked(s, row)
  /\ job' = [do |-> "write", stage |-> s, row |-> row]
  /\ UNCHANGED <<stages, enrolled, past, deleted, overtaken>>

EndSave ==
  /\ job.do = "write"
  /\ stages' = [stages EXCEPT ![job.stage] = job.row]
  /\ job' = NoJob
  /\ UNCHANGED <<enrolled, past, deleted, overtaken>>

\* deleteStage switches it off.
DeleteStage(s) ==
  /\ ~deleted /\ stages[s] # None
  /\ stages' = [stages EXCEPT ![s].isActive = FALSE]
  /\ overtaken' = (overtaken \/ job.do = "write")
  /\ UNCHANGED <<enrolled, past, deleted, job>>

-----------------------------------------------------------------------------
(* The automation of the strategy.                                          *)

\* enroll: the case gets the stage of its days, if there is one.
Enroll(days) ==
  /\ ~deleted /\ enrolled = None
  /\ selectStageByDaysPastDue(days) # None
  /\ enrolled' = [days |-> days, stage |-> selectStageByDaysPastDue(days)]
  /\ UNCHANGED <<stages, past, deleted, job, overtaken>>

\* recomputeStagesForAutomation: the stage follows the days, if there is one.
Recompute(days) ==
  /\ enrolled # None
  /\ enrolled' = [days  |-> days,
                  stage |-> IF selectStageByDaysPastDue(days) = None THEN enrolled.stage
                            ELSE selectStageByDaysPastDue(days)]
  /\ UNCHANGED <<stages, past, deleted, job, overtaken>>

\* An event, a dispute or an agreement of the enrolled case.
Happens(kind) ==
  /\ enrolled # None /\ past = None
  /\ past' = kind
  /\ overtaken' = (overtaken \/ job.do = "delete")
  /\ UNCHANGED <<stages, enrolled, deleted, job>>

-----------------------------------------------------------------------------
(* delete.                                                                  *)

\* Nothing has come of any enrolment.
getDeletability == past = None

BeginDelete ==
  /\ job = NoJob /\ ~deleted
  /\ getDeletability
  /\ job' = [do |-> "delete"]
  /\ UNCHANGED <<stages, enrolled, past, deleted, overtaken>>

\* In one transaction: the enrolments, the automations, and deletedAt.
EndDelete ==
  /\ job.do = "delete"
  /\ enrolled' = None
  /\ deleted' = TRUE
  /\ job' = NoJob
  /\ UNCHANGED <<stages, past, overtaken>>

Next ==
  \/ \E s \in StageId, row \in Row : SaveStage(s, row) \/ BeginSave(s, row)
  \/ \E s \in StageId : DeleteStage(s)
  \/ EndSave \/ BeginDelete \/ EndDelete
  \/ \E days \in CaseDays : Enroll(days) \/ Recompute(days)
  \/ \E kind \in PastKind : Happens(kind)

Spec == Init /\ [][Next]_vars

-----------------------------------------------------------------------------
(* Types: the rows and the request stay in their types.                     *)
TypeOK ==
  /\ stages \in [StageId -> Row \cup {None}]
  /\ enrolled \in {None} \cup [days : CaseDays, stage : StageId]
  /\ past \in Past /\ deleted \in BOOLEAN /\ overtaken \in BOOLEAN
  /\ job \in {NoJob, [do |-> "delete"]} \cup Write

(* The stage a case is given is one whose range its days are in, whenever   *)
(* there is one (selectStageByDaysPastDue takes the last stage above the    *)
(* highest maximum: that is right only because an open range is the last).  *)
StageFits ==
  \A days \in CaseDays :
    ~overtaken /\ (\E s \in Active : Covers(stages[s].range, days)) =>
      Covers(stages[selectStageByDaysPastDue(days)].range, days)

(* The active stages of a strategy never share a day, through creations,    *)
(* changes, deletions and stages switched on again, as long as no stage was *)
(* written between the check of another and its write.                      *)
StagesApart ==
  ~overtaken => \A s, t \in Active : \A days \in PastDue :
    Covers(stages[s].range, days) /\ Covers(stages[t].range, days) => s = t

(* What has a past is not deleted: a deleted strategy has no event, open    *)
(* dispute or agreement, unless it came after the check, and no enrolment.  *)
DeletedHadNoPast == deleted => enrolled = None /\ (past = None \/ overtaken)
=============================================================================
