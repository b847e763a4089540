------------------------- MODULE CollectionFlowProofs -------------------------
(***************************************************************************)
(* Theorems of CollectionFlow: the ledger, the stages of a strategy and    *)
(* the delivery of a message, for any leases, charges, stages and number   *)
(* of requests.                                                            *)
(***************************************************************************)
EXTENDS CollectionFlow, Integers, Sequences, FiniteSetTheorems, SumTheorems, TLAPS

LEMMA FlowSteps ==
  ASSUME [Next]_vars
  PROVE  /\ L!Next \/ UNCHANGED ledger
         /\ S!Next \/ UNCHANGED strategies
         /\ D!Next \/ UNCHANGED delivery
BY DEF Next, vars

-----------------------------------------------------------------------------
(* Numbers: finite sets, sums and greatest elements are the ledger's too.    *)

LEMMA FiniteIs ==
  ASSUME NEW X
  PROVE  L!IsFiniteSet(X) <=> IsFiniteSet(X)
BY DEF L!IsFiniteSet, IsFiniteSet

LEMMA SumIs ==
  ASSUME NEW f
  PROVE  L!SumFunction(f) = SumFunction(f)
BY DEF L!SumFunction, L!SumFunctionOnSet, L!FoldFunctionOnSet, L!MapThenFoldSet,
       SumFunction, SumFunctionOnSet, FoldFunctionOnSet, MapThenFoldSet

\* Finitely many numbers have a greatest one.
LEMMA MaxOf ==
  ASSUME NEW A, IsFiniteSet(A), A # {}, NEW f \in [A -> Nat]
  PROVE  /\ L!Max({f[t] : t \in A}) \in Nat
         /\ \E s \in A : L!Max({f[t] : t \in A}) = f[s]
         /\ \A s \in A : f[s] <= L!Max({f[t] : t \in A})
<1>1. PICK n \in Nat : \A t \in A : f[t] <= n
  BY HasBound
<1>2. f \in [A -> 0 .. n]
  BY <1>1
<1>3. PICK s \in A : \A t \in A : f[t] <= f[s]
  BY <1>2, FirstAndLast
<1> DEFINE T == {f[t] : t \in A}
<1>4. \E m \in T : \A k \in T : m >= k
  BY <1>3
<1>5. L!Max(T) \in T /\ \A k \in T : L!Max(T) >= k
  <2> HIDE DEF T
  <2> QED BY <1>4 DEF L!Max
<1> QED BY <1>5

-----------------------------------------------------------------------------
(***************************************************************************)
(* Strategies.  While no stage was written over another's check, the       *)
(* active stages do not overlap, nor does the one about to be written.     *)
(***************************************************************************)
Apart ==
  ~overtaken =>
    /\ \A s, t \in S!Active : s # t => ~S!rangesOverlap(stages[s].range, stages[t].range)
    /\ job.do = "write" => ~S!stagesOverlap(job.row.range, job.stage)

Deletable ==
  /\ deleted => enrolled = None /\ (past = None \/ overtaken)
  /\ job.do = "delete" => ~deleted /\ (past = None \/ overtaken)

StageInv == S!TypeOK /\ Apart /\ Deletable

LEMMA JobKinds ==
  ASSUME S!TypeOK
  PROVE  /\ job = S!NoJob <=> job.do = "nothing"
         /\ job.do \in {"nothing", "delete", "write"}
         /\ job.do = "write" => job.stage \in StageId /\ job.row \in S!Row
BY DEF S!TypeOK, S!NoJob, S!Write

\* A stage that overlaps no other is written, or one is switched off.
LEMMA ActiveApart ==
  ASSUME S!TypeOK, NEW s \in StageId, NEW r \in S!Row,
         stages' = [stages EXCEPT ![s] = r],
         \A x, y \in S!Active : x # y => ~S!rangesOverlap(stages[x].range, stages[y].range),
         r.isActive => ~S!stagesOverlap(r.range, s)
  PROVE  \A x, y \in S!Active' : x # y => ~S!rangesOverlap(stages'[x].range, stages'[y].range)
<1>1. stages'[s] = r /\ \A x \in StageId \ {s} : stages'[x] = stages[x]
  BY DEF S!TypeOK
<1> SUFFICES ASSUME NEW x \in S!Active', NEW y \in S!Active', x # y,
                    S!rangesOverlap(stages'[x].range, stages'[y].range)
             PROVE  FALSE
  OBVIOUS
<1>2. x \in StageId /\ y \in StageId /\ stages'[x].isActive /\ stages'[y].isActive
  BY DEF S!Active
<1>3. \A z \in S!Active' \ {s} : z \in S!Active
  BY <1>1 DEF S!Active
<1>4. CASE x = s
  <2>1. S!rangesOverlap(r.range, stages[y].range) /\ r.isActive /\ y # s /\ y \in S!Active
    BY <1>1, <1>2, <1>3, <1>4
  <2> QED BY <2>1 DEF S!stagesOverlap, S!Active
<1>5. CASE y = s
  <2>1. S!rangesOverlap(stages[x].range, r.range) /\ r.isActive /\ x # s /\ x \in S!Active
    BY <1>1, <1>2, <1>3, <1>5
  <2>2. S!rangesOverlap(r.range, stages[x].range)
    BY <2>1 DEF S!rangesOverlap
  <2> QED BY <2>1, <2>2 DEF S!stagesOverlap, S!Active
<1>6. CASE x # s /\ y # s
  BY <1>1, <1>2, <1>3, <1>6
<1> QED BY <1>4, <1>5, <1>6

\* What the selection comes to: the last of all the active stages, or of those that the
\* days are in, or else the first or the last.
Start(s)     == stages[s].range.min
Latest(A)    == CHOOSE s \in A : \A t \in A : Start(t) <= Start(s)
Earliest(A)  == CHOOSE s \in A : \A t \in A : Start(s) <= Start(t)
Bounded      == {s \in S!Active : stages[s].range.max # None}
InRange(days) == {s \in S!Active : S!Covers(stages[s].range, days)}
Beyond(days) == IF Bounded = {} THEN days > 0 ELSE \A s \in Bounded : days > stages[s].range.max

LEMMA Selection ==
  ASSUME NEW days
  PROVE  /\ S!Active = {} => S!selectStageByDaysPastDue(days) = None
         /\ S!Active # {} /\ Beyond(days) => S!selectStageByDaysPastDue(days) = Latest(S!Active)
         /\ S!Active # {} /\ ~Beyond(days) /\ InRange(days) # {}
              => S!selectStageByDaysPastDue(days) = Latest(InRange(days))
         /\ S!Active # {} /\ ~Beyond(days) /\ InRange(days) = {}
              => S!selectStageByDaysPastDue(days) \in {Earliest(S!Active), Latest(S!Active)}
BY Zenon DEF S!selectStageByDaysPastDue, Start, Latest, Earliest, Bounded, InRange, Beyond

LEMMA ChosenStage ==
  ASSUME S!TypeOK, NEW A, A \subseteq S!Active, A # {}
  PROVE  /\ Latest(A) \in A /\ \A t \in A : Start(t) <= Start(Latest(A))
         /\ Earliest(A) \in A
<1> PICK f : f = [t \in A |-> Start(t) + MaxDays]
  OBVIOUS
<1>1. MaxDays \in Nat
  BY FlowAssumption DEF FlowAssumption, S!StrategyAssumption
<1>2. \A t \in A : Start(t) \in -MaxDays .. MaxDays
  BY DEF S!TypeOK, S!Active, S!Row, S!DayRange, S!PastDue, Start
<1>3. f \in [A -> 0 .. 2 * MaxDays] /\ \A t \in A : f[t] = Start(t) + MaxDays
  BY <1>1, <1>2
<1>4. /\ \E s \in A : \A t \in A : f[s] <= f[t]
      /\ \E s \in A : \A t \in A : f[t] <= f[s]
  <2>1. f \in [A -> 0 .. 2 * MaxDays] /\ 2 * MaxDays \in Nat
    BY <1>1, <1>3
  <2> QED BY <2>1, FirstAndLast
<1>5. /\ \E s \in A : \A t \in A : Start(t) <= Start(s)
      /\ \E s \in A : \A t \in A : Start(s) <= Start(t)
  BY <1>1, <1>2, <1>3, <1>4
<1> QED BY <1>5 DEF Latest, Earliest

LEMMA SelectedType ==
  ASSUME S!TypeOK, NEW days
  PROVE  S!selectStageByDaysPastDue(days) \in StageId \cup {None}
<1>1. S!Active \subseteq StageId /\ InRange(days) \subseteq S!Active
  BY DEF S!Active, InRange
<1>2. CASE S!Active = {}
  BY <1>2, Selection
<1>3. CASE S!Active # {}
  <2>1. Latest(S!Active) \in StageId /\ Earliest(S!Active) \in StageId
    BY <1>1, <1>3, ChosenStage
  <2>2. InRange(days) # {} => Latest(InRange(days)) \in StageId
    BY <1>1, ChosenStage
  <2> QED BY <1>3, <2>1, <2>2, Selection
<1> QED BY <1>2, <1>3

LEMMA StageType ==
  ASSUME S!TypeOK, S!Next
  PROVE  S!TypeOK'
<1>1. ASSUME NEW s \in StageId, NEW r \in S!Row, S!SaveStage(s, r) \/ S!BeginSave(s, r)
      PROVE  S!TypeOK'
  <2>1. [do |-> "write", stage |-> s, row |-> r] \in S!Write
    BY DEF S!Write
  <2> QED BY <1>1, <2>1 DEF S!TypeOK, S!SaveStage, S!BeginSave
<1>2. ASSUME NEW s \in StageId, S!DeleteStage(s)
      PROVE  S!TypeOK'
  <2> PICK r : r = [stages[s] EXCEPT !.isActive = FALSE]
    OBVIOUS
  <2>1. r \in S!Row
    BY <1>2 DEF S!TypeOK, S!DeleteStage, S!Row
  <2>2. stages' = [stages EXCEPT ![s] = r]
    BY <1>2 DEF S!DeleteStage
  <2> QED BY <1>2, <2>1, <2>2 DEF S!TypeOK, S!DeleteStage
<1>3. CASE S!EndSave \/ S!BeginDelete \/ S!EndDelete
  BY <1>3, JobKinds DEF S!TypeOK, S!EndSave, S!BeginDelete, S!EndDelete
<1>4. ASSUME NEW days \in S!CaseDays, S!Enroll(days) \/ S!Recompute(days)
      PROVE  S!TypeOK'
  <2>1. S!selectStageByDaysPastDue(days) \in StageId \cup {None}
    BY SelectedType
  <2> QED BY <1>4, <2>1 DEF S!TypeOK, S!Enroll, S!Recompute
<1>5. ASSUME NEW kind \in PastKind, S!Happens(kind)
      PROVE  S!TypeOK'
  BY <1>5 DEF S!TypeOK, S!Happens, S!Past
<1> QED BY <1>1, <1>2, <1>3, <1>4, <1>5 DEF S!Next

LEMMA StageStep ==
  ASSUME StageInv, [Next]_vars
  PROVE  StageInv'
<1>0. S!TypeOK /\ Apart /\ Deletable
  BY DEF StageInv
<1>1. ASSUME NEW s \in StageId, NEW r \in S!Row, S!SaveStage(s, r)
      PROVE  Apart' /\ Deletable'
  <2>1. ~overtaken' => ~overtaken /\ job.do # "write"
    BY <1>1 DEF S!SaveStage
  <2>2. Apart'
    BY <1>0, <1>1, <2>1, ActiveApart DEF Apart, S!SaveStage, S!Checked
  <2> QED BY <1>0, <1>1, <2>2 DEF Deletable, S!SaveStage
<1>2. ASSUME NEW s \in StageId, NEW r \in S!Row, S!BeginSave(s, r)
      PROVE  Apart' /\ Deletable'
  BY <1>0, <1>2 DEF Apart, Deletable, S!BeginSave, S!Checked, S!Active, S!stagesOverlap
<1>3. ASSUME S!EndSave
      PROVE  Apart' /\ Deletable'
  <2>1. PICK s \in StageId, r \in S!Row : s = job.stage /\ r = job.row
    BY <1>0, <1>3, JobKinds DEF S!EndSave
  <2>2. Apart'
    BY <1>0, <1>3, <2>1, ActiveApart DEF Apart, S!EndSave, S!NoJob
  <2> QED BY <1>0, <1>3, <2>2 DEF Deletable, S!EndSave, S!NoJob
<1>4. ASSUME NEW s \in StageId, S!DeleteStage(s)
      PROVE  Apart' /\ Deletable'
  <2>1. PICK r : r = [stages[s] EXCEPT !.isActive = FALSE]
    OBVIOUS
  <2>2. r \in S!Row /\ ~r.isActive /\ stages' = [stages EXCEPT ![s] = r]
    BY <1>0, <1>4, <2>1 DEF S!TypeOK, S!DeleteStage, S!Row
  <2>3. ~overtaken' => ~overtaken /\ job.do # "write"
    BY <1>4 DEF S!DeleteStage
  <2>4. Apart'
    BY <1>0, <1>4, <2>2, <2>3, ActiveApart DEF Apart, S!DeleteStage
  <2> QED BY <1>0, <1>4, <2>4 DEF Deletable, S!DeleteStage
<1>5. ASSUME \/ S!BeginDelete \/ S!EndDelete \/ (\E kind \in PastKind : S!Happens(kind))
             \/ (\E days \in S!CaseDays : S!Enroll(days) \/ S!Recompute(days)) \/ UNCHANGED strategies
      PROVE  Apart' /\ Deletable'
  <2>1. /\ stages' = stages /\ (overtaken => overtaken')
        /\ job' = job \/ job'.do # "write"
    BY <1>0, <1>5 DEF S!BeginDelete, S!EndDelete, S!Happens, S!Enroll, S!Recompute, S!NoJob, strategies,
                      S!TypeOK
  <2>2. Apart'
    BY <1>0, <2>1 DEF Apart, S!Active, S!stagesOverlap
  <2>3. Deletable'
    <3>1. CASE S!BeginDelete \/ S!EndDelete
      BY <1>0, <3>1 DEF Deletable, S!BeginDelete, S!EndDelete, S!NoJob, S!getDeletability
    <3>2. ASSUME NEW kind \in PastKind, S!Happens(kind)
          PROVE  Deletable'
      BY <1>0, <3>2 DEF Deletable, S!Happens, S!TypeOK
    <3>3. ASSUME NEW days \in S!CaseDays, S!Enroll(days) \/ S!Recompute(days)
          PROVE  Deletable'
      BY <1>0, <3>3 DEF Deletable, S!Enroll, S!Recompute
    <3>4. CASE UNCHANGED strategies
      BY <1>0, <3>4 DEF Deletable, strategies
    <3> QED BY <1>5, <3>1, <3>2, <3>3, <3>4
  <2> QED BY <2>2, <2>3
<1>6. CASE S!Next
  BY <1>0, <1>1, <1>2, <1>3, <1>4, <1>5, <1>6, StageType DEF StageInv, S!Next
<1>7. CASE UNCHANGED strategies
  <2>1. S!TypeOK'
    BY <1>0, <1>7 DEF S!TypeOK, strategies
  <2> QED BY <1>5, <1>7, <2>1 DEF StageInv
<1> QED BY <1>6, <1>7, FlowSteps

LEMMA StageInit ==
  ASSUME Init PROVE StageInv
<1>1. S!Init
  BY DEF Init
<1> QED BY <1>1 DEF S!Init, StageInv, Apart, Deletable, S!TypeOK, S!NoJob, S!Past, S!Active

\* Two active stages that share a day overlap.
LEMMA ShareNoDay ==
  ASSUME StageInv PROVE S!StagesApart
<1> SUFFICES ASSUME ~overtaken, NEW s \in S!Active, NEW t \in S!Active, NEW days \in S!PastDue,
                    S!Covers(stages[s].range, days), S!Covers(stages[t].range, days), s # t
             PROVE  FALSE
  BY DEF S!StagesApart
<1>1. MaxDays \in Nat /\ None \notin Int
  BY FlowAssumption DEF FlowAssumption, S!StrategyAssumption
<1>2. stages[s] \in S!Row /\ stages[t] \in S!Row
  BY DEF StageInv, S!TypeOK, S!Active
<1>3. S!rangesOverlap(stages[s].range, stages[t].range)
  BY <1>1, <1>2 DEF S!Covers, S!rangesOverlap, S!Row, S!DayRange, S!PastDue
<1> QED BY <1>3 DEF StageInv, Apart

\* An open range is the last, so a stage above every maximum is the open one.
LEMMA SelectedFits ==
  ASSUME StageInv PROVE S!StageFits
<1> SUFFICES ASSUME NEW days \in S!CaseDays, ~overtaken, NEW s \in S!Active,
                    S!Covers(stages[s].range, days)
             PROVE  S!selectStageByDaysPastDue(days) = s
  BY DEF S!StageFits
<1>1. MaxDays \in Nat /\ None \notin Int
  BY FlowAssumption DEF FlowAssumption, S!StrategyAssumption
<1>2. \A t \in S!Active : stages[t] \in S!Row
  BY DEF StageInv, S!TypeOK, S!Active
<1>3. CASE ~Beyond(days)
  <2>1. days \in S!PastDue
    BY <1>1 DEF S!PastDue, S!CaseDays
  <2>2. InRange(days) = {s}
    BY <2>1, ShareNoDay DEF InRange, S!StagesApart
  <2>3. Latest(InRange(days)) \in {s}
    BY <2>2, ChosenStage DEF StageInv
  <2> QED BY <1>3, <2>2, <2>3, Selection
<1>4. CASE Beyond(days)
  <2>1. stages[s].range.max = None
    BY <1>1, <1>2, <1>4 DEF Beyond, Bounded, S!Covers, S!Row, S!DayRange, S!PastDue, S!CaseDays
  <2>2. ASSUME NEW t \in S!Active, Start(s) <= Start(t), t # s
        PROVE  FALSE
    <3>1. S!rangesOverlap(stages[t].range, stages[s].range)
      BY <1>1, <1>2, <2>1, <2>2 DEF S!rangesOverlap, Start, S!Row, S!DayRange, S!PastDue
    <3> QED BY <2>2, <3>1 DEF StageInv, Apart
  <2>3. Latest(S!Active) \in S!Active /\ Start(s) <= Start(Latest(S!Active))
    BY ChosenStage DEF StageInv
  <2> QED BY <1>4, <2>2, <2>3, Selection
<1> QED BY <1>3, <1>4

\* A case gets a stage its days are in whenever there is one, the active stages share no
\* day, and a deleted strategy had no past, but for requests that overtook a check.
THEOREM StagesStayFit == Spec => []StagesFit
<1>1. Init => StageInv
  BY StageInit
<1>2. StageInv /\ [Next]_vars => StageInv'
  BY StageStep
<1>3. StageInv => StagesFit
  BY ShareNoDay, SelectedFits DEF StagesFit, StageInv, Deletable, S!DeletedHadNoPast
<1> QED BY <1>1, <1>2, <1>3, PTL DEF Spec

-----------------------------------------------------------------------------
(***************************************************************************)
(* Delivery.  A sender is before its call, between the call and the        *)
(* writing of the answer, or after; and what is on its way from the        *)
(* provider is not newer than what the provider has done.                  *)
(***************************************************************************)
CallAt(who) == IF who = "stage" THEN 5 ELSE IF who = "call" THEN 2 ELSE 3

Clicking(e) == {h \in Handler : handler[h].at = "click" /\ handler[h].says = e}

SenderInv ==
  /\ pos >= 1 => pos <= Len(D!TheScript.steps)
  /\ pos >= 1 /\ pos <= CallAt(sender) => provider = "none"
  /\ pos >= 1 /\ pos <= CallAt(sender) + 1 =>
       row.status \in {"none", "queued"} /\ ~row.ref /\ ~twin
  /\ pos = D!Caught => lost \/ provider \in {"none", "refused"}

ReportInv ==
  /\ \A h \in Handler : handler[h].at # "idle" => row.ref
  /\ \A h \in Handler : handler[h].at = "report" => handler[h].says \in D!Reported /\ D!Reportable(handler[h].says)
  /\ row.status = "delivered" => top >= 2
  /\ row.status = "failed" => top = 3 \/ lost \/ provider \in {"none", "refused"}

ClickInv ==
  /\ \A e \in D!EventType :
       /\ IsFiniteSet(Clicking(e))
       /\ row.aiData.count[e] <= seen[e]
       /\ \A h \in Handler : handler[h].at # "idle" => handler[h].read.count[e] <= seen[e]
       /\ \A h \in Clicking(e) : handler[h].read.count[e] < seen[e]
  /\ \A h \in Handler : handler[h].at = "click" => handler[h].says \in D!EventType
  /\ ~raced => \A h \in Handler :
       handler[h].at # "idle" /\ ~handler[h].stale => handler[h].read = row.aiData

DeliveryInv ==
  D!TypeOK /\ SenderInv /\ ReportInv /\ ClickInv /\ D!FailedMeansRefused /\ D!ClicksCounted

\* The steps s of a sender call the provider at k, and write its answer next.
Plan(s, k) ==
  /\ Len(s) \in 4 .. 7 /\ k \in 1 .. Len(s)
  /\ \A p \in 1 .. Len(s) :
       /\ s[p] = "call" <=> p = k
       /\ s[p] = "sent" <=> p = k + 1
       /\ s[p] = "row" => p < k

LEMMA Plans ==
  /\ Plan(D!StageSms.steps, 5) /\ Plan(D!StageEmail.steps, 5)
  /\ Plan(D!CallSms.steps, 2) /\ Plan(D!CallEmail.steps, 2)
  /\ Plan(D!DemoSms.steps, 3) /\ Plan(D!DemoEmail.steps, 3)
<1>1. ASSUME NEW s, s \in {D!StageSms.steps, D!StageEmail.steps}
      PROVE  Plan(s, 5)
  <2>1. Len(s) = 7
    BY <1>1 DEF D!StageSms, D!StageEmail
  <2>2. /\ s[1] = "skip" /\ s[2] \in {"skip", "link"} /\ s[3] \in {"skip", "link"} /\ s[4] = "row"
        /\ s[5] = "call" /\ s[6] = "sent" /\ s[7] = "event"
    BY <1>1 DEF D!StageSms, D!StageEmail
  <2> QED BY <2>1, <2>2 DEF Plan
<1>2. ASSUME NEW s, s \in {D!CallSms.steps, D!CallEmail.steps}
      PROVE  Plan(s, 2)
  <2>1. Len(s) = 4 /\ s[1] = "skip" /\ s[2] = "call" /\ s[3] = "sent" /\ s[4] = "event"
    BY <1>2 DEF D!CallSms, D!CallEmail
  <2> QED BY <2>1 DEF Plan
<1>3. ASSUME NEW s, s \in {D!DemoSms.steps, D!DemoEmail.steps}
      PROVE  Plan(s, 3)
  <2>1. Len(s) = 4 /\ s[1] = "skip" /\ s[2] = "link" /\ s[3] = "call" /\ s[4] = "sent"
    BY <1>3 DEF D!DemoSms, D!DemoEmail
  <2> QED BY <2>1 DEF Plan
<1> QED BY <1>1, <1>2, <1>3

LEMMA ScriptFacts ==
  ASSUME NEW who \in D!Sender, NEW ch \in D!Channel
  PROVE  Plan(D!Script(who, ch).steps, CallAt(who))
<1>1. CASE who = "stage"
  <2>1. D!Script(who, ch) \in {D!StageSms, D!StageEmail}
    BY <1>1, Zenon DEF D!Script
  <2> QED BY <1>1, <2>1, Plans DEF CallAt
<1>2. CASE who = "call"
  <2>1. D!Script(who, ch) \in {D!CallSms, D!CallEmail}
    BY <1>2, Zenon DEF D!Script
  <2> QED BY <1>2, <2>1, Plans DEF CallAt
<1>3. CASE who = "demo"
  <2>1. D!Script(who, ch) \in {D!DemoSms, D!DemoEmail}
    BY <1>3, Zenon DEF D!Script
  <2> QED BY <1>3, <2>1, Plans DEF CallAt
<1> QED BY <1>1, <1>2, <1>3 DEF D!Sender

LEMMA CountIs ==
  ASSUME NEW X
  PROVE  D!Cardinality(X) = Cardinality(X) /\ L!Cardinality(X) = Cardinality(X)
BY DEF D!Cardinality, L!Cardinality, Cardinality

LEMMA Ranks ==
  /\ D!Rank("queued") = 1 /\ D!Rank("sent") = 2 /\ D!Rank("other") = 2
  /\ D!Rank("delivered") = 3 /\ D!Rank("undelivered") = 3
BY Zenon DEF D!Rank

LEMMA Statuses ==
  /\ D!mapSmsStatus("queued") = "in_progress" /\ D!mapSmsStatus("sent") = "delivered"
  /\ D!mapSmsStatus("delivered") = "delivered" /\ D!mapSmsStatus("undelivered") = "failed"
  /\ D!mapSmsStatus("other") = "other"
BY Zenon DEF D!mapSmsStatus

LEMMA DeliveryInit ==
  ASSUME Init PROVE DeliveryInv
<1>1. D!Init /\ pos = 1 /\ sender \in D!Sender /\ channel \in D!Channel
  BY DEF Init, D!Init
<1>2. MaxClickList \in Nat \ {0} /\ MaxClicks \in Nat /\ None \notin D!Sender
  BY FlowAssumption DEF FlowAssumption, D!DeliveryAssumption
<1>3. /\ D!NoEvents \in [D!EventType -> 0 .. MaxClicks] /\ \A e \in D!EventType : D!NoEvents[e] = 0
      /\ D!NoRow \in D!RowRecord /\ D!NoRequest \in D!HandlerRecord
  <2>1. D!NoEvents \in [D!EventType -> 0 .. MaxClicks] /\ \A e \in D!EventType : D!NoEvents[e] = 0
    BY <1>2 DEF D!NoEvents
  <2>2. D!NoData \in D!LinkData
    BY <1>2, <2>1 DEF D!NoData, D!LinkData
  <2> QED BY <2>1, <2>2 DEF D!NoRow, D!RowRecord, D!NoRequest, D!HandlerRecord
<1>4. D!TypeOK
  <2>1. handler \in [Handler -> D!HandlerRecord]
    BY <1>1, <1>3 DEF D!Init
  <2>2. pos \in D!Caught .. 7 /\ (pos = D!Over <=> sender = None)
    BY <1>1, <1>2 DEF D!Caught, D!Over
  <2>3. row \in D!RowRecord /\ twin \in BOOLEAN /\ lost \in BOOLEAN /\ raced \in BOOLEAN
    BY <1>1, <1>3 DEF D!Init
  <2>4. /\ provider \in D!Reported \cup {"none", "refused"}
        /\ top \in 0 .. 3 /\ seen \in [D!EventType -> 0 .. MaxClicks]
    BY <1>1, <1>2, <1>3 DEF D!Init
  <2> QED BY <1>1, <2>1, <2>2, <2>3, <2>4 DEF D!TypeOK
<1>5. SenderInv
  <2>1. Plan(D!TheScript.steps, CallAt(sender))
    BY <1>1, ScriptFacts DEF D!TheScript
  <2> QED BY <1>1, <2>1 DEF Plan, D!Init, SenderInv, D!NoRow, D!Caught
<1>6. ReportInv
  BY <1>1 DEF D!Init, ReportInv, D!NoRow, D!NoRequest
<1>7. /\ \A h \in Handler : handler[h].at = "idle"
      /\ \A e \in D!EventType : seen[e] = 0 /\ row.aiData.count[e] = 0
      /\ row.aiData.list = 0
  BY <1>1, <1>3 DEF D!Init, D!NoRequest, D!NoRow, D!NoData
<1>10. \A e \in D!EventType : Clicking(e) = {}
  BY <1>7 DEF Clicking
<1>8. ClickInv
  BY <1>7, <1>10, FS_EmptySet DEF ClickInv
<1>9. D!ClicksCounted
  <2>1. \A e \in D!EventType :
          D!Cardinality({h \in Handler : handler[h].at = "click" /\ handler[h].says = e}) = 0
    BY <1>10, CountIs, FS_EmptySet DEF Clicking
  <2>2. "click" \in D!EventType /\ "preview" \in D!EventType
    BY DEF D!EventType
  <2> QED BY <1>2, <1>7, <2>1, <2>2 DEF D!ClicksCounted
<1> QED BY <1>1, <1>4, <1>5, <1>6, <1>8, <1>9 DEF D!Init, DeliveryInv, D!FailedMeansRefused, D!NoRow

LEMMA AtFacts ==
  ASSUME D!TypeOK, SenderInv, D!Sending
  PROVE  /\ sender \in D!Sender /\ CallAt(sender) \in {2, 3, 5} /\ pos \in 1 .. 7
         /\ Len(D!TheScript.steps) \in 4 .. 7 /\ pos \in 1 .. Len(D!TheScript.steps)
         /\ D!At("call") => pos = CallAt(sender)
         /\ D!At("sent") => pos = CallAt(sender) + 1
         /\ D!At("row") => pos < CallAt(sender)
<1>1. sender \in D!Sender /\ channel \in D!Channel /\ pos \in 1 .. 7
  BY DEF D!TypeOK, D!Sending, D!Over, D!Caught
<1>2. Plan(D!TheScript.steps, CallAt(sender))
  BY <1>1, ScriptFacts DEF D!TheScript
<1>3. pos \in 1 .. Len(D!TheScript.steps)
  BY <1>1, <1>2 DEF Plan, SenderInv
<1> QED BY <1>1, <1>2, <1>3 DEF Plan, D!At, CallAt

LEMMA NotLast ==
  ASSUME NEW n \in 4 .. 7, NEW m \in 1 .. n, m # n PROVE m \in 1 .. 6 /\ m + 1 <= n
OBVIOUS

LEMMA GoneOn ==
  ASSUME D!TypeOK, SenderInv, D!Sending, D!GoOn
  PROVE  /\ sender' \in D!Sender \cup {None} /\ pos' \in D!Caught .. 7 /\ (pos' = D!Over <=> sender' = None)
         /\ \/ pos' = D!Over
            \/ pos' = pos + 1 /\ sender' = sender /\ pos' <= Len(D!TheScript.steps)
<1>1. /\ pos \in 1 .. Len(D!TheScript.steps) /\ Len(D!TheScript.steps) \in 4 .. 7 /\ sender \in D!Sender
      /\ None \notin D!Sender
  BY AtFacts, FlowAssumption DEF FlowAssumption, D!DeliveryAssumption
<1>2. CASE pos = Len(D!TheScript.steps)
  BY <1>1, <1>2 DEF D!GoOn, D!GoTo, D!Over, D!Caught
<1>3. CASE pos # Len(D!TheScript.steps)
  <2>1. pos \in 1 .. 6 /\ pos + 1 <= Len(D!TheScript.steps)
    BY <1>1, <1>3, NotLast, Zenon
  <2>2. pos' = pos + 1
    BY <1>3 DEF D!GoOn, D!GoTo
  <2>3. pos' \in 1 .. 7 /\ pos' # D!Over /\ pos' \in D!Caught .. 7 /\ pos' <= Len(D!TheScript.steps)
    BY <1>1, <2>1, <2>2 DEF D!Over, D!Caught
  <2>4. sender' = sender
    BY <1>3, <2>2, <2>3 DEF D!GoOn, D!GoTo
  <2> QED BY <1>1, <2>2, <2>3, <2>4
<1> QED BY <1>2, <1>3

LEMMA Stopped ==
  ASSUME D!TypeOK, pos # D!Over, NEW p \in {D!Over, D!Caught}, D!GoTo(p)
  PROVE  /\ sender' \in D!Sender \cup {None} /\ pos' \in D!Caught .. 7 /\ (pos' = D!Over <=> sender' = None)
         /\ pos' = p
<1>1. sender \in D!Sender /\ None \notin D!Sender
  BY FlowAssumption DEF FlowAssumption, D!DeliveryAssumption, D!TypeOK
<1> QED BY <1>1 DEF D!GoTo, D!Over, D!Caught

\* What a write makes of the requests: they are as they were, and have read an old row.
LEMMA OutdatedFacts ==
  ASSUME handler \in [Handler -> D!HandlerRecord]
  PROVE  /\ D!Outdated \in [Handler -> D!HandlerRecord]
         /\ \A h \in Handler : /\ D!Outdated[h].at = handler[h].at
                               /\ D!Outdated[h].read = handler[h].read
                               /\ D!Outdated[h].says = handler[h].says
                               /\ D!Outdated[h].stale = (handler[h].at # "idle")
BY DEF D!Outdated, D!HandlerRecord

\* The steps that neither count an event nor begin or end a request.
LEMMA ClicksKept ==
  ASSUME ClickInv, D!ClicksCounted,
         \A h \in Handler : /\ handler'[h].at = handler[h].at /\ handler'[h].read = handler[h].read
                            /\ handler'[h].says = handler[h].says,
         UNCHANGED <<seen, raced>>, row'.aiData = row.aiData,
         \A h \in Handler : handler'[h].at # "idle" /\ ~handler'[h].stale
                              => row' = row /\ ~handler[h].stale
  PROVE  ClickInv' /\ D!ClicksCounted'
<1>1. \A e : Clicking(e)' = Clicking(e)
  BY DEF Clicking
<1>2. ClickInv'
  <2>1. ASSUME NEW e \in D!EventType
        PROVE  /\ IsFiniteSet(Clicking(e))' /\ row'.aiData.count[e] <= seen'[e]
               /\ \A h \in Handler : handler'[h].at # "idle" => handler'[h].read.count[e] <= seen'[e]
               /\ \A h \in Clicking(e)' : handler'[h].read.count[e] < seen'[e]
    <3>1. Clicking(e)' = Clicking(e) /\ Clicking(e) \subseteq Handler
      BY <1>1 DEF Clicking
    <3> QED BY <3>1 DEF ClickInv
  <2>2. \A h \in Handler : handler'[h].at = "click" => handler'[h].says \in D!EventType
    BY DEF ClickInv
  <2>3. ~raced' => \A h \in Handler :
          handler'[h].at # "idle" /\ ~handler'[h].stale => handler'[h].read = row'.aiData
    BY DEF ClickInv
  <2> QED BY <2>1, <2>2, <2>3 DEF ClickInv, D!EventType
<1>3. D!ClicksCounted'
  <2>1. \A e : {h \in Handler : handler'[h].at = "click" /\ handler'[h].says = e}
               = {h \in Handler : handler[h].at = "click" /\ handler[h].says = e}
    OBVIOUS
  <2> QED BY <2>1 DEF D!ClicksCounted, D!EventType
<1> QED BY <1>2, <1>3

\* A sender that goes on or stops without a word to the provider.
LEMMA QuietSteps ==
  ASSUME DeliveryInv, D!Skip \/ D!Proceed \/ D!Throw \/ D!Crash
  PROVE  DeliveryInv'
<1>0. /\ D!TypeOK /\ SenderInv /\ ReportInv /\ ClickInv /\ D!FailedMeansRefused /\ D!ClicksCounted
      /\ UNCHANGED <<channel, row, twin, provider, handler, top, seen, raced>>
      /\ (lost => lost') /\ lost' \in BOOLEAN
  BY DEF DeliveryInv, D!TypeOK, D!Skip, D!Proceed, D!Throw, D!Crash
<1>1. /\ sender' \in D!Sender \cup {None} /\ pos' \in D!Caught .. 7 /\ (pos' = D!Over <=> sender' = None)
      /\ \/ pos' = D!Over
         \/ pos' = D!Caught /\ (lost' \/ provider = "none")
         \/ pos' = pos + 1 /\ sender' = sender /\ pos' <= Len(D!TheScript.steps) /\ pos \in 1 .. 7
  <2>1. CASE D!Skip
    <3>1. pos # D!Over /\ D!GoTo(D!Over)
      BY <2>1 DEF D!Skip, D!At, D!Sending, D!Over
    <3> QED BY <1>0, <3>1, Stopped
  <2>2. CASE D!Proceed
    <3>1. D!Sending /\ D!GoOn
      BY <2>2 DEF D!Proceed, D!At
    <3> QED BY <1>0, <3>1, GoneOn, AtFacts
  <2>3. CASE D!Throw
    <3>1. PICK p : /\ p = IF pos >= D!TheScript.try THEN D!Caught ELSE D!Over
                   /\ D!GoTo(p)
      BY <2>3 DEF D!Throw
    <3>2. pos # D!Over
      BY <2>3 DEF D!Throw, D!Sending, D!Over
    <3>3. lost' \/ provider = "none"
      BY <1>0, <2>3 DEF D!Throw
    <3> QED BY <1>0, <3>1, <3>2, <3>3, Stopped
  <2>4. CASE D!Crash
    BY <1>0, <2>4, Stopped DEF D!Crash
  <2> QED BY <2>1, <2>2, <2>3, <2>4
<1>2. D!TypeOK'
  BY <1>0, <1>1 DEF D!TypeOK
<1>3. SenderInv'
  <2>1. CASE pos' = D!Over \/ pos' = D!Caught
    BY <1>0, <1>1, <2>1 DEF SenderInv, D!Over, D!Caught
  <2>2. CASE pos' = pos + 1 /\ sender' = sender /\ pos' <= Len(D!TheScript.steps) /\ pos \in 1 .. 7
    <3>1. D!TheScript' = D!TheScript /\ CallAt(sender)' = CallAt(sender)
      BY <1>0, <2>2 DEF D!TheScript
    <3>2. CallAt(sender) \in {2, 3, 5}
      BY DEF CallAt
    <3> QED BY <1>0, <2>2, <3>1, <3>2 DEF SenderInv, D!Caught
  <2> QED BY <1>1, <2>1, <2>2
<1>4. ReportInv'
  BY <1>0 DEF ReportInv, D!Reportable
<1>5. ClickInv' /\ D!ClicksCounted'
  BY <1>0, ClicksKept
<1>6. D!FailedMeansRefused'
  BY <1>0 DEF D!FailedMeansRefused
<1> QED BY <1>2, <1>3, <1>4, <1>5, <1>6 DEF DeliveryInv

\* Before the provider is called nobody knows of the message.
LEMMA NoRequests ==
  ASSUME ReportInv, ~row.ref
  PROVE  \A h \in Handler : handler[h].at = "idle"
BY DEF ReportInv

LEMMA QueueStep ==
  ASSUME DeliveryInv, D!Queue
  PROVE  DeliveryInv'
<1>0. /\ D!TypeOK /\ SenderInv /\ ReportInv /\ ClickInv /\ D!FailedMeansRefused /\ D!ClicksCounted
      /\ D!Sending /\ D!At("row") /\ D!GoOn /\ row \in D!RowRecord
  BY DEF DeliveryInv, D!TypeOK, D!Queue, D!At
<1>1. /\ sender' \in D!Sender \cup {None} /\ pos' \in D!Caught .. 7 /\ (pos' = D!Over <=> sender' = None)
      /\ \/ pos' = D!Over
         \/ pos' = pos + 1 /\ sender' = sender /\ pos' <= Len(D!TheScript.steps)
  BY <1>0, GoneOn
<1>2. pos \in 1 .. 7 /\ CallAt(sender) \in {2, 3, 5} /\ pos < CallAt(sender)
  BY <1>0, AtFacts
<1>3. /\ provider = "none" /\ row.status \in {"none", "queued"} /\ ~row.ref /\ ~twin
  BY <1>0, <1>2 DEF SenderInv
<1>4. /\ row' \in D!RowRecord /\ row'.status = "queued" /\ row'.ref = row.ref
      /\ row'.aiData = row.aiData
      /\ UNCHANGED <<channel, twin, provider, handler, top, seen, lost, raced>>
  BY <1>0 DEF D!Queue, D!RowRecord
<1>5. D!TypeOK'
  BY <1>0, <1>1, <1>4 DEF D!TypeOK
<1>6. SenderInv'
  <2>1. CASE pos' = D!Over
    BY <2>1 DEF SenderInv, D!Over, D!Caught
  <2>2. CASE pos' = pos + 1 /\ sender' = sender /\ pos' <= Len(D!TheScript.steps)
    <3>1. D!TheScript' = D!TheScript /\ CallAt(sender)' = CallAt(sender)
      BY <1>4, <2>2 DEF D!TheScript
    <3> QED BY <1>2, <1>3, <1>4, <2>2, <3>1 DEF SenderInv, D!Caught
  <2> QED BY <1>1, <2>1, <2>2
<1>7. ReportInv'
  BY <1>0, <1>4 DEF ReportInv, D!Reportable
<1>8. ClickInv' /\ D!ClicksCounted'
  BY <1>0, <1>3, <1>4, NoRequests, ClicksKept
<1>9. D!FailedMeansRefused'
  BY <1>3, <1>4 DEF D!FailedMeansRefused
<1> QED BY <1>5, <1>6, <1>7, <1>8, <1>9 DEF DeliveryInv

LEMMA CallSteps ==
  ASSUME DeliveryInv, (\E heard \in BOOLEAN : D!Accept(heard)) \/ D!Refuse
  PROVE  DeliveryInv'
<1>0. /\ D!TypeOK /\ SenderInv /\ ReportInv /\ ClickInv /\ D!FailedMeansRefused /\ D!ClicksCounted
      /\ D!Sending /\ D!At("call") /\ pos # D!Over
      /\ UNCHANGED <<channel, row, twin, handler, top, seen, raced>>
  BY DEF DeliveryInv, D!Accept, D!Refuse, D!At, D!Sending, D!Over
<1>1. /\ provider' \in {"queued", "refused"} /\ lost' \in BOOLEAN
      /\ D!GoOn \/ (D!GoTo(D!Caught) /\ (lost' \/ provider' = "refused"))
  BY <1>0 DEF D!Accept, D!Refuse, D!TypeOK
<1>2. pos = CallAt(sender) /\ CallAt(sender) \in {2, 3, 5}
  BY <1>0, AtFacts
<1>3. provider = "none" /\ row.status \in {"none", "queued"} /\ ~row.ref /\ ~twin
  BY <1>0, <1>2 DEF SenderInv
<1>4. /\ sender' \in D!Sender \cup {None} /\ pos' \in D!Caught .. 7 /\ (pos' = D!Over <=> sender' = None)
      /\ \/ pos' = D!Over
         \/ pos' = D!Caught /\ (lost' \/ provider' = "refused")
         \/ pos' = pos + 1 /\ sender' = sender /\ pos' <= Len(D!TheScript.steps)
  BY <1>0, <1>1, GoneOn, Stopped
<1>5. D!TypeOK'
  BY <1>0, <1>1, <1>4 DEF D!TypeOK, D!Reported
<1>6. SenderInv'
  <2>1. CASE \/ pos' = D!Over
             \/ pos' = D!Caught /\ (lost' \/ provider' = "refused")
    BY <2>1 DEF SenderInv, D!Over, D!Caught
  <2>2. CASE pos' = pos + 1 /\ sender' = sender /\ pos' <= Len(D!TheScript.steps)
    <3>1. D!TheScript' = D!TheScript /\ CallAt(sender)' = CallAt(sender)
      BY <1>0, <2>2 DEF D!TheScript
    <3> QED BY <1>0, <1>2, <1>3, <2>2, <3>1 DEF SenderInv, D!Caught
  <2> QED BY <1>4, <2>1, <2>2
<1>7. ReportInv'
  <2>1. \A h \in Handler : handler'[h].at = "idle"
    BY <1>0, <1>3, NoRequests
  <2> QED BY <1>0, <1>3, <2>1 DEF ReportInv
<1>8. ClickInv' /\ D!ClicksCounted'
  BY <1>0, ClicksKept
<1>9. D!FailedMeansRefused'
  BY <1>0, <1>3 DEF D!FailedMeansRefused
<1> QED BY <1>5, <1>6, <1>7, <1>8, <1>9 DEF DeliveryInv

LEMMA SentStep ==
  ASSUME DeliveryInv, D!RecordSent
  PROVE  DeliveryInv'
<1>0. /\ D!TypeOK /\ SenderInv /\ ReportInv /\ ClickInv /\ D!FailedMeansRefused /\ D!ClicksCounted
      /\ D!Sending /\ D!At("sent") /\ D!GoOn /\ row \in D!RowRecord
      /\ handler \in [Handler -> D!HandlerRecord]
  BY DEF DeliveryInv, D!TypeOK, D!RecordSent, D!At
<1>1. /\ sender' \in D!Sender \cup {None} /\ pos' \in D!Caught .. 7 /\ (pos' = D!Over <=> sender' = None)
      /\ \/ pos' = D!Over
         \/ pos' = pos + 1 /\ sender' = sender /\ pos' <= Len(D!TheScript.steps)
  BY <1>0, GoneOn
<1>2. pos = CallAt(sender) + 1 /\ CallAt(sender) \in {2, 3, 5}
  BY <1>0, AtFacts
<1>3. /\ row' \in D!RowRecord /\ row'.status = "sent" /\ row'.ref
      /\ row'.aiData = row.aiData
      /\ UNCHANGED <<channel, twin, provider, top, seen, lost, raced>>
      /\ handler' = D!Outdated
  BY <1>0 DEF D!RecordSent, D!RowRecord
<1>4. /\ handler' \in [Handler -> D!HandlerRecord]
      /\ \A h \in Handler : /\ handler'[h].at = handler[h].at /\ handler'[h].read = handler[h].read
                            /\ handler'[h].says = handler[h].says
                            /\ handler'[h].stale = (handler[h].at # "idle")
  BY <1>0, <1>3, OutdatedFacts
<1>5. D!TypeOK'
  BY <1>0, <1>1, <1>3, <1>4 DEF D!TypeOK
<1>6. SenderInv'
  <2>1. CASE pos' = D!Over
    BY <2>1 DEF SenderInv, D!Over, D!Caught
  <2>2. CASE pos' = pos + 1 /\ sender' = sender /\ pos' <= Len(D!TheScript.steps)
    <3>1. D!TheScript' = D!TheScript /\ CallAt(sender)' = CallAt(sender)
      BY <1>3, <2>2 DEF D!TheScript
    <3> QED BY <1>2, <1>3, <2>2, <3>1 DEF SenderInv, D!Caught
  <2> QED BY <1>1, <2>1, <2>2
<1>7. ReportInv'
  BY <1>0, <1>3, <1>4 DEF ReportInv, D!Reportable
<1>8. ClickInv' /\ D!ClicksCounted'
  BY <1>0, <1>3, <1>4, ClicksKept
<1>9. D!FailedMeansRefused'
  BY <1>0, <1>3 DEF D!FailedMeansRefused
<1> QED BY <1>5, <1>6, <1>7, <1>8, <1>9 DEF DeliveryInv

LEMMA CatchStep ==
  ASSUME DeliveryInv, D!RecordFailed
  PROVE  DeliveryInv'
<1>0. /\ D!TypeOK /\ SenderInv /\ ReportInv /\ ClickInv /\ D!FailedMeansRefused /\ D!ClicksCounted
      /\ row \in D!RowRecord /\ handler \in [Handler -> D!HandlerRecord]
      /\ pos = D!Caught /\ pos # D!Over /\ D!GoTo(D!Over) /\ handler' = D!Outdated
      /\ UNCHANGED <<channel, provider, top, seen, lost, raced>>
  BY DEF DeliveryInv, D!TypeOK, D!RecordFailed, D!Caught, D!Over
<1>1. /\ sender' \in D!Sender \cup {None} /\ pos' \in D!Caught .. 7 /\ (pos' = D!Over <=> sender' = None)
      /\ pos' = D!Over
  BY <1>0, Stopped
<1>2. lost \/ provider \in {"none", "refused"}
  BY <1>0 DEF SenderInv
<1>3. /\ row' \in D!RowRecord /\ row'.ref = row.ref /\ twin' \in BOOLEAN
      /\ row'.aiData = row.aiData
      /\ row'.status \in {"failed", row.status}
  BY <1>0 DEF D!RecordFailed, D!RowRecord, D!TypeOK
<1>4. /\ handler' \in [Handler -> D!HandlerRecord]
      /\ \A h \in Handler : /\ handler'[h].at = handler[h].at /\ handler'[h].read = handler[h].read
                            /\ handler'[h].says = handler[h].says
                            /\ handler'[h].stale = (handler[h].at # "idle")
  BY <1>0, OutdatedFacts
<1>5. D!TypeOK'
  BY <1>0, <1>1, <1>3, <1>4 DEF D!TypeOK
<1>6. SenderInv'
  BY <1>1 DEF SenderInv, D!Over, D!Caught
<1>7. ReportInv'
  BY <1>0, <1>2, <1>3, <1>4 DEF ReportInv, D!Reportable
<1>8. ClickInv' /\ D!ClicksCounted'
  BY <1>0, <1>3, <1>4, ClicksKept
<1>9. D!FailedMeansRefused'
  BY <1>0, <1>2 DEF D!FailedMeansRefused
<1> QED BY <1>5, <1>6, <1>7, <1>8, <1>9 DEF DeliveryInv

LEMMA RankOrder ==
  /\ \A r \in D!Reported : D!Rank(r) \in 1 .. 3
  /\ \A r \in D!Reported : D!Rank(r) = 3 => r \in {"delivered", "undelivered"}
BY Ranks DEF D!Reported

\* The provider moves on.
LEMMA ProviderSteps ==
  ASSUME DeliveryInv, NEW to \in D!Reported, D!Progress(to)
  PROVE  DeliveryInv'
<1>0. /\ D!TypeOK /\ SenderInv /\ ReportInv /\ ClickInv /\ D!FailedMeansRefused /\ D!ClicksCounted
      /\ UNCHANGED <<channel, sender, pos, row, twin, handler, top, seen, lost, raced>>
      /\ provider \in D!Reported
  BY DEF DeliveryInv, D!Progress
<1>1. provider' \in D!Reported /\ D!Rank(provider') = D!Rank(provider) + 1
  BY <1>0 DEF D!Progress
<1>2. D!TypeOK'
  BY <1>0, <1>1 DEF D!TypeOK
<1>3. SenderInv'
  <2>1. D!TheScript' = D!TheScript
    BY <1>0 DEF D!TheScript
  <2>2. provider \notin {"none", "refused"} /\ provider' \notin {"none", "refused"}
    BY <1>0, <1>1 DEF D!Reported
  <2> QED BY <1>0, <2>1, <2>2 DEF SenderInv
<1>4. \A r \in D!Reported : D!Reportable(r) => D!Reportable(r)'
  <2>1. \A r \in D!Reported : (r = provider \/ D!Rank(r) < D!Rank(provider))
                                => r = provider' \/ D!Rank(r) < D!Rank(provider')
    BY <1>0, <1>1, RankOrder
  <2> QED BY <1>1, <2>1 DEF D!Reportable
<1>5. ReportInv'
  <2>1. \A h \in Handler : handler'[h].at = "report" => handler'[h].says \in D!Reported
                                                        /\ D!Reportable(handler[h].says)'
    BY <1>0, <1>4 DEF ReportInv
  <2>2. provider \notin {"none", "refused"}
    BY <1>0 DEF D!Reported
  <2> QED BY <1>0, <2>1, <2>2 DEF ReportInv, D!Reportable
<1>6. ClickInv' /\ D!ClicksCounted'
  BY <1>0, ClicksKept
<1>7. D!FailedMeansRefused'
  <2>1. provider # "undelivered"
    BY <1>1, Ranks, RankOrder
  <2>2. provider \notin {"none", "refused"}
    BY <1>0 DEF D!Reported
  <2> QED BY <1>0, <2>1, <2>2 DEF D!FailedMeansRefused
<1> QED BY <1>2, <1>3, <1>5, <1>6, <1>7 DEF DeliveryInv

\* What a request that begins, or ends, does to those of its type.
LEMMA ClickBegins ==
  ASSUME NEW e, IsFiniteSet(Clicking(e)), NEW h \in Handler, Clicking(e)' = Clicking(e) \cup {h},
         h \notin Clicking(e)
  PROVE  /\ IsFiniteSet(Clicking(e)') /\ Cardinality(Clicking(e)') = Cardinality(Clicking(e)) + 1
         /\ Cardinality(Clicking(e)) \in Nat
BY FS_AddElement, FS_CardinalityType

LEMMA ClickEnds ==
  ASSUME NEW e, IsFiniteSet(Clicking(e)), NEW h \in Clicking(e), Clicking(e)' = Clicking(e) \ {h}
  PROVE  /\ IsFiniteSet(Clicking(e)') /\ Cardinality(Clicking(e)') = Cardinality(Clicking(e)) - 1
         /\ Cardinality(Clicking(e)) \in Nat /\ Cardinality(Clicking(e)') \in Nat
BY FS_RemoveElement, FS_CardinalityType

\* The count, said with the sets named here.
All(data) == data.count["click"] + data.count["preview"]

Counted ==
  ~raced => /\ \A e \in D!EventType : row.aiData.count[e] = seen[e] - Cardinality(Clicking(e))
            /\ row.aiData.list = D!Trimmed(All(row.aiData))

LEMMA CountedIs ==
  /\ D!ClicksCounted <=> Counted
  /\ D!ClicksCounted' <=> Counted'
<1>1. \A e : /\ D!Cardinality({h \in Handler : handler[h].at = "click" /\ handler[h].says = e})
                  = Cardinality(Clicking(e))
            /\ D!Cardinality({h \in Handler : handler'[h].at = "click" /\ handler'[h].says = e})
                  = Cardinality(Clicking(e)')
  BY CountIs DEF Clicking
<1> QED BY <1>1 DEF D!ClicksCounted, Counted, D!Trimmed, All, D!EventType

\* What a record of the link is made of.
LEMMA DataFacts ==
  ASSUME NEW data \in D!LinkData, NEW e \in D!EventType
  PROVE  /\ data.count[e] \in 0 .. MaxClicks /\ data.count[e] \in Nat
         /\ data.list \in 0 .. MaxClickList /\ data.list \in Nat /\ All(data) \in Nat
         /\ data.count \in [D!EventType -> 0 .. MaxClicks]
<1>1. MaxClickList \in Nat \ {0} /\ MaxClicks \in Nat
  BY FlowAssumption DEF FlowAssumption, D!DeliveryAssumption
<1>2. "click" \in D!EventType /\ "preview" \in D!EventType
  BY DEF D!EventType
<1>3. data.count \in [D!EventType -> 0 .. MaxClicks] /\ data.list \in 0 .. MaxClickList
  BY DEF D!LinkData
<1>4. \A f \in D!EventType : data.count[f] \in 0 .. MaxClicks /\ data.count[f] \in Nat
  BY <1>1, <1>3
<1> QED BY <1>1, <1>2, <1>3, <1>4 DEF All

\* A request that ends with a write: the others have read an old row.
LEMMA Written ==
  ASSUME handler \in [Handler -> D!HandlerRecord], NEW h \in Handler,
         handler' = [D!Outdated EXCEPT ![h] = D!NoRequest]
  PROVE  /\ handler' \in [Handler -> D!HandlerRecord] /\ handler'[h] = D!NoRequest
         /\ D!NoRequest.at = "idle"
         /\ \A g \in Handler \ {h} : /\ handler'[g].at = handler[g].at
                                     /\ handler'[g].read = handler[g].read
                                     /\ handler'[g].says = handler[g].says
                                     /\ handler'[g].stale = (handler[g].at # "idle")
<1>1. MaxClickList \in Nat \ {0} /\ MaxClicks \in Nat
  BY FlowAssumption DEF FlowAssumption, D!DeliveryAssumption
<1>2. D!NoRequest \in D!HandlerRecord /\ D!NoRequest.at = "idle"
  BY <1>1 DEF D!NoRequest, D!HandlerRecord, D!NoData, D!NoEvents, D!LinkData
<1>3. D!Outdated \in [Handler -> D!HandlerRecord]
  BY OutdatedFacts
<1>4. handler' \in [Handler -> D!HandlerRecord] /\ handler'[h] = D!NoRequest
      /\ \A g \in Handler \ {h} : handler'[g] = D!Outdated[g]
  BY <1>2, <1>3
<1> QED BY <1>2, <1>4, OutdatedFacts

LEMMA TakeReports ==
  ASSUME DeliveryInv, NEW h \in Handler, NEW r \in D!Reported, D!TakeReport(h, r)
  PROVE  DeliveryInv'
<1>0. /\ D!TypeOK /\ SenderInv /\ ReportInv /\ ClickInv /\ D!FailedMeansRefused /\ Counted
      /\ handler \in [Handler -> D!HandlerRecord] /\ row \in D!RowRecord
      /\ UNCHANGED <<channel, sender, pos, row, twin, provider, top, seen, lost, raced>>
      /\ handler[h].at = "idle" /\ row.ref /\ D!Reportable(r)
  BY CountedIs DEF DeliveryInv, D!TypeOK, D!TakeReport
<1>1. PICK x : x = [at |-> "report", says |-> r, read |-> row.aiData, stale |-> FALSE]
  OBVIOUS
<1>2. x \in D!HandlerRecord
  BY <1>0, <1>1 DEF D!HandlerRecord, D!RowRecord
<1>3. handler' = [handler EXCEPT ![h] = x]
  BY <1>1 DEF D!TakeReport
<1>4. /\ handler' \in [Handler -> D!HandlerRecord]
      /\ \A g \in Handler \ {h} : handler'[g] = handler[g]
      /\ handler'[h] = x
  BY <1>0, <1>2, <1>3
<1>5. D!TypeOK'
  BY <1>0, <1>4 DEF D!TypeOK
<1>6. SenderInv'
  BY <1>0 DEF SenderInv, D!TheScript
<1>7. ReportInv'
  <2>1. \A g \in Handler : /\ handler'[g].at # "idle" => row.ref
                           /\ handler'[g].at = "report" => handler'[g].says \in D!Reported
                                                           /\ D!Reportable(handler'[g].says)
    <3>1. ASSUME NEW g \in Handler, handler'[g] = handler[g]
          PROVE  /\ handler'[g].at # "idle" => row.ref
                 /\ handler'[g].at = "report" => handler'[g].says \in D!Reported
                                                 /\ D!Reportable(handler'[g].says)
      BY <1>0, <3>1 DEF ReportInv, D!Reportable
    <3> QED BY <1>0, <1>1, <1>4, <3>1
  <2> QED BY <1>0, <2>1 DEF ReportInv, D!Reportable
<1>8. \A e : Clicking(e)' = Clicking(e)
  BY <1>0, <1>1, <1>4 DEF Clicking
<1>9. ClickInv'
  <2>1. \A g \in Handler : handler'[g].at # "idle" =>
          handler'[g] = handler[g] \/ (handler'[g].read = row.aiData /\ handler'[g].at = "report")
    BY <1>0, <1>1, <1>4
  <2>2. ASSUME NEW e \in D!EventType
        PROVE  /\ IsFiniteSet(Clicking(e))' /\ row'.aiData.count[e] <= seen'[e]
               /\ \A g \in Handler : handler'[g].at # "idle" => handler'[g].read.count[e] <= seen'[e]
               /\ \A g \in Clicking(e)' : handler'[g].read.count[e] < seen'[e]
    <3>1. Clicking(e)' = Clicking(e)
      BY <1>8
    <3>2. \A g \in Clicking(e) : g \in Handler /\ handler'[g] = handler[g]
      BY <1>0, <1>4 DEF Clicking
    <3> QED BY <1>0, <2>1, <3>1, <3>2 DEF ClickInv
  <2>3. \A g \in Handler : handler'[g].at = "click" => handler'[g].says \in D!EventType
    BY <1>0, <2>1 DEF ClickInv
  <2>4. ~raced' => \A g \in Handler :
          handler'[g].at # "idle" /\ ~handler'[g].stale => handler'[g].read = row'.aiData
    BY <1>0, <2>1 DEF ClickInv
  <2> QED BY <2>2, <2>3, <2>4 DEF ClickInv, D!EventType
<1>10. D!ClicksCounted'
  <2>1. \A e \in D!EventType : Cardinality(Clicking(e)') = Cardinality(Clicking(e))
    BY <1>8
  <2>2. Counted'
    BY <1>0, <2>1 DEF Counted, All, D!Trimmed, D!EventType
  <2> QED BY <2>2, CountedIs
<1>11. D!FailedMeansRefused'
  BY <1>0 DEF D!FailedMeansRefused
<1> QED BY <1>5, <1>6, <1>7, <1>9, <1>10, <1>11 DEF DeliveryInv

LEMMA WriteReports ==
  ASSUME DeliveryInv, NEW h \in Handler, D!WriteReport(h)
  PROVE  DeliveryInv'
<1>0. /\ D!TypeOK /\ SenderInv /\ ReportInv /\ ClickInv /\ D!FailedMeansRefused /\ Counted
      /\ handler \in [Handler -> D!HandlerRecord] /\ row \in D!RowRecord
      /\ handler[h].at = "report" /\ raced \in BOOLEAN
      /\ UNCHANGED <<channel, sender, pos, twin, provider, seen, lost>>
      /\ raced' = (raced \/ handler[h].stale)
  BY CountedIs DEF DeliveryInv, D!TypeOK, D!WriteReport
<1> PICK r, read : r = handler[h].says /\ read = handler[h].read
  OBVIOUS
<1>1. r \in D!Reported /\ D!Reportable(r) /\ read \in D!LinkData /\ row.ref /\ top \in 0 .. 3
  BY <1>0 DEF ReportInv, D!HandlerRecord, D!TypeOK
<1>2. /\ row' \in D!RowRecord /\ row'.ref /\ row'.status = D!mapSmsStatus(r)
      /\ row'.aiData = read
  <2>1. D!mapSmsStatus(r) \in {"in_progress", "delivered", "failed", "other"}
    BY <1>1, Statuses DEF D!Reported
  <2> QED BY <1>0, <1>1, <2>1 DEF D!WriteReport, D!ReportedRow, D!RowRecord
<1>3. /\ handler' \in [Handler -> D!HandlerRecord] /\ handler'[h].at = "idle"
      /\ \A g \in Handler \ {h} : /\ handler'[g].at = handler[g].at
                                  /\ handler'[g].read = handler[g].read
                                  /\ handler'[g].says = handler[g].says
                                  /\ handler'[g].stale = (handler[g].at # "idle")
  BY <1>0, Written DEF D!WriteReport
<1>4. /\ top' \in 0 .. 3 /\ top' >= top /\ top' >= D!Rank(r)
  BY <1>1, RankOrder DEF D!WriteReport
<1>5. D!TypeOK'
  BY <1>0, <1>2, <1>3, <1>4 DEF D!TypeOK, D!HandlerRecord
<1>6. SenderInv'
  BY <1>0, <1>1, <1>2 DEF SenderInv, D!TheScript
<1>7. ReportInv'
  <2>1. /\ D!mapSmsStatus(r) = "delivered" => top' >= 2
        /\ D!mapSmsStatus(r) = "failed" => top' = 3
    BY <1>1, <1>4, Ranks, Statuses DEF D!Reported
  <2>2. ASSUME NEW g \in Handler, handler'[g].at = "report"
        PROVE  handler'[g].says \in D!Reported /\ D!Reportable(handler'[g].says)
    <3>1. g # h /\ handler[g].at = "report" /\ handler'[g].says = handler[g].says
      BY <1>3, <2>2
    <3> QED BY <1>0, <3>1 DEF ReportInv, D!Reportable
  <2> QED BY <1>0, <1>2, <2>1, <2>2 DEF ReportInv, D!Reportable
<1>8. \A e : Clicking(e)' = Clicking(e)
  BY <1>0, <1>3 DEF Clicking
<1>9. ~raced' => ~raced /\ read = row.aiData
  BY <1>0 DEF ClickInv
<1>10. ClickInv'
  <2>1. ASSUME NEW e \in D!EventType
        PROVE  /\ IsFiniteSet(Clicking(e))' /\ row'.aiData.count[e] <= seen'[e]
               /\ \A g \in Handler : handler'[g].at # "idle" => handler'[g].read.count[e] <= seen'[e]
               /\ \A g \in Clicking(e)' : handler'[g].read.count[e] < seen'[e]
    <3>1. Clicking(e)' = Clicking(e)
      BY <1>8
    <3>2. \A g \in Clicking(e) : g \in Handler /\ g # h /\ handler'[g].read = handler[g].read
      BY <1>0, <1>3 DEF Clicking
    <3>3. \A g \in Handler : handler'[g].at # "idle" =>
            handler[g].at # "idle" /\ handler'[g].read = handler[g].read
      BY <1>3
    <3> QED BY <1>0, <1>2, <3>1, <3>2, <3>3 DEF ClickInv
  <2>2. \A g \in Handler : handler'[g].at = "click" => handler'[g].says \in D!EventType
    BY <1>0, <1>3 DEF ClickInv
  <2>3. \A g \in Handler : handler'[g].at # "idle" => handler'[g].stale
    BY <1>3
  <2> QED BY <2>1, <2>2, <2>3 DEF ClickInv, D!EventType
<1>11. D!ClicksCounted'
  <2>1. \A e \in D!EventType : Cardinality(Clicking(e)') = Cardinality(Clicking(e))
    BY <1>8
  <2>2. Counted'
    BY <1>0, <1>2, <1>9, <2>1 DEF Counted, All, D!Trimmed, D!EventType
  <2> QED BY <2>2, CountedIs
<1>12. D!FailedMeansRefused'
  <2>1. D!mapSmsStatus(r) = "failed" => provider = "undelivered"
    BY <1>1, Ranks, RankOrder, Statuses DEF D!Reportable, D!Reported
  <2> QED BY <1>0, <1>2, <2>1 DEF D!FailedMeansRefused
<1> QED BY <1>5, <1>6, <1>7, <1>10, <1>11, <1>12 DEF DeliveryInv

LEMMA TakeClicks ==
  ASSUME DeliveryInv, NEW h \in Handler, NEW k \in D!EventType, D!TakeClick(h, k)
  PROVE  DeliveryInv'
<1>0. /\ D!TypeOK /\ SenderInv /\ ReportInv /\ ClickInv /\ D!FailedMeansRefused /\ Counted
      /\ handler \in [Handler -> D!HandlerRecord] /\ row \in D!RowRecord
      /\ UNCHANGED <<channel, sender, pos, row, twin, provider, top, lost, raced>>
      /\ handler[h].at = "idle" /\ row.ref /\ seen["click"] + seen["preview"] < MaxClicks
      /\ seen' = [seen EXCEPT ![k] = @ + 1] /\ seen \in [D!EventType -> 0 .. MaxClicks]
  BY CountedIs DEF DeliveryInv, D!TypeOK, D!TakeClick
<1>1. PICK x : x = [at |-> "click", says |-> k, read |-> row.aiData, stale |-> FALSE]
  OBVIOUS
<1>2. x \in D!HandlerRecord
  BY <1>0, <1>1 DEF D!HandlerRecord, D!RowRecord
<1>3. /\ handler' \in [Handler -> D!HandlerRecord] /\ handler'[h] = x
      /\ \A g \in Handler \ {h} : handler'[g] = handler[g]
  BY <1>0, <1>1, <1>2 DEF D!TakeClick
<1>4. /\ MaxClicks \in Nat /\ seen' \in [D!EventType -> 0 .. MaxClicks]
      /\ seen'[k] = seen[k] + 1 /\ \A e \in D!EventType \ {k} : seen'[e] = seen[e]
      /\ \A e \in D!EventType : seen[e] \in Nat /\ seen'[e] \in Nat /\ seen[e] <= seen'[e]
  <2>1. MaxClicks \in Nat
    BY FlowAssumption DEF FlowAssumption, D!DeliveryAssumption
  <2>2. \A e \in D!EventType : seen[e] \in Nat
    BY <1>0, <2>1
  <2>3. seen[k] + 1 \in 0 .. MaxClicks
    <3>1. seen["click"] \in Nat /\ seen["preview"] \in Nat /\ k \in {"click", "preview"}
      BY <2>2 DEF D!EventType
    <3> QED BY <1>0, <2>1, <3>1
  <2> QED BY <1>0, <2>1, <2>2, <2>3
<1>5. D!TypeOK'
  BY <1>0, <1>3, <1>4 DEF D!TypeOK, D!EventType
<1>6. SenderInv'
  BY <1>0 DEF SenderInv, D!TheScript
<1>7. ReportInv'
  BY <1>0, <1>1, <1>3 DEF ReportInv, D!Reportable
<1>8. /\ Clicking(k)' = Clicking(k) \cup {h} /\ h \notin Clicking(k)
      /\ \A e \in D!EventType \ {k} : Clicking(e)' = Clicking(e)
  BY <1>0, <1>1, <1>3 DEF Clicking
<1>9. /\ IsFiniteSet(Clicking(k)') /\ Cardinality(Clicking(k)') = Cardinality(Clicking(k)) + 1
      /\ Cardinality(Clicking(k)) \in Nat
  BY <1>0, <1>8, ClickBegins DEF ClickInv
<1>10. ClickInv'
  <2>1. ASSUME NEW e \in D!EventType
        PROVE  /\ IsFiniteSet(Clicking(e))' /\ row'.aiData.count[e] <= seen'[e]
               /\ \A g \in Handler : handler'[g].at # "idle" => handler'[g].read.count[e] <= seen'[e]
               /\ \A g \in Clicking(e)' : handler'[g].read.count[e] < seen'[e]
    <3>1. IsFiniteSet(Clicking(e))'
      BY <1>0, <1>8, <1>9 DEF ClickInv
    <3>2. row.aiData.count[e] \in Nat /\ row.aiData.count[e] <= seen[e]
      BY <1>0, DataFacts DEF ClickInv, D!RowRecord
    <3>3. ASSUME NEW g \in Handler, handler'[g].at # "idle"
          PROVE  /\ handler'[g].read.count[e] <= seen'[e]
                 /\ g \in Clicking(e)' => handler'[g].read.count[e] < seen'[e]
      <4>1. CASE g = h
        <5>1. handler'[g].read = row.aiData /\ (g \in Clicking(e)' => e = k)
          BY <1>1, <1>3, <4>1 DEF Clicking
        <5> QED BY <1>4, <3>2, <5>1
      <4>2. CASE g # h
        <5>1. handler'[g] = handler[g] /\ handler[g].at # "idle" /\ handler[g].read \in D!LinkData
          BY <1>0, <1>3, <3>3, <4>2 DEF D!HandlerRecord
        <5>2. handler[g].read.count[e] \in Nat
          BY <5>1, DataFacts
        <5>3. handler[g].read.count[e] <= seen[e]
          BY <1>0, <5>1 DEF ClickInv
        <5>4. g \in Clicking(e)' => handler[g].read.count[e] < seen[e]
          BY <1>0, <5>1 DEF ClickInv, Clicking
        <5> QED BY <1>4, <5>1, <5>2, <5>3, <5>4
      <4> QED BY <4>1, <4>2
    <3>4. \A g \in Clicking(e)' : g \in Handler /\ handler'[g].at # "idle"
      BY DEF Clicking
    <3>5. row'.aiData.count[e] <= seen'[e]
      BY <1>0, <1>4, <3>2
    <3> QED BY <3>1, <3>3, <3>4, <3>5
  <2>2. \A g \in Handler : handler'[g].at = "click" => handler'[g].says \in D!EventType
    BY <1>0, <1>1, <1>3 DEF ClickInv
  <2>3. ~raced' => \A g \in Handler :
          handler'[g].at # "idle" /\ ~handler'[g].stale => handler'[g].read = row'.aiData
    BY <1>0, <1>1, <1>3 DEF ClickInv
  <2> QED BY <2>1, <2>2, <2>3 DEF ClickInv, D!EventType
<1>11. D!ClicksCounted'
  <2>1. \A e \in D!EventType : seen'[e] - Cardinality(Clicking(e)') = seen[e] - Cardinality(Clicking(e))
    BY <1>4, <1>8, <1>9
  <2>2. Counted'
    BY <1>0, <2>1 DEF Counted, All, D!Trimmed, D!EventType
  <2> QED BY <2>2, CountedIs
<1>12. D!FailedMeansRefused'
  BY <1>0 DEF D!FailedMeansRefused
<1> QED BY <1>5, <1>6, <1>7, <1>10, <1>11, <1>12 DEF DeliveryInv

LEMMA WriteClicks ==
  ASSUME DeliveryInv, NEW h \in Handler, D!WriteClick(h)
  PROVE  DeliveryInv'
<1>0. /\ D!TypeOK /\ SenderInv /\ ReportInv /\ ClickInv /\ D!FailedMeansRefused /\ Counted
      /\ handler \in [Handler -> D!HandlerRecord] /\ row \in D!RowRecord
      /\ handler[h].at = "click" /\ handler[h].says \in D!EventType /\ raced \in BOOLEAN
      /\ UNCHANGED <<channel, sender, pos, twin, provider, top, seen, lost>>
      /\ raced' = (raced \/ handler[h].stale) /\ seen \in [D!EventType -> 0 .. MaxClicks]
  BY CountedIs DEF DeliveryInv, D!TypeOK, D!WriteClick, ClickInv
<1> PICK k, read : k = handler[h].says /\ read = handler[h].read
  OBVIOUS
<1>1. MaxClickList \in Nat \ {0} /\ MaxClicks \in Nat /\ k \in D!EventType /\ h \in Clicking(k)
  BY <1>0, FlowAssumption DEF FlowAssumption, D!DeliveryAssumption, Clicking
<1>2. /\ read \in D!LinkData /\ read.list \in 0 .. MaxClickList /\ row.ref
      /\ read.count \in [D!EventType -> 0 .. MaxClicks]
      /\ \A e \in D!EventType : /\ read.count[e] \in Nat /\ read.count[e] <= seen[e]
                                /\ seen[e] \in Nat /\ seen[e] <= MaxClicks
      /\ read.count[k] < seen[k]
  <2>1. read \in D!LinkData /\ row.ref
    BY <1>0 DEF D!HandlerRecord, ReportInv
  <2>2. \A e \in D!EventType : read.count[e] \in Nat /\ read.count[e] <= seen[e]
    BY <1>0, <2>1, DataFacts DEF ClickInv
  <2>3. \A e \in D!EventType : seen[e] \in Nat /\ seen[e] <= MaxClicks
    BY <1>0, <1>1
  <2>4. read.count[k] < seen[k]
    BY <1>0, <1>1 DEF ClickInv
  <2> QED BY <1>1, <2>1, <2>2, <2>3, <2>4, DataFacts
<1>3. D!Trimmed(read.list + 1) \in 0 .. MaxClickList
  BY <1>1, <1>2 DEF D!Trimmed
<1> PICK now : now = [read.count EXCEPT ![k] = @ + 1]
  OBVIOUS
<1>15. /\ now \in [D!EventType -> 0 .. MaxClicks]
       /\ now[k] = read.count[k] + 1 /\ \A e \in D!EventType \ {k} : now[e] = read.count[e]
       /\ \A e \in D!EventType : now[e] <= seen[e]
  <2>1. read.count[k] + 1 \in 0 .. MaxClicks /\ read.count[k] + 1 <= seen[k]
    BY <1>1, <1>2
  <2> QED BY <1>1, <1>2, <2>1
<1>4. /\ row' \in D!RowRecord /\ row'.ref = row.ref /\ row'.status = row.status
      /\ row'.aiData.count = now /\ row'.aiData.list = D!Trimmed(read.list + 1)
  <2>1. PICK data : data = [count |-> now, list |-> D!Trimmed(read.list + 1)]
    OBVIOUS
  <2>2. data \in D!LinkData
    BY <1>3, <1>15, <2>1 DEF D!LinkData
  <2>3. row' = [row EXCEPT !.aiData = data]
    BY <2>1 DEF D!WriteClick
  <2> QED BY <1>0, <2>1, <2>2, <2>3 DEF D!RowRecord
<1>5. /\ handler' \in [Handler -> D!HandlerRecord] /\ handler'[h].at = "idle"
      /\ \A g \in Handler \ {h} : /\ handler'[g].at = handler[g].at
                                  /\ handler'[g].read = handler[g].read
                                  /\ handler'[g].says = handler[g].says
                                  /\ handler'[g].stale = (handler[g].at # "idle")
  BY <1>0, Written DEF D!WriteClick
<1>6. D!TypeOK'
  BY <1>0, <1>4, <1>5 DEF D!TypeOK, D!HandlerRecord
<1>7. SenderInv'
  BY <1>0, <1>4 DEF SenderInv, D!TheScript
<1>8. ReportInv'
  <2>1. ASSUME NEW g \in Handler, handler'[g].at = "report"
        PROVE  handler'[g].says \in D!Reported /\ D!Reportable(handler'[g].says)
    <3>1. g # h /\ handler[g].at = "report" /\ handler'[g].says = handler[g].says
      BY <1>5, <2>1
    <3> QED BY <1>0, <3>1 DEF ReportInv, D!Reportable
  <2> QED BY <1>0, <1>2, <1>4, <2>1 DEF ReportInv, D!Reportable
<1>9. /\ Clicking(k)' = Clicking(k) \ {h}
      /\ \A e \in D!EventType \ {k} : Clicking(e)' = Clicking(e)
  <2>1. \A e \in D!EventType \ {k} : h \notin Clicking(e)
    BY DEF Clicking
  <2> QED BY <1>0, <1>5, <2>1 DEF Clicking
<1>10. /\ IsFiniteSet(Clicking(k)') /\ Cardinality(Clicking(k)') = Cardinality(Clicking(k)) - 1
       /\ Cardinality(Clicking(k)) \in Nat
  BY <1>0, <1>1, <1>9, ClickEnds DEF ClickInv
<1>11. ~raced' => ~raced /\ read = row.aiData
  BY <1>0 DEF ClickInv
<1>12. ClickInv'
  <2>1. ASSUME NEW e \in D!EventType
        PROVE  /\ IsFiniteSet(Clicking(e))' /\ row'.aiData.count[e] <= seen'[e]
               /\ \A g \in Handler : handler'[g].at # "idle" => handler'[g].read.count[e] <= seen'[e]
               /\ \A g \in Clicking(e)' : handler'[g].read.count[e] < seen'[e]
    <3>1. IsFiniteSet(Clicking(e))'
      BY <1>0, <1>9, <1>10 DEF ClickInv
    <3>2. Clicking(e)' \subseteq Clicking(e) \ {h}
      BY <1>9 DEF Clicking
    <3>3. \A g \in Clicking(e)' : g \in Clicking(e) /\ handler'[g].read = handler[g].read
      BY <1>5, <3>2 DEF Clicking
    <3>4. \A g \in Handler : handler'[g].at # "idle" =>
            handler[g].at # "idle" /\ handler'[g].read = handler[g].read
      BY <1>5
    <3>5. row'.aiData.count[e] <= seen'[e]
      BY <1>0, <1>4, <1>15
    <3> QED BY <1>0, <3>1, <3>3, <3>4, <3>5 DEF ClickInv
  <2>2. \A g \in Handler : handler'[g].at = "click" => handler'[g].says \in D!EventType
    BY <1>0, <1>5 DEF ClickInv
  <2>3. \A g \in Handler : handler'[g].at # "idle" => handler'[g].stale
    BY <1>5
  <2> QED BY <2>1, <2>2, <2>3 DEF ClickInv, D!EventType
<1>13. D!ClicksCounted'
  <2>1. ASSUME ~raced'
        PROVE  /\ \A e \in D!EventType : row'.aiData.count[e] = seen'[e] - Cardinality(Clicking(e)')
               /\ row'.aiData.list = D!Trimmed(All(row'.aiData))
    <3>1. /\ \A e \in D!EventType : read.count[e] = seen[e] - Cardinality(Clicking(e))
          /\ read.list = D!Trimmed(All(read))
      BY <1>0, <1>11, <2>1 DEF Counted
    <3>2. \A e \in D!EventType : row'.aiData.count[e] = seen'[e] - Cardinality(Clicking(e)')
      <4>1. row'.aiData.count[k] = seen[k] - (Cardinality(Clicking(k)) - 1)
        BY <1>1, <1>2, <1>4, <1>10, <1>15, <3>1
      <4>2. ASSUME NEW e \in D!EventType, e # k
            PROVE  row'.aiData.count[e] = seen'[e] - Cardinality(Clicking(e)')
        <5>1. row'.aiData.count[e] = read.count[e] /\ seen'[e] = seen[e]
          BY <1>0, <1>4, <1>15, <4>2
        <5>2. Clicking(e)' = Clicking(e)
          BY <1>9, <4>2
        <5> QED BY <3>1, <5>1, <5>2
      <4>3. row'.aiData.count[k] = seen'[k] - Cardinality(Clicking(k)')
        BY <1>0, <1>10, <4>1
      <4> QED BY <4>2, <4>3
    <3>3. All(row'.aiData) = All(read) + 1 /\ All(read) \in Nat
      <4>1. k \in {"click", "preview"} /\ "click" \in D!EventType /\ "preview" \in D!EventType
        BY <1>1 DEF D!EventType
      <4> QED BY <1>2, <1>4, <1>15, <4>1 DEF All
    <3>4. row'.aiData.list = D!Trimmed(All(row'.aiData))
      BY <1>1, <1>2, <1>4, <3>1, <3>3 DEF D!Trimmed
    <3> QED BY <3>2, <3>4
  <2>2. Counted'
    BY <2>1 DEF Counted, All, D!Trimmed, D!EventType
  <2> QED BY <2>2, CountedIs
<1>14. D!FailedMeansRefused'
  BY <1>0, <1>4 DEF D!FailedMeansRefused
<1> QED BY <1>6, <1>7, <1>8, <1>12, <1>13, <1>14 DEF DeliveryInv

LEMMA DeliveryStep ==
  ASSUME DeliveryInv, [Next]_vars
  PROVE  DeliveryInv'
<1>1. CASE D!Next
  BY <1>1, QuietSteps, QueueStep, CallSteps, SentStep, CatchStep, ProviderSteps, TakeReports, WriteReports,
     TakeClicks, WriteClicks DEF D!Next
<1>2. CASE UNCHANGED delivery
  <2>1. D!TypeOK' /\ SenderInv' /\ ReportInv' /\ D!FailedMeansRefused'
    BY <1>2 DEF delivery, DeliveryInv, D!TypeOK, SenderInv, D!TheScript, ReportInv, D!Reportable,
                D!FailedMeansRefused
  <2>2. ClickInv' /\ D!ClicksCounted'
    BY <1>2, ClicksKept DEF delivery, DeliveryInv
  <2> QED BY <2>1, <2>2 DEF DeliveryInv
<1> QED BY <1>1, <1>2, FlowSteps

\* A row says failed, or a second row does, only of a message that was refused or could
\* not be delivered, and every event of the link is counted with its type and listed, but
\* for what failed after the provider's yes and for requests that wrote over one another.
THEOREM DeliveryIsTold == Spec => []DeliveryTold
<1>1. Init => DeliveryInv
  BY DeliveryInit
<1>2. DeliveryInv /\ [Next]_vars => DeliveryInv'
  BY DeliveryStep
<1>3. DeliveryInv => DeliveryTold
  BY DEF DeliveryInv, DeliveryTold
<1> QED BY <1>1, <1>2, <1>3, PTL DEF Spec

\* An end that is written stays, until a report comes that is older than one already
\* written or of no known status, or something failed after the provider's yes.
THEOREM FinalStaysSo == Spec => FinalStays
<1>1. Init => DeliveryInv
  BY DeliveryInit
<1>2. DeliveryInv /\ [Next]_vars => DeliveryInv'
  BY DeliveryStep
<1>3. ASSUME DeliveryInv, [Next]_vars
      PROVE  D!FinalStaysStep
  <2>0. /\ D!TypeOK /\ SenderInv /\ ReportInv /\ row \in D!RowRecord /\ top \in 0 .. 3
        /\ handler \in [Handler -> D!HandlerRecord]
    BY <1>3 DEF DeliveryInv, D!TypeOK
  <2> SUFFICES ASSUME row.status \in {"delivered", "failed"}, row'.status \notin {"delivered", "failed"}
               PROVE  \E h \in Handler :
                        /\ handler[h].at = "report" /\ handler'[h] = D!NoRequest
                        /\ D!Rank(handler[h].says) < top \/ handler[h].says = "other" \/ lost
    BY DEF D!FinalStaysStep
  <2>1. CASE D!Queue \/ D!RecordSent
    <3>1. D!Sending /\ (D!At("row") \/ D!At("sent"))
      BY <2>1 DEF D!Queue, D!RecordSent, D!At
    <3>2. pos >= 1 /\ pos <= CallAt(sender) + 1
      BY <2>0, <3>1, AtFacts
    <3> QED BY <3>2, <2>0 DEF SenderInv
  <2>2. CASE D!RecordFailed
    BY <2>0, <2>2 DEF D!RecordFailed, D!RowRecord
  <2>3. ASSUME NEW h \in Handler, D!WriteReport(h)
        PROVE  /\ handler[h].at = "report" /\ handler'[h] = D!NoRequest
               /\ D!Rank(handler[h].says) < top \/ handler[h].says = "other" \/ lost
    <3>1. handler[h].at = "report" /\ handler' = [D!Outdated EXCEPT ![h] = D!NoRequest]
          /\ row' = D!ReportedRow(handler[h].read, handler[h].says)
      BY <2>3 DEF D!WriteReport
    <3>2. handler'[h] = D!NoRequest
      BY <2>0, <3>1, Written
    <3> PICK r : r = handler[h].says
      OBVIOUS
    <3>3. r \in D!Reported /\ provider \in D!Reported
      BY <2>0, <3>1 DEF ReportInv, D!Reportable
    <3>4. row'.status = D!mapSmsStatus(r)
      BY <2>0, <3>1 DEF D!ReportedRow, D!RowRecord
    <3>5. r \in {"queued", "other"}
      BY <3>3, <3>4, Statuses DEF D!Reported
    <3>6. top >= 2 \/ lost
      BY <2>0, <3>3 DEF ReportInv, D!Reported
    <3> QED BY <2>0, <3>1, <3>2, <3>5, <3>6, Ranks
  <2>4. ASSUME NEW h \in Handler, D!WriteClick(h)
        PROVE  row'.status = row.status
    BY <2>0, <2>4 DEF D!WriteClick, D!RowRecord
  <2>5. CASE UNCHANGED row
    BY <2>5
  <2>6. CASE UNCHANGED delivery
    BY <2>5, <2>6 DEF delivery
  <2>7. CASE D!Next
    BY <2>1, <2>2, <2>3, <2>4, <2>5, <2>7
       DEF D!Next, D!Skip, D!Proceed, D!Accept, D!Refuse, D!Throw, D!Crash, D!Progress,
           D!TakeReport, D!TakeClick
  <2> QED BY <1>3, <2>6, <2>7, FlowSteps
<1> QED BY <1>1, <1>2, <1>3, PTL DEF Spec, FinalStays
-----------------------------------------------------------------------------
(***************************************************************************)
(* The ledger: what the last step of a sync works out.                     *)
(***************************************************************************)
LEMMA LedgerFacts ==
  /\ Lease \subseteq Nat /\ Total \subseteq Nat /\ Late \subseteq Nat /\ Age \subseteq Int
  /\ ChargeAmount \in Nat /\ MaxDay \in Nat /\ MaxEdits \in Nat
  /\ IsFiniteSet(Lease) /\ IsFiniteSet(Charge) /\ IsFiniteSet(Payment)
  /\ None \notin Int /\ None \notin L!LeaseRow /\ None \notin L!AgingRow
  /\ None \notin Lease
<1>1. L!LedgerAssumption
  BY FlowAssumption DEF FlowAssumption
<1>2. None \notin Nat
  <2>1. \A n \in Nat : n \in Int
    OBVIOUS
  <2> QED BY <1>1, <2>1, Zenon DEF L!LedgerAssumption
<1> QED BY <1>1, <1>2, FiniteIs DEF L!LedgerAssumption

LEMMA Balances ==
  ASSUME L!TypeOK, NEW l \in Lease
  PROVE  /\ L!Computed(l) \in Int /\ L!Balance(l) \in Int /\ L!Positive(L!Balance(l)) \in Nat
         /\ L!WritesBalance(l) => L!Balance(l) \in Nat
         /\ L!Balance(l) > 0 => L!WritesBalance(l)
<1>1. /\ Cardinality(L!ChargesOf(l)) \in Nat /\ Cardinality(L!PaymentsOf(l)) \in Nat
  <2>1. L!ChargesOf(l) \in SUBSET Charge /\ L!PaymentsOf(l) \in SUBSET Payment
    BY DEF L!ChargesOf, L!PaymentsOf
  <2>2. IsFiniteSet(L!ChargesOf(l)) /\ IsFiniteSet(L!PaymentsOf(l))
    BY <2>1, FS_Subset, LedgerFacts
  <2> QED BY <2>2, FS_CardinalityType
<1>2. L!Computed(l) \in Int
  BY <1>1, CountIs, LedgerFacts DEF L!Computed
<1>3. L!Given(l) => items[l].total \in Nat
  BY LedgerFacts DEF L!Given, L!Listed, L!TypeOK, L!Item
<1>4. L!Balance(l) = IF L!Given(l) THEN items[l].total ELSE L!Computed(l)
  BY DEF L!Balance
<1> QED BY <1>2, <1>3, <1>4 DEF L!WritesBalance, L!Positive

LEMMA ChargeFacts ==
  ASSUME L!TypeOK, NEW c \in Charge, charges[c] # None
  PROVE  /\ charges[c] \in L!UnpaidCharge /\ charges[c].open \in Nat
         /\ charges[c].age \in Int /\ L!DaysPastDue(c) \in Int
<1>1. charges[c] \in L!UnpaidCharge /\ today \in Nat
  BY LedgerFacts DEF L!TypeOK, L!ChargeRow, L!Day
<1>2. charges[c].open \in 0 .. ChargeAmount /\ charges[c].age \in Age
  BY <1>1 DEF L!UnpaidCharge
<1>3. Age \subseteq Int /\ ChargeAmount \in Nat
  BY LedgerFacts
<1>4. charges[c].age \in Int
  BY <1>2, <1>3
<1>5. charges[c].open \in Nat
  BY <1>2, <1>3
<1> QED BY <1>1, <1>4, <1>5 DEF L!DaysPastDue

LEMMA OpenIsNat ==
  ASSUME L!TypeOK, NEW cs \in SUBSET {c \in Charge : charges[c] # None}
  PROVE  L!Open(cs) \in Nat
<1>1. IsFiniteSet(cs)
  <2>1. cs \in SUBSET Charge
    OBVIOUS
  <2> QED BY <2>1, FS_Subset, LedgerFacts
<1> DEFINE f == [c \in cs |-> charges[c].open]
<1>2. f \in [cs -> Nat]
  BY ChargeFacts
<1>3. L!SumFunction(f) \in Nat
  <2> HIDE DEF f
  <2> QED BY <1>1, <1>2, SumIsNat, SumIs
<1> QED BY <1>3 DEF L!Open

LEMMA Oldest ==
  ASSUME L!TypeOK, NEW l \in Lease
  PROVE  L!OldestDays(l) \in Nat
<1>1. CASE L!Late30(l) = {}
  BY <1>1 DEF L!OldestDays
<1>2. CASE L!Late30(l) # {}
  <2> DEFINE A == L!Late30(l)
             f == [c \in A |-> L!DaysPastDue(c)]
  <2>1. IsFiniteSet(A)
    <3>1. A \in SUBSET Charge
      BY DEF L!Late30, L!ChargesOf
    <3> QED BY <3>1, FS_Subset, LedgerFacts
  <2>2. f \in [A -> Nat]
    <3>1. \A c \in A : L!DaysPastDue(c) \in Nat
      BY ChargeFacts DEF L!Late30, L!ChargesOf
    <3> QED BY <3>1
  <2>3. {f[c] : c \in A} = {L!DaysPastDue(c) : c \in A}
    OBVIOUS
  <2>4. L!Max({f[c] : c \in A}) \in Nat
    <3> HIDE DEF A, f
    <3> QED BY <1>2, <2>1, <2>2, MaxOf DEF A
  <2> QED BY <1>2, <2>3, <2>4 DEF L!OldestDays
<1> QED BY <1>1, <1>2

LEMMA PastDueIsNat ==
  ASSUME L!TypeOK, NEW l \in Lease
  PROVE  L!PastDue(l) \in Nat
<1>1. L!Balance(l) \in Int
  BY Balances
<1>2. L!Open(L!Late30(l)) \in Nat
  BY OpenIsNat DEF L!Late30, L!ChargesOf
<1>3. ASSUME L!Balance(l) > 0, L!Given(l), items[l].late # None
      PROVE  L!Min({items[l].late, L!Balance(l)}) \in Nat
  <2>1. items[l].late \in Nat
    BY <1>3, LedgerFacts DEF L!Given, L!Listed, L!TypeOK, L!Item
  <2> DEFINE T == {items[l].late, L!Balance(l)}
  <2>2. T \subseteq Nat /\ T # {}
    BY <1>1, <1>3, <2>1
  <2>3. L!Min(T) \in T
    <3> HIDE DEF T
    <3> QED BY <2>2, LeastOf DEF L!Min
  <2> QED BY <2>2, <2>3
<1>4. CASE L!Balance(l) <= 0
  BY <1>1, <1>4 DEF L!PastDue
<1>5. CASE L!Balance(l) > 0
  BY <1>1, <1>2, <1>3, <1>5 DEF L!PastDue
<1> QED BY <1>1, <1>4, <1>5

LEMMA RiskIsRisk ==
  ASSUME NEW n \in Nat
  PROVE  L!RiskOf(n) \in L!Risk
BY DEF L!RiskOf, L!Risk

LEMMA BucketsAreNat ==
  ASSUME L!TypeOK, NEW ls \in SUBSET Lease
  PROVE  L!Buckets(ls) \in [L!Bucket -> Nat]
<1>1. ASSUME NEW b \in L!Bucket
      PROVE  L!Open({c \in UNION {L!Late30(l) : l \in ls} : L!BucketOf(L!DaysPastDue(c)) = b}) \in Nat
  BY OpenIsNat DEF L!Late30, L!ChargesOf
<1> QED BY <1>1 DEF L!Buckets

\* A sum over leases.
LEMMA LeaseSum ==
  ASSUME NEW ls \in SUBSET Lease, NEW f \in [ls -> Nat]
  PROVE  L!SumFunction(f) \in Nat
<1>1. IsFiniteSet(ls)
  BY FS_Subset, LedgerFacts
<1> QED BY <1>1, SumIsNat, SumIs

\* An aging row is of a lease that is known, and of a day that has come.
Dated ==
  \A l \in Lease, d \in L!Day : aging[l][d] # None => leases[l] # None /\ d <= today

\* What has been brought in since the PMS or the day changed: by the first step, by it and
\* the second, by it and the last.
LeasesIn ==
  "debtors_leases" \in done /\ debtorListed =>
    debtor /\ \A l \in L!Listed : leases[l] # None /\ leases[l].active = items[l].active
ChargesIn ==
  "debtors_leases" \in done /\ "charges" \in done /\ debtorListed =>
    \A c \in Charge : unpaid[c] # None /\ unpaid[c].lease \in L!Listed => charges[c] = unpaid[c]
BalancesIn ==
  "debtors_leases" \in done /\ "balances_aging" \in done /\ debtorListed =>
    \A l \in L!Listed : L!Given(l) => balances[l][today] = items[l].total

\* The lists of a sync are of the day, or those of the day before and nothing counts as
\* having run.
Fetched ==
  steps # <<>> => fetched \in L!Day /\ (fetched = today \/ done = {})

LedgerInv ==
  /\ L!TypeOK /\ Dated /\ Fetched
  /\ L!TotalsAddUp /\ L!OwedIsListed /\ L!RiskOfNewest
  /\ LeasesIn /\ ChargesIn /\ BalancesIn

LEMMA EverySteps ==
  L!AllSteps = {"debtors_leases", "charges", "payments", "balances_aging"}
<1>1. /\ L!ALL_STEPS[1] = "debtors_leases" /\ L!ALL_STEPS[2] = "charges"
      /\ L!ALL_STEPS[3] = "payments" /\ L!ALL_STEPS[4] = "balances_aging"
  BY DEF L!ALL_STEPS
<1>2. 1 .. 4 = {1, 2, 3, 4}
  OBVIOUS
<1> QED BY <1>1, <1>2 DEF L!AllSteps

LEMMA LaterSteps ==
  /\ "charges" \in L!Later("debtors_leases")
  /\ "balances_aging" \in L!Later("debtors_leases")
  /\ "balances_aging" \in L!Later("charges")
<1>1. /\ L!ALL_STEPS[1] = "debtors_leases" /\ L!ALL_STEPS[2] = "charges"
      /\ L!ALL_STEPS[4] = "balances_aging"
  BY DEF L!ALL_STEPS
<1>2. 1 \in 1 .. 2 - 1 /\ 1 \in 1 .. 4 - 1 /\ 2 \in 1 .. 4 - 1 /\ 2 \in 1 .. 4 /\ 4 \in 1 .. 4
  OBVIOUS
<1>3. /\ 2 \in {k \in 1 .. 4 : \E i \in 1 .. k - 1 : L!ALL_STEPS[i] = "debtors_leases"}
      /\ 4 \in {k \in 1 .. 4 : \E i \in 1 .. k - 1 : L!ALL_STEPS[i] = "debtors_leases"}
      /\ 4 \in {k \in 1 .. 4 : \E i \in 1 .. k - 1 : L!ALL_STEPS[i] = "charges"}
  BY <1>1, <1>2
<1> QED BY <1>1, <1>3 DEF L!Later

\* A step that is over: of a first time, the steps that come after it are not.
LEMMA Over ==
  ASSUME L!TypeOK, Fetched, UNCHANGED today, NEW s \in L!AllSteps, L!IsNext(s), L!Ran
  PROVE  /\ done' \subseteq L!AllSteps
         /\ done' = done \/ (done' = (done \ L!Later(s)) \cup {s})
         /\ fetched \in L!Day /\ fetched' \in L!Day \cup {None} /\ Fetched'
         /\ fetched # today => done' = {}
<1>1. fetched \in L!Day /\ (fetched = today \/ done = {})
  BY DEF Fetched, L!IsNext
<1>2. /\ done' = IF done = L!AllSteps \/ fetched # today THEN done
                 ELSE (done \ L!Later(s)) \cup {s}
      /\ steps' = Tail(steps)
      /\ fetched' = IF steps' = <<>> THEN None ELSE fetched
  BY DEF L!IsNext, L!Ran
<1>3. done' \subseteq L!AllSteps /\ (done' = done \/ (done' = (done \ L!Later(s)) \cup {s}))
  BY <1>2 DEF L!TypeOK
<1>4. fetched # today => done' = {}
  BY <1>1, <1>2
<1>5. fetched' \in L!Day \cup {None}
  BY <1>1, <1>2
<1>6. steps' # <<>> => fetched' = fetched
  BY <1>2
<1>7. Fetched'
  <2>1. L!Day' = L!Day
    BY DEF L!Day
  <2> QED BY <1>1, <1>4, <1>6, <2>1 DEF Fetched
<1> QED BY <1>1, <1>3, <1>4, <1>5, <1>7

LEMMA MaxIs ==
  ASSUME NEW T, T \subseteq Int, NEW m \in T, \A k \in T : k <= m
  PROVE  L!Max(T) = m
<1>1. \E x \in T : \A y \in T : x >= y
  OBVIOUS
<1>2. L!Max(T) \in T /\ \A y \in T : L!Max(T) >= y
  BY <1>1 DEF L!Max
<1>3. L!Max(T) \in Int /\ m \in Int /\ L!Max(T) >= m /\ L!Max(T) <= m
  BY <1>2
<1> QED BY <1>3

LEMMA LedgerInit ==
  ASSUME Init PROVE LedgerInv
<1>1. L!Init
  BY DEF Init
<1>2. L!TypeOK
  <2>1. 0 \in L!Day /\ 0 \in 0 .. MaxEdits
    BY LedgerFacts DEF L!Day
  <2>2. /\ items \in [Lease -> L!Item \cup {None}] /\ unpaid \in [Charge -> L!UnpaidCharge \cup {None}]
        /\ leases \in [Lease -> L!LeaseRow \cup {None}]
        /\ charges \in [Charge -> L!ChargeRow \cup {None}]
        /\ payments \in [Payment -> L!PaymentRow \cup {None}]
        /\ snapshot \in [L!Day -> L!SnapshotRow \cup {None}]
        /\ grouped \in [L!Day -> L!GroupRow \cup {None}]
    BY <1>1 DEF L!Init
  <2>3. /\ balances \in [Lease -> [L!Day -> Nat \cup {None}]]
        /\ aging \in [Lease -> [L!Day -> L!AgingRow \cup {None}]]
    BY <1>1 DEF L!Init
  <2> QED BY <1>1, <2>1, <2>2, <2>3 DEF L!Init, L!TypeOK, L!Place
<1>3. /\ \A l \in Lease, d \in L!Day : aging[l][d] = None
      /\ \A l \in Lease : leases[l] = None
      /\ \A d \in L!Day : snapshot[d] = None
      /\ done = {} /\ steps = <<>>
  BY <1>1 DEF L!Init
<1>4. Dated /\ L!OwedIsListed /\ L!TotalsAddUp
  BY <1>3 DEF Dated, L!OwedIsListed, L!TotalsAddUp
<1>5. L!RiskOfNewest
  BY <1>3 DEF L!RiskOfNewest, L!Known
<1>6. LeasesIn /\ ChargesIn /\ BalancesIn
  BY <1>3 DEF LeasesIn, ChargesIn, BalancesIn
<1> QED BY <1>2, <1>3, <1>4, <1>5, <1>6 DEF LedgerInv, Fetched

\* The tables are as they were, and the day may have passed.
LEMMA TablesKept ==
  ASSUME LedgerInv, UNCHANGED <<leases, balances, aging, snapshot, crossed>>, today' \in L!Day, today' >= today
  PROVE  Dated' /\ L!TotalsAddUp' /\ L!OwedIsListed' /\ L!RiskOfNewest'
<1>1. Dated'
  <2>1. /\ L!Day \subseteq Int /\ today \in L!Day
    BY LedgerFacts DEF LedgerInv, L!TypeOK, L!Day
  <2>2. \A d \in L!Day : d <= today => d <= today'
    BY <2>1
  <2> QED BY <2>2 DEF LedgerInv, Dated
<1>2. L!TotalsAddUp' /\ L!OwedIsListed'
  BY DEF LedgerInv, L!TotalsAddUp, L!OwedIsListed
<1>3. L!RiskOfNewest'
  BY DEF LedgerInv, L!RiskOfNewest, L!Known
<1> QED BY <1>1, <1>2, <1>3

\* The PMS changes, or the day passes: what was brought in is not of it.
LEMMA PmsSteps ==
  ASSUME LedgerInv,
         \/ L!EditPlace \/ L!DayPasses
         \/ \E l \in Lease, item \in L!Item \cup {None} : L!EditLease(l, item)
         \/ \E c \in Charge, charge \in L!UnpaidCharge \cup {None} : L!EditCharge(c, charge)
         \/ \E p \in Payment : L!EditPayment(p)
  PROVE  LedgerInv'
<1>1. L!TypeOK
  BY DEF LedgerInv
<1>2. /\ done' = {} /\ UNCHANGED <<L!tables, steps, fetched, crossed>>
      /\ \/ today' = today /\ edits' = edits + 1 /\ edits < MaxEdits
         \/ today' = today + 1 /\ today < MaxDay /\ UNCHANGED L!pms
  BY DEF L!EditPlace, L!DayPasses, L!EditLease, L!EditCharge, L!EditPayment, L!Edited, L!sync
<1>3. today' \in L!Day /\ today' >= today /\ edits' \in 0 .. MaxEdits
  BY <1>1, <1>2, LedgerFacts DEF L!TypeOK, L!Day, L!pms
<1>4. /\ place' \in L!Place /\ items' \in [Lease -> L!Item \cup {None}] /\ debtorListed' \in BOOLEAN
      /\ unpaid' \in [Charge -> L!UnpaidCharge \cup {None}] /\ paid' \subseteq Payment
  BY <1>1 DEF L!TypeOK, L!EditPlace, L!DayPasses, L!EditLease, L!EditCharge, L!EditPayment, L!pms
<1>5. L!TypeOK'
  BY <1>1, <1>2, <1>3, <1>4 DEF L!TypeOK, L!tables, L!places, L!ledger
<1>6. UNCHANGED <<leases, balances, aging, snapshot, crossed>>
  BY <1>2 DEF L!tables, L!ledger
<1>7. Dated' /\ L!TotalsAddUp' /\ L!OwedIsListed' /\ L!RiskOfNewest'
  BY <1>3, <1>6, TablesKept
<1>8. LeasesIn' /\ ChargesIn' /\ BalancesIn'
  BY <1>2 DEF LeasesIn, ChargesIn, BalancesIn
<1>9. Fetched'
  BY <1>2 DEF LedgerInv, Fetched, L!Day
<1> QED BY <1>5, <1>7, <1>8, <1>9 DEF LedgerInv

\* A sync begins, or is stopped by a failure.
LEMMA SlotSteps ==
  ASSUME LedgerInv, L!StepFails \/ UNCHANGED ledger \/ \E some \in {L!ALL_STEPS, L!HOURLY_STEPS} : L!Begin(some)
  PROVE  LedgerInv'
<1>1. UNCHANGED <<place, items, debtorListed, unpaid, paid, edits, today, portfolio, property, unit,
                  debtor, leases, charges, payments, balances, aging, snapshot, grouped, done, crossed>>
  BY DEF L!StepFails, L!Begin, ledger, L!pms, L!tables, L!places, L!ledger
<1>2. L!TypeOK' /\ today \in L!Day /\ today' >= today
  <2>1. fetched' \in L!Day \cup {None}
    BY DEF L!StepFails, L!Begin, ledger, LedgerInv, L!TypeOK
  <2>2. L!TypeOK'
    BY <1>1, <2>1 DEF LedgerInv, L!TypeOK
  <2> QED BY <1>1, <2>2, LedgerFacts DEF LedgerInv, L!TypeOK, L!Day
<1>3. Dated' /\ L!TotalsAddUp' /\ L!OwedIsListed' /\ L!RiskOfNewest'
  BY <1>1, <1>2, TablesKept
<1>4. LeasesIn' /\ ChargesIn' /\ BalancesIn'
  BY <1>1 DEF LedgerInv, LeasesIn, ChargesIn, BalancesIn, L!Listed, L!Given
<1>5. Fetched'
  <2>1. today \in L!Day
    BY DEF LedgerInv, L!TypeOK
  <2> QED BY <1>1, <2>1 DEF LedgerInv, Fetched, L!StepFails, L!Begin, ledger, L!Day
<1> QED BY <1>2, <1>3, <1>4, <1>5 DEF LedgerInv
LEMMA DebtorsStep ==
  ASSUME LedgerInv, L!syncDebtorsAndLeases
  PROVE  LedgerInv'
<1>1. /\ L!TypeOK /\ Dated /\ Fetched /\ L!RiskOfNewest /\ LeasesIn /\ ChargesIn /\ BalancesIn
      /\ L!IsNext("debtors_leases") /\ L!Ran
      /\ UNCHANGED <<place, items, debtorListed, unpaid, paid, edits, today, charges, payments,
                     balances, aging, snapshot, grouped, crossed>>
  BY DEF LedgerInv, L!syncDebtorsAndLeases, L!pms, L!ledger
<1>2. /\ portfolio' \in BOOLEAN /\ unit' \in BOOLEAN /\ property' \in L!Place
      /\ debtor' = (debtor \/ debtorListed) /\ debtor' \in BOOLEAN
  BY <1>1 DEF L!syncDebtorsAndLeases, L!UpsertPortfolios, L!UpsertUnits, L!UpsertProperties,
              L!UpsertDebtors, L!TypeOK
<1>3. leases' = [l \in Lease |-> IF l \in L!Listed /\ debtor' THEN L!LeaseOf(l) ELSE leases[l]]
  BY DEF L!syncDebtorsAndLeases, L!UpsertLeases
<1>4. \A l \in L!Listed : /\ l \in Lease /\ L!LeaseOf(l) \in L!LeaseRow
                          /\ L!LeaseOf(l).active = items[l].active
                          /\ leases[l] # None => L!LeaseOf(l).risk = leases[l].risk
                          /\ leases[l] = None => L!LeaseOf(l).risk = "none"
  BY <1>1 DEF L!Listed, L!LeaseOf, L!LeaseRow, L!TypeOK, L!Item, L!Risk
<1>5. leases' \in [Lease -> L!LeaseRow \cup {None}]
  BY <1>1, <1>3, <1>4 DEF L!TypeOK
<1>6. \A l \in Lease :
        \/ leases'[l] = leases[l] /\ (l \notin L!Listed \/ ~debtor')
        \/ /\ l \in L!Listed /\ leases'[l] # None /\ leases'[l].active = items[l].active
           /\ leases[l] # None => leases'[l].risk = leases[l].risk
           /\ leases[l] = None => leases'[l].risk = "none"
  BY <1>3, <1>4, LedgerFacts
<1>7. /\ done' \subseteq L!AllSteps
      /\ done' = done \/ ("charges" \notin done' /\ "balances_aging" \notin done')
      /\ fetched' \in L!Day \cup {None} /\ Fetched'
  <2>1. "debtors_leases" \in L!AllSteps
    BY EverySteps
  <2> QED BY <1>1, <2>1, Over, LaterSteps
<1>8. L!TypeOK'
  BY <1>1, <1>2, <1>5, <1>7 DEF L!TypeOK
<1>9. Dated'
  BY <1>1, <1>6 DEF Dated
<1>10. L!TotalsAddUp' /\ L!OwedIsListed'
  BY <1>1 DEF LedgerInv, L!TotalsAddUp, L!OwedIsListed
<1>11. L!RiskOfNewest'
  <2> SUFFICES ASSUME NEW l \in Lease, leases'[l] # None
               PROVE  LET days == {d \in L!Day : aging[l][d] # None}
                      IN  leases'[l].risk = IF days = {} THEN "none"
                                            ELSE L!RiskOf(aging[l][L!Max(days)].days)
    BY <1>1 DEF L!RiskOfNewest, L!Known
  <2>1. CASE leases[l] # None
    <3>1. leases'[l].risk = leases[l].risk
      BY <1>6, <2>1
    <3>2. L!Known(l)
      BY <2>1, LedgerFacts DEF L!Known
    <3> QED BY <1>1, <3>1, <3>2 DEF L!RiskOfNewest
  <2>2. CASE leases[l] = None
    <3>1. leases'[l].risk = "none"
      BY <1>6, <2>2
    <3>2. {d \in L!Day : aging[l][d] # None} = {}
      BY <1>1, <2>2 DEF Dated
    <3> QED BY <3>1, <3>2
  <2> QED BY <2>1, <2>2
<1>12. LeasesIn'
  <2>1. L!Listed' = L!Listed
    BY <1>1 DEF L!Listed
  <2>2. ASSUME debtorListed
        PROVE  debtor' /\ \A l \in L!Listed : leases'[l] # None /\ leases'[l].active = items[l].active
    BY <1>2, <1>4, <1>6, <2>2
  <2> QED BY <1>1, <2>1, <2>2 DEF LeasesIn
<1>13. ChargesIn' /\ BalancesIn'
  BY <1>1, <1>7 DEF ChargesIn, BalancesIn, L!Listed, L!Given
<1> QED BY <1>7, <1>8, <1>9, <1>10, <1>11, <1>12, <1>13 DEF LedgerInv

LEMMA ChargesStep ==
  ASSUME LedgerInv, L!syncCharges
  PROVE  LedgerInv'
<1>1. /\ L!TypeOK /\ Dated /\ Fetched /\ LeasesIn /\ ChargesIn /\ BalancesIn
      /\ L!IsNext("charges") /\ L!Ran
      /\ UNCHANGED <<place, items, debtorListed, unpaid, paid, edits, today, portfolio, property, unit,
                     debtor, leases, payments, balances, aging, snapshot, grouped, crossed>>
  BY DEF LedgerInv, L!syncCharges, L!pms, L!places, L!ledger
<1>2. charges' = [c \in Charge |-> IF unpaid[c] # None /\ L!Known(unpaid[c].lease)
                                     THEN unpaid[c] ELSE charges[c]]
  BY DEF L!syncCharges, L!Upserted
<1>3. charges' \in [Charge -> L!ChargeRow \cup {None}]
  BY <1>1, <1>2 DEF L!TypeOK, L!ChargeRow
<1>4. /\ done' \subseteq L!AllSteps
      /\ done' = done \/ ("balances_aging" \notin done' /\ done' \subseteq done \cup {"charges"})
      /\ fetched' \in L!Day \cup {None} /\ Fetched'
  <2>1. "charges" \in L!AllSteps
    BY EverySteps
  <2> QED BY <1>1, <2>1, Over, LaterSteps
<1>5. L!TypeOK'
  BY <1>1, <1>3, <1>4 DEF L!TypeOK
<1>6. today \in L!Day /\ today' >= today
  BY <1>1, LedgerFacts DEF L!TypeOK, L!Day
<1>7. Dated' /\ L!TotalsAddUp' /\ L!OwedIsListed' /\ L!RiskOfNewest'
  BY <1>1, <1>6, TablesKept
<1>8. LeasesIn' /\ BalancesIn'
  BY <1>1, <1>4 DEF LeasesIn, BalancesIn, L!Listed, L!Given
<1>9. ChargesIn'
  <2> SUFFICES ASSUME "debtors_leases" \in done', debtorListed, NEW c \in Charge, unpaid[c] # None,
                      unpaid[c].lease \in L!Listed
               PROVE  charges'[c] = unpaid[c]
    BY <1>1 DEF ChargesIn, L!Listed
  <2>1. "debtors_leases" \in done
    BY <1>4
  <2>2. L!Known(unpaid[c].lease)
    <3>1. leases[unpaid[c].lease] # None
      BY <1>1, <2>1 DEF LeasesIn
    <3>2. \A l \in L!Listed : l # None
      BY LedgerFacts, Zenon DEF L!Listed
    <3> QED BY <3>1, <3>2 DEF L!Known
  <2> QED BY <1>2, <2>2
<1> QED BY <1>4, <1>5, <1>7, <1>8, <1>9 DEF LedgerInv

LEMMA PaymentsStep ==
  ASSUME LedgerInv, L!syncPayments
  PROVE  LedgerInv'
<1>1. /\ L!TypeOK /\ Dated /\ Fetched /\ LeasesIn /\ ChargesIn /\ BalancesIn
      /\ L!IsNext("payments") /\ L!Ran
      /\ UNCHANGED <<place, items, debtorListed, unpaid, paid, edits, today, portfolio, property, unit,
                     debtor, leases, charges, balances, aging, snapshot, grouped, crossed>>
  BY DEF LedgerInv, L!syncPayments, L!pms, L!places, L!ledger
<1>2. L!Known(L!UnitLease) => L!UnitLease \in Lease
  <2>1. ASSUME NEW T \in SUBSET Lease, T # {}
        PROVE  L!Min(T) \in Lease
    BY <2>1, LeastOf, LedgerFacts DEF L!Min
  <2>2. L!Active \in SUBSET Lease /\ L!Tenancies \in SUBSET Lease
    BY DEF L!Active, L!Tenancies, L!Listed
  <2>3. L!UnitLease \in Lease \cup {None}
    BY <2>1, <2>2 DEF L!UnitLease
  <2> QED BY <2>3 DEF L!Known
<1>3. payments' \in [Payment -> L!PaymentRow \cup {None}]
  <2>1. [lease |-> IF L!Known(L!UnitLease) THEN L!UnitLease ELSE None] \in L!PaymentRow
    BY <1>2 DEF L!PaymentRow
  <2> QED BY <1>1, <2>1 DEF L!syncPayments, L!TypeOK
<1>4. /\ done' \subseteq L!AllSteps /\ done' \subseteq done \cup {"payments"}
      /\ fetched' \in L!Day \cup {None} /\ Fetched'
  <2>1. "payments" \in L!AllSteps
    BY EverySteps
  <2> QED BY <1>1, <2>1, Over
<1>5. L!TypeOK'
  BY <1>1, <1>3, <1>4 DEF L!TypeOK
<1>6. today \in L!Day /\ today' >= today
  BY <1>1, LedgerFacts DEF L!TypeOK, L!Day
<1>7. Dated' /\ L!TotalsAddUp' /\ L!OwedIsListed' /\ L!RiskOfNewest'
  BY <1>1, <1>6, TablesKept
<1>8. LeasesIn' /\ ChargesIn' /\ BalancesIn'
  BY <1>1, <1>4 DEF LeasesIn, ChargesIn, BalancesIn, L!Listed, L!Given
<1> QED BY <1>4, <1>5, <1>7, <1>8 DEF LedgerInv
\* The last step: the rows of the day are written anew for every lease that is known.
LEMMA ComputeStep ==
  ASSUME LedgerInv, L!computeBalancesAndAging
  PROVE  LedgerInv'
<1> DEFINE known == {l \in Lease : L!Known(l)}
           group == L!Grouped(known)
           row0(l) == [balance |-> L!Positive(L!Balance(l)), pastDue |-> L!PastDue(l), days |-> L!OldestDays(l)]
<1>1. /\ L!TypeOK /\ Dated /\ Fetched /\ L!TotalsAddUp /\ L!OwedIsListed /\ LeasesIn /\ ChargesIn /\ BalancesIn
      /\ L!IsNext("balances_aging") /\ L!Ran
      /\ UNCHANGED <<place, items, debtorListed, unpaid, paid, edits, today, portfolio, property, unit,
                     debtor, charges, payments>>
  BY DEF LedgerInv, L!computeBalancesAndAging, L!pms, L!places
<1>2. /\ balances' = [l \in Lease |-> IF l \in known /\ L!WritesBalance(l)
                        THEN [balances[l] EXCEPT ![L!BalanceDay(l)] = L!Balance(l)] ELSE balances[l]]
      /\ leases' = [l \in Lease |-> IF l \in known
                      THEN [leases[l] EXCEPT !.risk = L!RiskOf(L!OldestDays(l))] ELSE leases[l]]
      /\ aging' = [l \in Lease |-> IF l \in known
                     THEN [aging[l] EXCEPT ![today] = row0(l)] ELSE aging[l]]
      /\ grouped' = IF group = {} THEN grouped
                    ELSE [grouped EXCEPT ![today] = [total |-> L!TotalOf(group),
                            pastDue |-> L!SumFunction([l \in group |-> L!PastDue(l)]),
                            buckets |-> L!Buckets(group)]]
      /\ snapshot' = [snapshot EXCEPT ![today] = [total |-> L!TotalOf(known),
                                                  buckets |-> L!Buckets(known)]]
      /\ crossed' = IF fetched = today THEN crossed \ {today} ELSE crossed \cup {fetched, today}
  BY DEF L!computeBalancesAndAging
<1>3. /\ known \in SUBSET Lease /\ group \in SUBSET Lease /\ today \in L!Day
      /\ \A l \in Lease : l \in known <=> leases[l] # None
  BY <1>1, LedgerFacts DEF L!Known, L!Grouped, L!TypeOK
<1>22. /\ done' \subseteq L!AllSteps /\ done' \subseteq done \cup {"balances_aging"}
       /\ fetched \in L!Day /\ fetched' \in L!Day \cup {None} /\ Fetched'
       /\ fetched # today => done' = {}
  <2>1. "balances_aging" \in L!AllSteps
    BY EverySteps
  <2> QED BY <1>1, <2>1, Over
<1>23. /\ \A l \in Lease : L!BalanceDay(l) \in {fetched, today} /\ L!BalanceDay(l) \in L!Day
       /\ crossed' \subseteq L!Day
  BY <1>1, <1>2, <1>3, <1>22 DEF L!BalanceDay, L!TypeOK
<1>4. \A l \in Lease : /\ row0(l) \in L!AgingRow /\ L!OldestDays(l) \in Nat /\ L!PastDue(l) \in Nat
                       /\ L!Positive(L!Balance(l)) \in Nat /\ L!Balance(l) \in Int
                       /\ L!WritesBalance(l) => L!Balance(l) \in Nat
                       /\ L!Balance(l) > 0 => L!WritesBalance(l)
  BY <1>1, Balances, Oldest, PastDueIsNat DEF L!AgingRow
<1> HIDE DEF known, group
<1>5. /\ balances' \in [Lease -> [L!Day -> Nat \cup {None}]]
      /\ aging' \in [Lease -> [L!Day -> L!AgingRow \cup {None}]]
  <2>1. \A l \in Lease : balances'[l] \in [L!Day -> Nat \cup {None}]
    BY <1>1, <1>2, <1>3, <1>4, <1>23 DEF L!TypeOK
  <2>2. \A l \in Lease : aging'[l] \in [L!Day -> L!AgingRow \cup {None}]
    <3> HIDE DEF row0
    <3> QED BY <1>1, <1>2, <1>3, <1>4 DEF L!TypeOK
  <2> QED BY <1>2, <2>1, <2>2
<1>6. \A l \in known : /\ leases'[l] \in L!LeaseRow /\ leases'[l] # None
                       /\ leases'[l].active = leases[l].active
                       /\ leases'[l].risk = L!RiskOf(L!OldestDays(l))
  <2>1. \A l \in known : L!RiskOf(L!OldestDays(l)) \in L!Risk /\ leases[l] \in L!LeaseRow
    BY <1>1, <1>3, <1>4, RiskIsRisk DEF L!TypeOK
  <2> QED BY <1>2, <1>3, <2>1, LedgerFacts DEF L!LeaseRow
<1>7. /\ leases' \in [Lease -> L!LeaseRow \cup {None}]
      /\ \A l \in Lease : leases'[l] # None <=> l \in known
      /\ \A l \in Lease \ known : leases'[l] = leases[l]
  BY <1>1, <1>2, <1>3, <1>6 DEF L!TypeOK
<1>8. snapshot' \in [L!Day -> L!SnapshotRow \cup {None}] /\ grouped' \in [L!Day -> L!GroupRow \cup {None}]
  <2>1. \A ls \in SUBSET Lease : L!TotalOf(ls) \in Nat
    <3> SUFFICES ASSUME NEW ls \in SUBSET Lease PROVE L!TotalOf(ls) \in Nat
      OBVIOUS
    <3>1. [l \in ls |-> L!Positive(L!Balance(l))] \in [ls -> Nat]
      BY <1>4
    <3> QED BY <3>1, LeaseSum DEF L!TotalOf
  <2>2. L!SumFunction([l \in group |-> L!PastDue(l)]) \in Nat
    <3>1. [l \in group |-> L!PastDue(l)] \in [group -> Nat]
      BY <1>3, <1>4
    <3> QED BY <1>3, <3>1, LeaseSum
  <2>3. L!Buckets(known) \in [L!Bucket -> Nat] /\ L!Buckets(group) \in [L!Bucket -> Nat]
    BY <1>1, <1>3, BucketsAreNat
  <2>4. [total |-> L!TotalOf(known), buckets |-> L!Buckets(known)] \in L!SnapshotRow
    BY <1>3, <2>1, <2>3 DEF L!SnapshotRow
  <2>5. [total |-> L!TotalOf(group), pastDue |-> L!SumFunction([l \in group |-> L!PastDue(l)]),
         buckets |-> L!Buckets(group)] \in L!GroupRow
    BY <1>3, <2>1, <2>2, <2>3 DEF L!GroupRow
  <2> QED BY <1>1, <1>2, <1>3, <2>4, <2>5 DEF L!TypeOK
<1>10. L!TypeOK'
  BY <1>1, <1>5, <1>7, <1>8, <1>22, <1>23 DEF L!TypeOK
\* The rows of the day, and those of the other days.
<1>11. \A l \in Lease : /\ l \in known => aging'[l][today] = row0(l)
                        /\ l \notin known => aging'[l] = aging[l]
                        /\ \A d \in L!Day \ {today} : aging'[l][d] = aging[l][d]
  <2> HIDE DEF row0
  <2> QED BY <1>1, <1>2, <1>3 DEF L!TypeOK
\* (what the row of the day says)
<1>12. \A l \in known : /\ l \in Lease
                        /\ aging'[l][today].balance = L!Positive(L!Balance(l))
                        /\ aging'[l][today].days = L!OldestDays(l)
  <2>1. \A l \in Lease : row0(l).balance = L!Positive(L!Balance(l)) /\ row0(l).days = L!OldestDays(l)
    OBVIOUS
  <2> HIDE DEF row0
  <2> QED BY <1>3, <1>11, <2>1
<1>13. \A l \in Lease : aging'[l][today] # None <=> l \in known
  <2>1. \A l \in Lease \ known : aging[l][today] = None
    BY <1>1, <1>3 DEF Dated
  <2>2. \A l \in Lease : row0(l) # None
    BY <1>4, LedgerFacts
  <2> HIDE DEF row0
  <2> QED BY <1>11, <2>1, <2>2
<1>14. today \in Nat /\ \A d \in L!Day : d \in Nat
  BY <1>1, LedgerFacts DEF L!TypeOK, L!Day
<1>15. Dated'
  <2> HIDE DEF row0
  <2>1. ASSUME NEW l \in Lease, NEW d \in L!Day, aging'[l][d] # None
        PROVE  leases'[l] # None /\ d <= today
    <3>1. CASE d = today
      BY <1>7, <1>13, <1>14, <2>1, <3>1
    <3>2. CASE d # today
      BY <1>1, <1>3, <1>7, <1>11, <2>1, <3>2 DEF Dated
    <3> QED BY <3>1, <3>2
  <2> QED BY <1>1, <2>1 DEF Dated
<1>16. L!TotalsAddUp'
  <2> SUFFICES ASSUME NEW d \in L!Day, snapshot'[d] # None
               PROVE  snapshot'[d].total = L!SumFunction([l \in {x \in Lease : aging'[x][d] # None} |->
                                                          aging'[l][d].balance])
    BY DEF L!TotalsAddUp
  <2>1. CASE d = today
    <3>1. snapshot'[today].total = L!SumFunction([l \in known |-> L!Positive(L!Balance(l))])
      BY <1>1, <1>2, <1>3 DEF L!TypeOK, L!TotalOf
    <3>2. {x \in Lease : aging'[x][today] # None} = known
      BY <1>3, <1>13
    <3>3. \A l \in known : aging'[l][today].balance = L!Positive(L!Balance(l))
      BY <1>12
    <3>4. [l \in {x \in Lease : aging'[x][today] # None} |-> aging'[l][today].balance]
            = [l \in known |-> L!Positive(L!Balance(l))]
      BY <3>2, <3>3
    <3> QED BY <2>1, <3>1, <3>4, Zenon
  <2>2. CASE d # today
    <3>1. snapshot'[d] = snapshot[d]
      BY <1>1, <1>2, <1>3, <2>2 DEF L!TypeOK
    <3>2. {x \in Lease : aging'[x][d] # None} = {x \in Lease : aging[x][d] # None}
      BY <1>11, <2>2
    <3>3. [l \in {x \in Lease : aging'[x][d] # None} |-> aging'[l][d].balance]
            = [l \in {x \in Lease : aging[x][d] # None} |-> aging[l][d].balance]
      BY <1>11, <2>2, <3>2
    <3>4. snapshot[d].total = L!SumFunction([l \in {x \in Lease : aging[x][d] # None} |->
                                             aging[l][d].balance])
      BY <1>1, <3>1 DEF L!TotalsAddUp
    <3> QED BY <3>1, <3>3, <3>4, Zenon
  <2> QED BY <2>1, <2>2
<1>17. L!OwedIsListed'
  <2> SUFFICES ASSUME NEW l \in Lease, NEW d \in L!Day \ crossed', aging'[l][d] # None,
                      aging'[l][d].balance > 0
               PROVE  balances'[l][d] = aging'[l][d].balance
    BY DEF L!OwedIsListed, L!Day
  <2>0. /\ d = today => fetched = today /\ L!BalanceDay(l) = today
        /\ d # today => d \notin crossed /\ L!BalanceDay(l) # d
    <3>1. L!BalanceDay(l) \in {fetched, today}
      BY <1>23
    <3>2. CASE fetched = today
      BY <1>2, <3>1, <3>2
    <3>3. CASE fetched # today
      BY <1>2, <3>1, <3>3
    <3> QED BY <3>2, <3>3
  <2>1. CASE d = today
    <3>1. l \in known /\ aging'[l][d].balance = L!Positive(L!Balance(l))
      BY <1>13, <1>12, <2>1
    <3>2. L!Balance(l) > 0 /\ L!Positive(L!Balance(l)) = L!Balance(l)
      BY <1>4, <3>1 DEF L!Positive
    <3>3. L!WritesBalance(l)
      BY <1>4, <3>2
    <3>4. balances'[l][today] = L!Balance(l)
      BY <1>1, <1>2, <1>3, <2>0, <2>1, <3>1, <3>3 DEF L!TypeOK
    <3> QED BY <2>1, <3>1, <3>2, <3>4
  <2>2. CASE d # today
    <3>1. balances'[l][d] = balances[l][d]
      BY <1>1, <1>2, <1>3, <1>23, <2>0, <2>2 DEF L!TypeOK
    <3>2. aging'[l][d] = aging[l][d]
      BY <1>11, <2>2
    <3>3. d \in L!Day \ crossed
      BY <2>0, <2>2
    <3>4. balances[l][d] = aging[l][d].balance
      BY <1>1, <3>2, <3>3 DEF L!OwedIsListed
    <3> QED BY <3>1, <3>2, <3>4
  <2> QED BY <2>1, <2>2
<1>18. L!RiskOfNewest'
  <2> SUFFICES ASSUME NEW l \in Lease, leases'[l] # None
               PROVE  LET days == {d \in L!Day : aging'[l][d] # None}
                      IN  leases'[l].risk = IF days = {} THEN "none"
                                            ELSE L!RiskOf(aging'[l][L!Max(days)].days)
    BY DEF L!RiskOfNewest, L!Known
  <2> DEFINE days == {d \in L!Day : aging'[l][d] # None}
  <2>1. l \in known
    BY <1>7
  <2>2. today \in days /\ days \subseteq Int /\ \A d \in days : d <= today
    <3>1. today \in days
      BY <1>3, <1>13, <2>1
    <3>2. \A d \in days : d <= today'
      BY <1>15 DEF Dated
    <3>3. days \subseteq Int /\ today' = today
      BY <1>1, <1>14
    <3> HIDE DEF days
    <3> QED BY <3>1, <3>2, <3>3
  <2>3. L!Max(days) = today
    <3> HIDE DEF days
    <3> QED BY <2>2, MaxIs
  <2>4. aging'[l][today].days = L!OldestDays(l)
    BY <1>12, <2>1
  <2>5. leases'[l].risk = L!RiskOf(L!OldestDays(l))
    BY <1>6, <2>1
  <2>6. days # {}
    BY <2>2
  <2> HIDE DEF days
  <2>7. leases'[l].risk = IF days = {} THEN "none" ELSE L!RiskOf(aging'[l][L!Max(days)].days)
    BY <2>3, <2>4, <2>5, <2>6
  <2> QED BY <2>7 DEF days
<1>19. LeasesIn'
  <2>1. "debtors_leases" \in done' => "debtors_leases" \in done
    BY <1>22
  <2> QED BY <1>1, <1>3, <1>6, <1>7, <2>1 DEF LeasesIn, L!Listed
<1>20. ChargesIn'
  BY <1>1, <1>22 DEF ChargesIn, L!Listed
<1>21. BalancesIn'
  <2> SUFFICES ASSUME "debtors_leases" \in done', debtorListed, NEW l \in L!Listed, L!Given(l)
               PROVE  balances'[l][today] = items[l].total
    BY <1>1 DEF BalancesIn, L!Listed, L!Given
  <2>1. l \in Lease /\ l \in known
    BY <1>1, <1>3, <1>22 DEF LeasesIn, L!Listed
  <2>2. /\ L!WritesBalance(l) /\ L!Balance(l) = items[l].total
        /\ L!BalanceDay(l) = today
    BY <1>22 DEF L!WritesBalance, L!Balance, L!BalanceDay
  <2> QED BY <1>1, <1>2, <1>3, <2>1, <2>2 DEF L!TypeOK
<1> QED BY <1>10, <1>15, <1>16, <1>17, <1>18, <1>19, <1>20, <1>21, <1>22 DEF LedgerInv
LEMMA LedgerStep ==
  ASSUME LedgerInv, [Next]_vars
  PROVE  LedgerInv'
<1>1. CASE L!Next
  BY <1>1, PmsSteps, SlotSteps, DebtorsStep, ChargesStep, PaymentsStep, ComputeStep DEF L!Next
<1>2. CASE UNCHANGED ledger
  BY <1>2, SlotSteps
<1> QED BY <1>1, <1>2, FlowSteps

LEMMA Synced ==
  ASSUME LedgerInv PROVE L!SyncedIsListed
<1>1. done = L!AllSteps => {"debtors_leases", "charges", "balances_aging"} \subseteq done
  BY EverySteps
<1> QED BY <1>1 DEF LedgerInv, L!SyncedIsListed, LeasesIn, ChargesIn, BalancesIn

\* The days of some charges, of which those past due count.
LEMMA DaysOf ==
  ASSUME NEW A \in SUBSET Charge, NEW f \in [A -> Int]
  PROVE  LET days == IF A = {} THEN 0 ELSE L!Max({L!Positive(f[c]) : c \in A})
         IN  /\ days \in Nat
             /\ \A c \in A : L!Positive(f[c]) <= days
             /\ A # {} => \E c \in A : days = L!Positive(f[c])
<1> DEFINE g == [c \in A |-> L!Positive(f[c])]
<1>1. IsFiniteSet(A)
  BY FS_Subset, LedgerFacts
<1>2. g \in [A -> Nat]
  BY DEF L!Positive
<1>3. {g[c] : c \in A} = {L!Positive(f[c]) : c \in A}
  OBVIOUS
<1>4. A # {} => /\ L!Max({g[c] : c \in A}) \in Nat
                /\ \E s \in A : L!Max({g[c] : c \in A}) = g[s]
                /\ \A t \in A : g[t] <= L!Max({g[c] : c \in A})
  <2> HIDE DEF g
  <2> QED BY <1>1, <1>2, MaxOf
<1> QED BY <1>3, <1>4

LEMMA NotTooYoung ==
  ASSUME LedgerInv PROVE L!NoCaseTooYoung
<1> SUFFICES ASSUME done = L!AllSteps, debtorListed, NEW l \in L!Listed
             PROVE  L!computeDpd(l) >=
                      LET of == {c \in Charge : unpaid[c] # None /\ unpaid[c].lease = l
                                                  /\ unpaid[c].open > 0}
                      IN  IF of = {} THEN 0 ELSE L!Max({L!Positive(unpaid[c].age + today) : c \in of})
  BY DEF L!NoCaseTooYoung
<1> DEFINE have   == {c \in L!ChargesOf(l) : charges[c].open > 0}
           listed == {c \in Charge : unpaid[c] # None /\ unpaid[c].lease = l /\ unpaid[c].open > 0}
           f      == [c \in have |-> L!DaysPastDue(c)]
           g      == [c \in listed |-> unpaid[c].age + today]
           dpd    == IF have = {} THEN 0 ELSE L!Max({L!Positive(f[c]) : c \in have})
           due    == IF listed = {} THEN 0 ELSE L!Max({L!Positive(g[c]) : c \in listed})
<1>1. L!TypeOK /\ L!SyncedIsListed /\ today \in Nat
  BY Synced, LedgerFacts DEF LedgerInv, L!TypeOK, L!Day
<1>2. \A c \in listed : charges[c] = unpaid[c] /\ unpaid[c] \in L!UnpaidCharge
  BY <1>1 DEF L!SyncedIsListed, L!TypeOK
<1>3. \A c \in listed : unpaid[c].age \in Int /\ unpaid[c].open > 0
  <2>1. \A c \in listed : unpaid[c].age \in Age
    BY <1>2 DEF L!UnpaidCharge
  <2>2. Age \subseteq Int
    BY LedgerFacts
  <2> QED BY <2>1, <2>2
<1>4. listed \subseteq have
  BY <1>2, <1>3 DEF L!ChargesOf
<1>5. \A c \in listed : f[c] = g[c]
  BY <1>2, <1>4 DEF L!DaysPastDue
<1>6. have \in SUBSET Charge /\ f \in [have -> Int]
  <2>1. \A c \in have : c \in Charge /\ L!DaysPastDue(c) \in Int
    BY <1>1, ChargeFacts DEF L!ChargesOf
  <2> QED BY <2>1
<1>7. listed \in SUBSET Charge /\ g \in [listed -> Int]
  BY <1>1, <1>3
<1>8. L!computeDpd(l) = dpd
  BY DEF L!computeDpd
<1>9. (LET of == {c \in Charge : unpaid[c] # None /\ unpaid[c].lease = l /\ unpaid[c].open > 0}
       IN  IF of = {} THEN 0 ELSE L!Max({L!Positive(unpaid[c].age + today) : c \in of})) = due
  OBVIOUS
<1> HIDE DEF have, listed, f, g
<1>10. /\ dpd \in Nat /\ \A c \in have : L!Positive(f[c]) <= dpd
       /\ due \in Nat
       /\ listed # {} => \E c \in listed : due = L!Positive(g[c])
  BY <1>6, <1>7, DaysOf
<1>11. dpd >= due
  <2>1. CASE listed = {}
    BY <1>10, <2>1
  <2>2. CASE listed # {}
    <3>1. PICK c \in listed : due = L!Positive(g[c])
      BY <1>10, <2>2
    <3>2. due = L!Positive(f[c]) /\ c \in have
      BY <1>4, <1>5, <3>1
    <3> HIDE DEF dpd, due
    <3> QED BY <1>10, <3>2
  <2> QED BY <2>1, <2>2
<1> QED BY <1>8, <1>9, <1>11

\* The total of a day is the sum of what its leases owe, all of which is in the balances but
\* for a day whose rows are of a sync over midnight, and the risk of a lease is that of its
\* newest aging row, whatever steps ran and failed.
THEOREM LedgerIsTrue == Spec => []LedgerAddsUp
<1>1. Init => LedgerInv
  BY LedgerInit
<1>2. LedgerInv /\ [Next]_vars => LedgerInv'
  BY LedgerStep
<1>3. LedgerInv => LedgerAddsUp
  BY DEF LedgerInv, LedgerAddsUp
<1> QED BY <1>1, <1>2, <1>3, PTL DEF Spec

\* When every step has run, the tables have what the PMS lists, and no case is taken for
\* younger than the oldest charge that the PMS lists unpaid.
THEOREM SyncBringsAll == Spec => []SyncedIsListed
<1>1. Init => LedgerInv
  BY LedgerInit
<1>2. LedgerInv /\ [Next]_vars => LedgerInv'
  BY LedgerStep
<1>3. LedgerInv => SyncedIsListed
  BY Synced, NotTooYoung DEF SyncedIsListed
<1> QED BY <1>1, <1>2, <1>3, PTL DEF Spec

\* Every variable of the ledger, of the strategies and of the delivery stays in its type.
THEOREM FlowTypeCorrect == Spec => []TypeOK
<1>1. Init => LedgerInv /\ StageInv /\ DeliveryInv
  BY LedgerInit, StageInit, DeliveryInit
<1>2. LedgerInv /\ StageInv /\ DeliveryInv /\ [Next]_vars => (LedgerInv /\ StageInv /\ DeliveryInv)'
  BY LedgerStep, StageStep, DeliveryStep
<1>3. LedgerInv /\ StageInv /\ DeliveryInv => TypeOK
  BY DEF LedgerInv, StageInv, DeliveryInv, TypeOK
<1> QED BY <1>1, <1>2, <1>3, PTL DEF Spec
=============================================================================
