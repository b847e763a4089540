------------------------------ MODULE CaseBoard ------------------------------
(***************************************************************************)
(* The board of an automation: the lists of its cases by tab or filters,   *)
(* their counts, the overview, and the bulk decision that approves or      *)
(* excludes everything a filter lists.  The bulk reads its list, writes    *)
(* the cases, closes the enrolments and writes one event per case, with    *)
(* no transaction around them, while other managers decide case by case    *)
(* and pause or resume the enrolment of a case, whatever its status was.   *)
(*                                                                         *)
(* Every case is enrolled.  The ranges of days and of amounts and the      *)
(* stages of a filter are one bound, below or above which a case lies: the *)
(* code treats them alike.  Lists are shorter than their limit.            *)
(***************************************************************************)
EXTENDS Integers, FiniteSets, Functions

CONSTANTS
  Case,
  Days,          \* days past due
  StatusFilter,  \* the sets of statuses that a filter may name
  MaxActs,       \* how often people may act: requests for a bulk or for a case
  None

Approval == {"PENDING_APPROVAL", "APPROVED", "REJECTED", "EXCLUDED"}
Tab      == {"pending", "active", "excluded", "disputes"}
Action   == {"approve", "exclude"}

BoardAssumption ==
  /\ Days \subseteq Nat /\ None \notin Nat \cup Tab
  /\ {} \in StatusFilter /\ MaxActs \in Nat
  /\ IsFiniteSet(Case) /\ IsFiniteSet(Days)   \* an automation has so many cases

Filter   == [status : StatusFilter, dpdMin : {None} \cup Days]
NoFilter == [status |-> {}, dpdMin |-> None]

CaseRow == [approval : Approval, enrolment : {"active", "paused", "closed"},
            disputed : BOOLEAN, days : Days]

Refused == {"REJECTED", "EXCLUDED"}

VARIABLES
  cases,
  bulk,     \* the bulk request at work: what it has still to do, and to which cases
  events,   \* collection_events of the decisions: <<case, type>>
  acts,     \* how often people have acted
  closing,  \* cases refused by hand whose enrolment is still to be closed
  overridden,  \* history: cases of which one write took back a part of another's decision
  unlogged     \* history: cases excluded by hand, or by a bulk that stopped after its write

vars == <<cases, bulk, events, acts, closing, overridden, unlogged>>

Idle == [pc |-> "idle", action |-> "approve", ids |-> {}]

Init ==
  /\ cases \in [Case -> [approval : {"PENDING_APPROVAL", "APPROVED"}, enrolment : {"active"},
                         disputed : {FALSE}, days : Days]]
  /\ bulk = Idle
  /\ events = {}
  /\ acts = 0
  /\ closing = {} /\ overridden = {} /\ unlogged = {}

-----------------------------------------------------------------------------
(* The lists.  Two copies of the filters: one lists, the other counts.      *)

useFilters(f) == f # NoFilter

\* IN_DISPUTE adds a condition on a table that the query calls by another name: the
\* database refuses the query, of the list as of the count.
QueryFails(f) == "IN_DISPUTE" \in f.status

InRange(row, f) == f.dpdMin = None \/ row.days >= f.dpdMin

\* Mutant: closed enrolments are never listed.
stateStatusesActive(tab, f) == {"active"}

\* findCaseStates: which enrolments it looks at,
stateStatuses(tab, f) ==
  IF "EXCLUDED" \in f.status \/ (f.status = {} /\ tab = "excluded")
  THEN {"active", "closed"} ELSE {"active"}

\* which rows its where clauses let through,
findWhere(tab, f, row) ==
  LET named == IF f.status = {}
               THEN CASE tab = "pending"  -> row.approval = "PENDING_APPROVAL"
                      [] tab = "active"   -> row.approval = "APPROVED"
                      [] tab = "excluded" -> row.approval = "EXCLUDED"
                      [] OTHER            -> TRUE
               ELSE row.approval \in f.status
  IN  /\ row.enrolment \in stateStatuses(tab, f)
      /\ named
      /\ InRange(row, f)

\* and the list: when approved cases are asked for, those in dispute are out.
findCaseStates(tab, f) ==
  LET excludeDisputedFromApproved ==
        IF f.status = {} THEN tab = "active" ELSE "APPROVED" \in f.status
  IN  {c \in Case : /\ findWhere(tab, f, cases[c])
                    /\ ~(excludeDisputedFromApproved /\ cases[c].disputed)}

\* countCaseStates: the same clauses again, without the disputes.
countCaseStates(tab, f) ==
  LET withClosed   == \/ "EXCLUDED" \in f.status
                      \/ f.status = {} /\ tab = "excluded"
      ofTab        == [pending |-> "PENDING_APPROVAL", active |-> "APPROVED", excluded |-> "EXCLUDED"]
      Counted(row) ==
        /\ row.enrolment = "active" \/ (withClosed /\ row.enrolment = "closed")
        /\ IF f.status # {}
           THEN row.approval \in f.status
           ELSE tab \in DOMAIN ofTab => row.approval = ofTab[tab]
        /\ InRange(row, f)
  IN  Cardinality({c \in Case : Counted(cases[c])})

findDisputesByAutomation == {c \in Case : cases[c].disputed}

Error == [data |-> {}, total |-> None]

\* getCases: the disputes tab has a list of its own; filters set the tab aside.
getCases(tab, f) ==
  IF QueryFails(f) THEN Error
  ELSE IF tab = "disputes" /\ ~useFilters(f)
  THEN [data |-> findDisputesByAutomation, total |-> Cardinality(findDisputesByAutomation)]
  ELSE LET shown == IF useFilters(f) THEN None ELSE tab
       IN  [data |-> findCaseStates(shown, f), total |-> countCaseStates(shown, f)]

stageRows(d) == {c \in Case : cases[c].enrolment = "active" /\ cases[c].days = d}

\* getOverviewData: a count per tab, and the active enrolments stage by stage.
getOverviewData ==
  [total           |-> Cardinality(Case),
   pendingApproval |-> countCaseStates("pending", NoFilter),
   active          |-> countCaseStates("active", NoFilter),
   excluded        |-> countCaseStates("excluded", NoFilter),
   disputes        |-> Cardinality(findDisputesByAutomation),
   stages          |-> [d \in Days |-> Cardinality(stageRows(d))]]

\* getSummary: targetCases are the active enrolments, whatever their approval.
getSummary == [targetCases |-> countCaseStates(None, NoFilter)]

-----------------------------------------------------------------------------
(* bulkByFilters.                                                           *)

Act == acts < MaxActs /\ acts' = acts + 1

\* The list it will write: its own tab when no filter is given.
BulkList(action, f) ==
  LET tab == IF useFilters(f) THEN None ELSE IF action = "approve" THEN "pending" ELSE "active"
  IN  IF QueryFails(f) THEN {} ELSE findCaseStates(tab, f)

\* A list to approve may hold cases that are refused: the filter names them, or they are
\* about to be closed.
BulkFind(action, ids) ==
  /\ Act
  /\ bulk = Idle
  /\ ids # {}
  /\ bulk' = [pc |-> "write", action |-> action, ids |-> ids]
  /\ overridden' = IF action = "approve"
                   THEN overridden \cup {c \in ids : cases[c].enrolment = "closed" \/ c \in closing}
                   ELSE overridden
  /\ UNCHANGED <<cases, events, closing, unlogged>>

\* Mutant: an exclusion leaves the enrolments open.
BulkWriteOpen ==
  /\ bulk.pc = "write"
  /\ cases' = [c \in Case |->
       IF c \in bulk.ids
       THEN [cases[c] EXCEPT !.approval = IF bulk.action = "approve" THEN "APPROVED" ELSE "EXCLUDED"]
       ELSE cases[c]]
  /\ bulk' = [bulk EXCEPT !.pc = "log"]
  /\ UNCHANGED <<events, acts, closing, overridden, unlogged>>

\* The cases are approved or excluded, as the list was when it was read.
BulkWrite ==
  /\ bulk.pc = "write"
  /\ cases' = [c \in Case |->
       IF c \in bulk.ids
       THEN [cases[c] EXCEPT !.approval = IF bulk.action = "approve" THEN "APPROVED" ELSE "EXCLUDED"]
       ELSE cases[c]]
  /\ bulk' = [bulk EXCEPT !.pc = IF bulk.action = "approve" THEN "log" ELSE "close"]
  /\ UNCHANGED <<events, acts, closing, overridden, unlogged>>

\* An exclusion closes the enrolments.
BulkClose ==
  /\ bulk.pc = "close"
  /\ cases' = [c \in Case |->
       IF c \in bulk.ids THEN [cases[c] EXCEPT !.enrolment = "closed"] ELSE cases[c]]
  /\ bulk' = [bulk EXCEPT !.pc = "log"]
  /\ UNCHANGED <<events, acts, closing, overridden, unlogged>>

\* One event per case.
BulkLog(c) ==
  /\ bulk.pc = "log"
  /\ c \in bulk.ids
  /\ events' = events \cup
       {<<c, IF bulk.action = "approve" THEN "case_approved" ELSE "case_excluded">>}
  /\ bulk' = IF bulk.ids = {c} THEN Idle ELSE [bulk EXCEPT !.ids = @ \ {c}]
  /\ UNCHANGED <<cases, acts, closing, overridden, unlogged>>

\* A write fails or the process stops: what was written stays.
BulkStops ==
  /\ bulk.pc # "idle"
  /\ overridden' = IF bulk.pc = "close" THEN overridden \cup bulk.ids ELSE overridden
  /\ unlogged' = IF bulk.pc = "write" THEN unlogged ELSE unlogged \cup bulk.ids
  /\ bulk' = Idle
  /\ UNCHANGED <<cases, events, acts, closing>>

-----------------------------------------------------------------------------
(* The others: bulkApprove, bulkReject and bulkExclude of chosen cases, the  *)
(* pause and resume of a case, and the disputes.                             *)

\* Is a bulk between the two writes with which it refuses the case?
HalfExcluded(c) == bulk.pc = "close" /\ c \in bulk.ids

\* An approval by hand writes the case and leaves the enrolment alone.
Approve(c) ==
  /\ Act
  /\ cases' = [cases EXCEPT ![c].approval = "APPROVED"]
  /\ overridden' = IF cases[c].enrolment = "closed" \/ c \in closing \/ HalfExcluded(c)
                   THEN overridden \cup {c} ELSE overridden
  /\ UNCHANGED <<bulk, events, closing, unlogged>>

\* A refusal by hand writes the case, and then closes the enrolment.  (One at a time of a
\* case: the writes of a second would be the same.)
Refuse(c, approval) ==
  /\ Act
  /\ approval \in Refused
  /\ c \notin closing
  /\ cases' = [cases EXCEPT ![c].approval = approval]
  /\ closing' = closing \cup {c}
  /\ overridden' = IF bulk.pc = "write" /\ bulk.action = "approve" /\ c \in bulk.ids
                   THEN overridden \cup {c} ELSE overridden
  /\ unlogged' = IF approval = "EXCLUDED" THEN unlogged \cup {c} ELSE unlogged
  /\ UNCHANGED <<bulk, events>>

Close(c) ==
  /\ c \in closing
  /\ cases' = [cases EXCEPT ![c].enrolment = "closed"]
  /\ closing' = closing \ {c}
  /\ UNCHANGED <<bulk, events, acts, overridden, unlogged>>

\* The second write fails or the process stops.
CloseFails(c) ==
  /\ c \in closing
  /\ closing' = closing \ {c}
  /\ overridden' = overridden \cup {c}
  /\ UNCHANGED <<cases, bulk, events, acts, unlogged>>

\* pause and resume: of a closed enrolment too.
SetEnrolment(c, status) ==
  /\ Act
  /\ cases' = [cases EXCEPT ![c].enrolment = status]
  /\ overridden' = IF cases[c].enrolment = "closed" THEN overridden \cup {c} ELSE overridden
  /\ UNCHANGED <<bulk, events, closing, unlogged>>

pause(c)  == SetEnrolment(c, "paused")
resume(c) == SetEnrolment(c, "active")

\* disputeService.create and resolve: one open dispute of a case.
Dispute(c) ==
  /\ Act
  /\ cases' = [cases EXCEPT ![c].disputed = ~@]
  /\ UNCHANGED <<bulk, events, closing, overridden, unlogged>>

Next ==
  \/ \E action \in Action : \E ids \in {BulkList(action, f) : f \in Filter} :
       BulkFind(action, ids)
  \/ BulkWrite \/ BulkClose \/ BulkStops
  \/ \E c \in Case : BulkLog(c) \/ Dispute(c)
  \/ \E c \in Case : Approve(c) \/ Close(c) \/ CloseFails(c) \/ pause(c) \/ resume(c)
  \/ \E c \in Case, a \in Refused : Refuse(c, a)

Spec == Init /\ [][Next]_vars

-----------------------------------------------------------------------------
(* Types: the rows, the bulk request and the histories stay in their types. *)
TypeOK ==
  /\ cases \in [Case -> CaseRow]
  /\ bulk \in [pc : {"idle", "write", "close", "log"}, action : Action, ids : SUBSET Case]
  /\ events \subseteq Case \X {"case_approved", "case_excluded"}
  /\ acts \in 0..MaxActs
  /\ closing \subseteq Case /\ overridden \subseteq Case /\ unlogged \subseteq Case

(* A case that is still worked on, or that was excluded, is on one of the   *)
(* tabs (findCaseStates lists the closed enrolments for the excluded tab).  *)
(* A paused enrolment is on none but the disputes: no tab asks for one.     *)
EveryCaseShown ==
  \A c \in Case :
    \/ cases[c].enrolment = "active"
    \/ cases[c].enrolment = "closed" /\ cases[c].approval = "EXCLUDED"
    => \/ \E tab \in Tab : c \in getCases(tab, NoFilter).data
       \/ cases[c].approval = "REJECTED"

(* The total of a list is the number of its cases, whatever the filters:    *)
(* the two copies of the filters agree.  Only a list of approved cases may  *)
(* be shorter, by the cases in dispute, even those it lists for another     *)
(* reason: naming APPROVED and EXCLUDED hides excluded cases in dispute.    *)
CountAgrees ==
  \A tab \in Tab, f \in {g \in Filter : ~QueryFails(g)} :
    LET page == getCases(tab, f)
    IN  \/ page.total = Cardinality(page.data)
        \/ /\ page.total > Cardinality(page.data)
           /\ "APPROVED" \in f.status \/ (~useFilters(f) /\ tab = "active")
           /\ page.total - Cardinality(page.data) <= Cardinality(findDisputesByAutomation)

(* The numbers of the overview fit together: no case is on two of the       *)
(* approval tabs, the stages add up to the summary's target cases, and all  *)
(* that is on no tab is paused, closed or rejected.                         *)
OverviewAddsUp ==
  LET o == getOverviewData
      tabs == o.pendingApproval + o.active + o.excluded
  IN  /\ tabs <= o.total
      /\ o.total - tabs = Cardinality({c \in Case :
           \/ cases[c].approval = "REJECTED"
           \/ cases[c].enrolment = "paused"
           \/ cases[c].enrolment = "closed" /\ cases[c].approval # "EXCLUDED"})
      /\ getSummary.targetCases = SumFunction(o.stages)

(* A refused case stays refused: an enrolment is closed just when its case  *)
(* was rejected or excluded, except between the two writes of a refusal.    *)
(* What breaks it is on record in overridden: an approval of a case that is *)
(* closed or half refused, by hand or by a bulk that lists it; a refusal by *)
(* hand under a bulk that approves; a pause or a resume of a closed case;   *)
(* and a second write that fails.                                           *)
ClosedMeansRefused ==
  \A c \in Case \ overridden :
    \/ c \in closing \/ HalfExcluded(c)
    \/ cases[c].enrolment = "closed" <=> cases[c].approval \in Refused

(* What a bulk has done is on record: an excluded case has its event once   *)
(* the bulk is over, unless a manager excluded it by hand, which writes     *)
(* none, or the bulk stopped before the event.                              *)
BulkIsLogged ==
  \A c \in Case \ unlogged :
    /\ bulk = Idle \/ c \notin bulk.ids
    /\ cases[c].approval = "EXCLUDED"
    => <<c, "case_excluded">> \in events

=============================================================================
