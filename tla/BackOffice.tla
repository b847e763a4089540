----------------------------- MODULE BackOffice -----------------------------
(***************************************************************************)
(* What the people of a tenant do, side by side in one run: they sign in,  *)
(* share the tenant, import spreadsheets, decide on the cases of an        *)
(* automation and look at its activity.  These parts share no variable:    *)
(* Memberships tells users apart by their e-mail address, and Accounts     *)
(* says when an address has one row; the others meet through tables that   *)
(* each models for itself.  So a behaviour is about one part, and the      *)
(* others stay as they begin.                                              *)
(***************************************************************************)
EXTENDS Naturals, TLC

CONSTANTS
  Email,                             \* Accounts, ImportBatch
  Tenant, User, Invite, InviteRole, Request,  \* Memberships
  Worker, Phone, MaxRows,            \* ImportBatch
  Case,                              \* CaseBoard, Activity
  Days, StatusFilter, MaxActs,       \* CaseBoard
  EventType, Shown, MaxEvents, MaxDay,  \* Activity
  None

VARIABLES
  part,    \* the part this behaviour is about
  pool, users, session, call,
  tenant, member, invite, req, slipped,
  rows, batch, debtors, imported, worker, claimedTwice, broken,
  cases, bulk, events, acts, closing, overridden, unlogged,
  log, calls, stage, day

accounts    == <<pool, users, session, call>>
memberships == <<tenant, member, invite, req, slipped>>
imports     == <<rows, batch, debtors, imported, worker, claimedTwice, broken>>
board       == <<cases, bulk, events, acts, closing, overridden, unlogged>>
activity    == <<log, calls, stage, day>>

vars == <<part, accounts, memberships, imports, board, activity>>

A == INSTANCE Accounts WITH req <- call
M == INSTANCE Memberships
I == INSTANCE ImportBatch WITH cases <- imported, raced <- claimedTwice
B == INSTANCE CaseBoard
F == INSTANCE Activity

ASSUME BackOfficeAssumption ==
  /\ A!AccountsAssumption /\ M!MembershipAssumption /\ I!ImportAssumption
  /\ B!BoardAssumption /\ F!ActivityAssumption

\* Only the part that the behaviour is about has more than one initial state.
Init ==
  /\ part \in {"accounts", "memberships", "imports", "board", "activity"}
  /\ part # "imports" => rows = <<>>
  /\ part # "board" =>
       cases = [c \in Case |-> [approval |-> "APPROVED", enrolment |-> "active",
                                disputed |-> FALSE, days |-> CHOOSE d \in Days : TRUE]]
  /\ A!Init /\ M!Init /\ I!Init /\ B!Init /\ F!Init

Next ==
  \/ /\ part = "accounts" /\ A!Next
     /\ UNCHANGED <<part, memberships, imports, board, activity>>
  \/ /\ part = "memberships" /\ M!Next
     /\ UNCHANGED <<part, accounts, imports, board, activity>>
  \/ /\ part = "imports" /\ I!Next
     /\ UNCHANGED <<part, accounts, memberships, board, activity>>
  \/ /\ part = "board" /\ B!Next
     /\ UNCHANGED <<part, accounts, memberships, imports, activity>>
  \/ /\ part = "activity" /\ F!Next
     /\ UNCHANGED <<part, accounts, memberships, imports, board>>

Spec == Init /\ [][Next]_vars

BackOfficeSymmetry ==
  Permutations(Tenant) \cup Permutations(User) \cup Permutations(Invite)
  \cup Permutations(Request) \cup Permutations(Case)

-----------------------------------------------------------------------------
(* The properties of a part are of its behaviours.                          *)

\* Types: every variable of the part stays in its type.
TypeOK ==
  /\ part = "accounts" => A!TypeOK
  /\ part = "memberships" => M!TypeOK
  /\ part = "imports" => I!TypeOK
  /\ part = "board" => B!TypeOK
  /\ part = "activity" => F!TypeOK

\* Accounts: an address gets no password account beside a social one and no second row
\* of users, and a name the user typed is not lost to the one of the provider.
OneAccountEach == [][A!NoSecondAccountStep /\ A!OneRowStep /\ A!TypedNameStep]_vars

\* Memberships: a tenant keeps one active owner.
OwnerKept == [][M!OwnerKeptStep]_vars

\* Memberships: nobody becomes active in two tenants unless an administrator enables him,
\* and a disabled member comes back only so or with an invitation he should not have had.
OneTenantEach == [][M!OneTenantStep /\ M!DisabledStep]_vars

\* ImportBatch: a batch says what became of its rows: those of a completed one have their
\* cases, and one that failed has left none.
BatchTellsAll == part = "imports" => I!EveryRowLands /\ I!FailedLeavesNothing

\* ImportBatch: the end of a batch is not undone.
Ended == [][I!EndedStep]_vars

\* CaseBoard, what is shown adds up: a case that is worked on or was excluded is on a tab,
\* the total of a list is the number of its cases, the numbers of the overview fit together.
BoardAddsUp ==
  part = "board" => B!EveryCaseShown /\ B!CountAgrees /\ B!OverviewAddsUp

\* Activity: the feed loses and repeats nothing of what it found, and tells the same of a
\* case as its timeline.
FeedAddsUp ==
  part = "activity" => F!GroupsAddUp /\ F!FeedMatchesTimeline

\* What the back office shows adds up, on the board and in the feed.
ViewsAddUp == BoardAddsUp /\ FeedAddsUp

\* CaseBoard: an enrolment is closed just when its case was refused, and a bulk that has
\* refused it has put that on record.
ClosedMeansRefused == part = "board" => B!ClosedMeansRefused /\ B!BulkIsLogged
=============================================================================
