--------------------------- MODULE CollectionFlow ---------------------------
(***************************************************************************)
(* What collections are fed with, planned by and sent through, side by     *)
(* side in one run: the ledger that debts are read from, the strategy that *)
(* gives a case its stage, and the message that a stage sends.  They share *)
(* no variable, so a behaviour is about one of them, and the others stay   *)
(* as they begin.                                                          *)
(***************************************************************************)
EXTENDS Naturals, TLC

CONSTANTS
  Lease, Charge, Payment, Age, ChargeAmount, Total, Late, MaxDay, MaxEdits,  \* PmsLedger
  StageId, MaxDays, PastKind,                     \* Strategies
  Handler, MaxClickList, MaxClicks,   \* Delivery
  None

VARIABLES
  part,    \* the part this behaviour is about
  place, items, debtorListed, unpaid, paid, edits, today, portfolio, property, unit,
  debtor, leases, charges, payments, balances, aging, snapshot, grouped, steps, fetched,
  done, crossed,
  stages, enrolled, past, deleted, job, overtaken,
  channel, sender, pos, row, twin, provider, handler, top, seen, lost, raced

ledger     == <<place, items, debtorListed, unpaid, paid, edits, today, portfolio, property,
                unit, debtor, leases, charges, payments, balances, aging, snapshot, grouped,
                steps, fetched, done, crossed>>
strategies == <<stages, enrolled, past, deleted, job, overtaken>>
delivery   == <<channel, sender, pos, row, twin, provider, handler, top, seen,
                lost, raced>>

vars == <<part, ledger, strategies, delivery>>

L == INSTANCE PmsLedger
S == INSTANCE Strategies
D == INSTANCE Delivery

ASSUME FlowAssumption ==
  /\ L!LedgerAssumption /\ S!StrategyAssumption /\ D!DeliveryAssumption

\* Only the part that the behaviour is about has more than one initial state.
Init ==
  /\ part \in {"ledger", "strategies", "delivery"}
  /\ part # "ledger" => /\ place = "none"
                        /\ items = [l \in Lease |-> CHOOSE item \in L!Item : TRUE]
                        /\ unpaid = [c \in Charge |-> CHOOSE charge \in L!UnpaidCharge : TRUE]
  /\ part # "delivery" => channel = "sms" /\ sender = "stage"
  /\ L!Init /\ S!Init /\ D!Init

Next ==
  \/ part = "ledger" /\ L!Next /\ UNCHANGED <<part, strategies, delivery>>
  \/ part = "strategies" /\ S!Next /\ UNCHANGED <<part, ledger, delivery>>
  \/ part = "delivery" /\ D!Next /\ UNCHANGED <<part, ledger, strategies>>

Spec == Init /\ [][Next]_vars

FlowSymmetry == Permutations(Handler)

-----------------------------------------------------------------------------
(* The properties of a part are of its behaviours.                          *)

\* Types: every variable of the part stays in its type.
TypeOK ==
  /\ part = "ledger" => L!TypeOK
  /\ part = "strategies" => S!TypeOK
  /\ part = "delivery" => D!TypeOK

\* PmsLedger: the total of a day is the sum of what its leases owe, all of which is in the
\* balances but for a sync over midnight, and the risk of a lease is that of its newest aging row.
LedgerAddsUp ==
  part = "ledger" => L!TotalsAddUp /\ L!OwedIsListed /\ L!RiskOfNewest

\* PmsLedger: when every step has run, the tables have what the PMS lists, whatever they
\* had before and however many of the syncs failed on the way, and no case is built or
\* refreshed with fewer days past due than those of the oldest unpaid charge.
SyncedIsListed == part = "ledger" => L!SyncedIsListed /\ L!NoCaseTooYoung

\* Strategies: the stage a case is given fits its days when there is one that does, the
\* active stages share no day, and a deleted strategy had no past.
StagesFit ==
  part = "strategies" => S!StageFits /\ S!StagesApart /\ S!DeletedHadNoPast

\* Delivery: failed is only said of what the provider was not given or refused, and every
\* event of the link of a known message is counted with its type and listed.
DeliveryTold == part = "delivery" => D!FailedMeansRefused /\ D!ClicksCounted

\* Delivery: an end is undone only by a report that is late, or of no known status.
FinalStays == [][D!FinalStaysStep]_vars
=============================================================================
