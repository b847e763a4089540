------------------------------ MODULE PmsLedger ------------------------------
(***************************************************************************)
(* What a sync brings into the tables of a connection, step by step: the   *)
(* lists fetched from the PMS (Rentvine's export) are upserted, nothing is *)
(* ever deleted, and the last step works out the balances and the aging of *)
(* the day.  PmsSync says when syncs run; here one runs at a time, of all  *)
(* the steps or of those of the hour, any step may fail and be rolled      *)
(* back, and midnight may come between any two of them.                    *)
(*                                                                         *)
(* The leases share one unit of one property, which may be in a portfolio. *)
(* The PMS does not change during a sync, which fetches all its lists      *)
(* first: a change then is the same as one after it.                       *)
(***************************************************************************)
EXTENDS Integers, FiniteSets, FiniteSetsExt, Sequences

CONSTANTS
  Lease,        \* numbers, in the order of the export
  Charge, Payment,
  Age,          \* how many days past due a charge may be on day 0
  ChargeAmount, \* amountCents of every charge, and of every payment
  Total, Late,  \* the balances, and the parts of them past due, that the PMS may give
  MaxDay,       \* bound on the days
  MaxEdits,     \* bound on the changes of the PMS
  None

Day == 0 .. MaxDay

ALL_STEPS    == <<"debtors_leases", "charges", "payments", "balances_aging">>
HOURLY_STEPS == <<"payments", "balances_aging">>

(* What the PMS lists.                                                      *)
Item == [
  active : BOOLEAN,
  total  : {None} \cup Total,   \* unpaidTotalAmount, when there are balances
  late   : {None} \cup Late]    \* pastDueTotalAmount

UnpaidCharge == [lease : Lease, age : Age, open : 0 .. ChargeAmount]

\* The items name the property and its unit, and the portfolio too, or nothing.
Place == {"none", "bare", "grouped"}

(* The rows of the tables.                                                  *)
Risk       == {"none", "al_dia", "bajo", "medio", "alto", "critico"}
LeaseRow   == [active : BOOLEAN, placed : BOOLEAN, risk : Risk]
ChargeRow  == UnpaidCharge
PaymentRow == [lease : Lease \cup {None}]
AgingRow   == [balance : Nat, pastDue : Nat, days : Nat]

Bucket      == {"0_30", "31_60", "61_90", "90_plus"}
SnapshotRow == [total : Nat, buckets : [Bucket -> Nat]]
GroupRow    == [total : Nat, pastDue : Nat, buckets : [Bucket -> Nat]]

LedgerAssumption ==
  /\ Lease \cup Total \cup Late \subseteq Nat /\ Age \subseteq Int
  /\ {ChargeAmount, MaxDay, MaxEdits} \subseteq Nat
  /\ IsFiniteSet(Lease) /\ IsFiniteSet(Charge) /\ IsFiniteSet(Payment)
  /\ None \notin Int \cup LeaseRow \cup AgingRow

VARIABLES
  \* the PMS: of the place, of each lease, whether the debtor of them all is listed
  place, items, debtorListed, unpaid, paid, edits,
  today,
  \* the tables: those of the place, and the others
  portfolio, property, unit, debtor, leases, charges, payments,
  balances, aging, snapshot, grouped,
  steps,      \* still to be run by the sync; empty: no sync
  fetched,    \* the day of its lists, which dates the balances that it was given; None: no sync
  done,       \* history: the steps that have run since what they depend on changed
  crossed     \* history: days whose rows are, some of them, of a sync over midnight

pms    == <<place, items, debtorListed, unpaid, paid, edits>>
places == <<portfolio, property, unit>>
ledger == <<balances, aging, snapshot, grouped>>
tables == <<places, debtor, leases, charges, payments, ledger>>
sync   == <<steps, fetched>>
vars   == <<pms, today, tables, sync, done, crossed>>

\* The PMS lists everything but payments, and the tables are empty.
Init ==
  /\ place \in Place
  /\ items \in [Lease -> Item]
  /\ debtorListed = TRUE
  /\ unpaid \in [Charge -> UnpaidCharge]
  /\ paid = {}
  /\ edits = 0
  /\ today = 0
  /\ portfolio = FALSE /\ property = "none" /\ unit = FALSE
  /\ debtor = FALSE
  /\ leases = [l \in Lease |-> None]
  /\ charges = [c \in Charge |-> None]
  /\ payments = [p \in Payment |-> None]
  /\ balances = [l \in Lease |-> [d \in Day |-> None]]
  /\ aging = [l \in Lease |-> [d \in Day |-> None]]
  /\ snapshot = [d \in Day |-> None]
  /\ grouped = [d \in Day |-> None]
  /\ steps = <<>> /\ fetched = None
  /\ done = {} /\ crossed = {}

-----------------------------------------------------------------------------
(* The PMS and the calendar.                                                *)

Edited ==
  /\ steps = <<>>
  /\ edits < MaxEdits
  /\ edits' = edits + 1
  /\ done' = {}
  /\ UNCHANGED <<today, tables, sync, crossed>>

EditPlace ==
  /\ Edited
  /\ place' \in Place
  /\ debtorListed' \in BOOLEAN
  /\ UNCHANGED <<items, unpaid, paid>>

EditLease(l, item) ==
  /\ Edited
  /\ items' = [items EXCEPT ![l] = item]
  /\ UNCHANGED <<place, debtorListed, unpaid, paid>>

\* A charge that is paid is not listed any more.
EditCharge(c, charge) ==
  /\ Edited
  /\ unpaid' = [unpaid EXCEPT ![c] = charge]
  /\ UNCHANGED <<place, items, debtorListed, paid>>

EditPayment(p) ==
  /\ Edited
  /\ paid' = paid \cup {p}
  /\ UNCHANGED <<place, items, debtorListed, unpaid>>

\* It may pass between the fetch and any of the steps.
DayPasses ==
  /\ today < MaxDay
  /\ today' = today + 1
  /\ done' = {}
  /\ UNCHANGED <<pms, tables, sync, crossed>>

-----------------------------------------------------------------------------
(* A sync: its steps, each in a transaction.                                *)

Listed     == {l \in Lease : items[l] # None}
IsNext(s)  == steps # <<>> /\ Head(steps) = s

AllSteps == {ALL_STEPS[i] : i \in 1 .. 4}
Later(s) == {ALL_STEPS[j] : j \in {k \in 1 .. 4 : \E i \in 1 .. k - 1 : ALL_STEPS[i] = s}}

\* The first of the steps is over, and those that come after it are not, of a first time.
\* A step with lists of yesterday is not counted.
Ran ==
  /\ steps' = Tail(steps)
  /\ done' = IF done = AllSteps \/ fetched # today THEN done
             ELSE (done \ Later(Head(steps))) \cup {Head(steps)}
  /\ fetched' = IF Tail(steps) = <<>> THEN None ELSE fetched

\* runSync asks the connector for everything, whatever the steps.
Begin(some) ==
  /\ steps = <<>>
  /\ steps' = some
  /\ fetched' = today
  /\ UNCHANGED <<pms, today, tables, done, crossed>>

StepFails ==
  /\ steps # <<>>
  /\ steps' = <<>> /\ fetched' = None
  /\ UNCHANGED <<pms, today, tables, done, crossed>>

\* What is listed is written over what there is, and what is not is left.
UpsertPortfolios == portfolio' = (portfolio \/ (place = "grouped" /\ Listed # {}))
UpsertProperties == property' = IF Listed = {} \/ place = "none" THEN property ELSE place
UpsertUnits      == unit' = (unit \/ (place # "none" /\ Listed # {}))
UpsertDebtors    == debtor' = (debtor \/ debtorListed)

\* A lease whose debtor is not known is skipped. The risk is not of the PMS; the mutation
\* writes it with the rest.
LeaseOfAnew(l) == [active |-> items[l].active, placed |-> place # "none", risk |-> "none"]
LeaseOf(l) == [active |-> items[l].active, placed |-> place # "none",
               risk |-> IF leases[l] = None THEN "none" ELSE leases[l].risk]
UpsertLeases ==
  leases' = [l \in Lease |-> IF l \in Listed /\ debtor' THEN LeaseOf(l) ELSE leases[l]]

syncDebtorsAndLeases ==
  /\ IsNext("debtors_leases")
  /\ UpsertPortfolios /\ UpsertDebtors /\ UpsertProperties /\ UpsertUnits /\ UpsertLeases
  /\ Ran
  /\ UNCHANGED <<pms, today, charges, payments, ledger, crossed>>

Known(l) == l # None /\ leases[l] # None

\* The charges of a lease that is not known are skipped; the mutation takes the first
\* list for good.
UpsertedOnce(c) == IF charges[c] = None THEN unpaid[c] ELSE charges[c]
Upserted(c)     == unpaid[c]

syncCharges ==
  /\ IsNext("charges")
  /\ charges' = [c \in Charge |-> IF unpaid[c] # None /\ Known(unpaid[c].lease)
                                    THEN Upserted(c) ELSE charges[c]]
  /\ Ran
  /\ UNCHANGED <<pms, today, places, debtor, leases, payments, ledger, crossed>>

\* buildUnitToLeaseMap: a payment names a unit, which stands for the first active lease,
\* or else for the first.
Tenancies == IF place = "none" THEN {} ELSE Listed
Active    == {l \in Tenancies : items[l].active}
UnitLease == CASE Active # {} -> Min(Active)
               [] Active = {} /\ Tenancies # {} -> Min(Tenancies)
               [] OTHER -> None

syncPayments ==
  /\ IsNext("payments")
  /\ payments' = [p \in Payment |->
       IF p \in paid THEN [lease |-> IF Known(UnitLease) THEN UnitLease ELSE None]
       ELSE payments[p]]
  /\ Ran
  /\ UNCHANGED <<pms, today, places, debtor, leases, charges, ledger, crossed>>

-----------------------------------------------------------------------------
(* computeBalancesAndAging.                                                 *)

ChargesOf(l)  == {c \in Charge : charges[c] # None /\ charges[c].lease = l}
PaymentsOf(l) == {p \in Payment : payments[p] # None /\ payments[p].lease = l}

Computed(l) == ChargeAmount * (Cardinality(ChargesOf(l)) - Cardinality(PaymentsOf(l)))

\* The balance of the connector comes before the computed one.
Given(l)   == l \in Listed /\ items[l].total # None
Balance(l) == IF Given(l) THEN items[l].total ELSE Computed(l)

Positive(n) == IF n > 0 THEN n ELSE 0

\* A computed balance is written when it is positive, at the day of the step; a given one
\* at the day of the fetch.
WritesBalance(l) == Given(l) \/ Computed(l) > 0
BalanceDay(l)    == IF Given(l) THEN fetched ELSE today

DaysPastDue(c) == charges[c].age + today
Late30(l)      == {c \in ChargesOf(l) : DaysPastDue(c) >= 0 /\ charges[c].open > 0}

BucketOf(n) == CASE n <= 30 -> "0_30" [] n \in 31 .. 60 -> "31_60"
                 [] n \in 61 .. 90 -> "61_90" [] OTHER -> "90_plus"

Open(cs)     == SumFunction([c \in cs |-> charges[c].open])
Buckets(ls)  == [b \in Bucket |->
  Open({c \in UNION {Late30(l) : l \in ls} : BucketOf(DaysPastDue(c)) = b})]

OldestDays(l) == IF Late30(l) = {} THEN 0 ELSE Max({DaysPastDue(c) : c \in Late30(l)})

PastDue(l) ==
  CASE Balance(l) <= 0 -> 0
    [] Balance(l) > 0 /\ Given(l) /\ items[l].late # None -> Min({items[l].late, Balance(l)})
    [] OTHER -> Open(Late30(l))

RiskOf(n) == CASE n <= 0 -> "al_dia" [] n \in 1 .. 30 -> "bajo" [] n \in 31 .. 60 -> "medio"
               [] n \in 61 .. 90 -> "alto" [] OTHER -> "critico"

\* A credit of one lease does not pay for another.
TotalOf(ls) == SumFunction([l \in ls |-> Positive(Balance(l))])

\* The leases of the portfolio that owe something.
Grouped(ls) == {l \in ls : property = "grouped" /\ leases[l].placed /\ Balance(l) > 0}

computeBalancesAndAging ==
  LET known == {l \in Lease : Known(l)}
      group == Grouped(known)
  IN  /\ IsNext("balances_aging")
      /\ balances' = [l \in Lease |-> IF l \in known /\ WritesBalance(l)
                        THEN [balances[l] EXCEPT ![BalanceDay(l)] = Balance(l)] ELSE balances[l]]
      /\ leases' = [l \in Lease |-> IF l \in known
                      THEN [leases[l] EXCEPT !.risk = RiskOf(OldestDays(l))] ELSE leases[l]]
      /\ aging' = [l \in Lease |-> IF l \in known
                     THEN [aging[l] EXCEPT ![today] = [balance |-> Positive(Balance(l)),
                             pastDue |-> PastDue(l), days |-> OldestDays(l)]] ELSE aging[l]]
      /\ grouped' = IF group = {} THEN grouped
                    ELSE [grouped EXCEPT ![today] = [total |-> TotalOf(group),
                            pastDue |-> SumFunction([l \in group |-> PastDue(l)]),
                            buckets |-> Buckets(group)]]
      /\ snapshot' = [snapshot EXCEPT ![today] = [total |-> TotalOf(known),
                                                  buckets |-> Buckets(known)]]
      /\ crossed' = IF fetched = today THEN crossed \ {today}
                    ELSE crossed \cup {fetched, today}
      /\ Ran
      /\ UNCHANGED <<pms, today, places, debtor, charges, payments>>

Next ==
  \/ EditPlace
  \/ \E l \in Lease, item \in Item \cup {None} : EditLease(l, item)
  \/ \E c \in Charge, charge \in UnpaidCharge \cup {None} : EditCharge(c, charge)
  \/ \E p \in Payment : EditPayment(p)
  \/ DayPasses
  \/ \E some \in {ALL_STEPS, HOURLY_STEPS} : Begin(some)
  \/ StepFails
  \/ syncDebtorsAndLeases \/ syncCharges \/ syncPayments \/ computeBalancesAndAging

Spec == Init /\ [][Next]_vars

-----------------------------------------------------------------------------
(* Properties.                                                              *)

TypeOK ==
  /\ place \in Place /\ items \in [Lease -> Item \cup {None}] /\ debtorListed \in BOOLEAN
  /\ unpaid \in [Charge -> UnpaidCharge \cup {None}] /\ paid \subseteq Payment
  /\ edits \in 0 .. MaxEdits /\ today \in Day
  /\ portfolio \in BOOLEAN /\ property \in Place /\ unit \in BOOLEAN /\ debtor \in BOOLEAN
  /\ leases \in [Lease -> LeaseRow \cup {None}]
  /\ charges \in [Charge -> ChargeRow \cup {None}]
  /\ payments \in [Payment -> PaymentRow \cup {None}]
  /\ balances \in [Lease -> [Day -> Nat \cup {None}]]
  /\ aging \in [Lease -> [Day -> AgingRow \cup {None}]]
  /\ snapshot \in [Day -> SnapshotRow \cup {None}]
  /\ grouped \in [Day -> GroupRow \cup {None}]
  /\ fetched \in Day \cup {None} /\ done \subseteq AllSteps /\ crossed \subseteq Day

\* Whatever steps ran and failed, the total of a day is the sum of the balances of its
\* aging rows: the credit of one lease pays for no other.
TotalsAddUp ==
  \A d \in Day : snapshot[d] # None =>
    snapshot[d].total = SumFunction([l \in {x \in Lease : aging[x][d] # None} |->
                                     aging[l][d].balance])

\* What the aging of a day says that a lease owes is what its balance of that day says:
\* the page that lists the balances leaves nothing of the total out. Only a sync over
\* midnight says otherwise, of the two days, and the next sync of the second sets it right.
OwedIsListed ==
  \A l \in Lease, d \in Day \ crossed :
    aging[l][d] # None /\ aging[l][d].balance > 0 => balances[l][d] = aging[l][d].balance

\* The risk of a lease is that of its newest aging row, though leases are upserted by
\* one step and aged by another.
RiskOfNewest ==
  \A l \in Lease : Known(l) =>
    LET days == {d \in Day : aging[l][d] # None}
    IN  leases[l].risk = IF days = {} THEN "none" ELSE RiskOf(aging[l][Max(days)].days)

\* When every step has run since the PMS or the day changed, the tables have what the
\* PMS lists, whatever they had before and however many of the syncs failed on the way.
SyncedIsListed ==
  done = AllSteps /\ debtorListed =>
    /\ \A l \in Listed : leases[l].active = items[l].active
    /\ \A c \in Charge : unpaid[c] # None /\ unpaid[c].lease \in Listed => charges[c] = unpaid[c]
    /\ \A l \in Listed : Given(l) => balances[l][today] = items[l].total

\* The days past due that cases are built and refreshed with (case-build.service.js).
computeDpd(l) == LET of == {c \in ChargesOf(l) : charges[c].open > 0}
                 IN  IF of = {} THEN 0 ELSE Max({Positive(DaysPastDue(c)) : c \in of})

\* A case is never taken for younger than the oldest charge that the PMS lists unpaid.
\* (It may be taken for older: a charge that was paid is listed no more, and stays open.)
NoCaseTooYoung ==
  done = AllSteps /\ debtorListed => \A l \in Listed :
    computeDpd(l) >= LET of == {c \in Charge : unpaid[c] # None /\ unpaid[c].lease = l
                                                 /\ unpaid[c].open > 0}
                     IN  IF of = {} THEN 0 ELSE Max({Positive(unpaid[c].age + today) : c \in of})
=============================================================================
