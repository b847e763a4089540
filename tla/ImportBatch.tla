---------------------------- MODULE ImportBatch ----------------------------
(***************************************************************************)
(* Importing a spreadsheet of debts: the upload that makes a batch, and    *)
(* the request that processes it, row by row, each row in a transaction of *)
(* its own.  Claiming the batch is a read and a later write; a server that *)
(* dies leaves the rows it has committed and the batch PROCESSING.         *)
(*                                                                         *)
(* A debtor is looked for by any identifier of the row, an e-mail address  *)
(* or a telephone (an external reference goes the same way), and whichever *)
(* debtor the query returns takes all the identifiers of the row.  A case  *)
(* holds the row it was written from, which stands for its amount.         *)
(***************************************************************************)
EXTENDS Naturals, Sequences, FiniteSets

CONSTANTS
  Worker,    \* requests to process the batch
  Email, Phone,
  MaxRows,   \* bound on the rows of the spreadsheet
  None

ImportAssumption == MaxRows \in Nat \ {0} /\ None \notin Email \cup Phone

\* good: it has a name, an amount and a date that can be read.
Row == [email : Email \cup {None}, phone : Phone \cup {None}, good : BOOLEAN]

DebtorRecord == [email : Email \cup {None}, phone : Phone \cup {None}]

BatchRecord == [
  status  : {"PENDING", "PROCESSING", "COMPLETED", "FAILED"},
  file    : BOOLEAN,
  total   : 0 .. MaxRows,
  success : 0 .. MaxRows,
  errors  : 0 .. MaxRows]

Phase == {"idle", "seen", "claimed", "find", "write", "gone"}

WorkerRecord == [
  at      : Phase,
  read    : {"PENDING", "PROCESSING", "COMPLETED", "FAILED"},  \* status that was read
  row     : 1 .. MaxRows + 1,
  debtor  : Nat,               \* the debtor found for the row; 0: none
  success : 0 .. MaxRows,
  errors  : 0 .. MaxRows]

NewWorker == [at |-> "idle", read |-> "PENDING", row |-> 1, debtor |-> 0,
              success |-> 0, errors |-> 0]

VARIABLES
  rows,      \* the rows of the spreadsheet
  batch,     \* the row of import_batches
  debtors,   \* debtors, in the order of their creation
  cases,     \* the cases of the batch: [debtor, row]
  worker,
  raced,     \* history: the batch was claimed on a status that had changed
  broken     \* history: a worker died, or met a fatal error

vars == <<rows, batch, debtors, cases, worker, raced, broken>>

SomeRows == UNION {[1 .. n -> Row] : n \in 0 .. MaxRows}

Init ==
  /\ rows \in SomeRows
  /\ batch = [status |-> "PENDING", file |-> FALSE, total |-> 0, success |-> 0, errors |-> 0]
  /\ debtors = <<>>
  /\ cases = <<>>
  /\ worker = [w \in Worker |-> NewWorker]
  /\ raced = FALSE
  /\ broken = FALSE

-----------------------------------------------------------------------------
(* createBatch: the row, then the file, whose loss fails the batch.         *)

Upload(stored) ==
  /\ batch.status = "PENDING" /\ ~batch.file
  /\ batch' = IF stored THEN [batch EXCEPT !.file = TRUE]
              ELSE [batch EXCEPT !.status = "FAILED"]
  /\ UNCHANGED <<rows, debtors, cases, worker, raced, broken>>

-----------------------------------------------------------------------------
(* processBatch.                                                            *)

\* The mutation lets a batch that failed be processed again.
MayProcessAgain == batch.status \in {"PENDING", "FAILED"} /\ batch.file
MayProcess      == batch.status = "PENDING" /\ batch.file

BeginProcess(w) ==
  /\ worker[w].at = "idle"
  /\ MayProcess
  /\ worker' = [worker EXCEPT ![w].at = "seen", ![w].read = batch.status]
  /\ UNCHANGED <<rows, batch, debtors, cases, raced, broken>>

Claim(w) ==
  /\ worker[w].at = "seen"
  /\ batch' = [batch EXCEPT !.status = "PROCESSING"]
  /\ worker' = [worker EXCEPT ![w].at = "claimed"]
  /\ raced' = (raced \/ batch.status # worker[w].read)
  /\ UNCHANGED <<rows, debtors, cases, broken>>

\* The sheet is read and its rows are counted; an empty one is a fatal error.
ReadSheet(w) ==
  /\ worker[w].at = "claimed"
  /\ rows # <<>>
  /\ batch' = [batch EXCEPT !.total = Len(rows)]
  /\ worker' = [worker EXCEPT ![w].at = "find"]
  /\ UNCHANGED <<rows, debtors, cases, raced, broken>>

\* What makes the row of a sheet importable.
IsImportable(row) == row.good /\ (row.email # None \/ row.phone # None)

Matches(row) ==
  {d \in DOMAIN debtors : \/ row.email # None /\ debtors[d].email = row.email
                          \/ row.phone # None /\ debtors[d].phone = row.phone}

\* Opens the transaction of a row, and looks for its debtor: any that matches.
FindDebtor(w) ==
  /\ worker[w].at = "find"
  /\ worker[w].row <= Len(rows)
  /\ LET row == rows[worker[w].row]
     IN  IF ~IsImportable(row)
           THEN worker' = [worker EXCEPT ![w].row = @ + 1, ![w].errors = @ + 1]
           ELSE \E d \in IF Matches(row) = {} THEN {0} ELSE Matches(row) :
                  worker' = [worker EXCEPT ![w].at = "write", ![w].debtor = d]
  /\ UNCHANGED <<rows, batch, debtors, cases, raced, broken>>

\* The case of this debtor in this batch; the mutation takes any case of the batch.
AnyCase(d) == DOMAIN cases
CasesOf(d) == {c \in DOMAIN cases : cases[c].debtor = d}

\* The debtor, updated (which locks the row until the end) or created; the case, the
\* same; and the commit.
WriteRow(w) ==
  /\ worker[w].at = "write"
  /\ LET i   == worker[w].row
         new == [email |-> rows[i].email, phone |-> rows[i].phone]
         d   == IF worker[w].debtor = 0 THEN Len(debtors) + 1 ELSE worker[w].debtor
     IN  /\ debtors' = IF worker[w].debtor = 0 THEN Append(debtors, new)
                       ELSE [debtors EXCEPT ![d] = new]
         /\ IF CasesOf(d) = {}
              THEN cases' = Append(cases, [debtor |-> d, row |-> i])
              ELSE \E c \in CasesOf(d) : cases' = [cases EXCEPT ![c].row = i]
  /\ worker' = [worker EXCEPT ![w].at = "find", ![w].debtor = 0, ![w].row = @ + 1,
                              ![w].success = @ + 1]
  /\ UNCHANGED <<rows, batch, raced, broken>>

\* The database refuses the row: the transaction is rolled back and the next is taken.
RollBack(w) ==
  /\ worker[w].at = "write"
  /\ worker' = [worker EXCEPT ![w].at = "find", ![w].debtor = 0, ![w].row = @ + 1,
                              ![w].errors = @ + 1]
  /\ UNCHANGED <<rows, batch, debtors, cases, raced, broken>>

\* A batch has failed when all its rows have.
Outcome(errors) == IF errors = Len(rows) THEN "FAILED" ELSE "COMPLETED"

Finish(w) ==
  /\ worker[w].at = "find"
  /\ worker[w].row > Len(rows)
  /\ batch' = [batch EXCEPT !.status = Outcome(worker[w].errors),
                            !.success = worker[w].success, !.errors = worker[w].errors]
  /\ worker' = [worker EXCEPT ![w] = [NewWorker EXCEPT !.at = "gone"]]
  /\ UNCHANGED <<rows, debtors, cases, raced, broken>>

\* The sheet cannot be fetched or has no rows, or the end cannot be written.
Fatal(w) ==
  /\ \/ worker[w].at = "claimed"
     \/ worker[w].at = "find" /\ worker[w].row > Len(rows)
  /\ batch' = [batch EXCEPT !.status = "FAILED"]
  /\ worker' = [worker EXCEPT ![w] = [NewWorker EXCEPT !.at = "gone"]]
  /\ broken' = TRUE
  /\ UNCHANGED <<rows, debtors, cases, raced>>

\* The server dies: an open transaction is lost, the status stays.
Crash(w) ==
  /\ worker[w].at \notin {"idle", "gone"}
  /\ worker' = [worker EXCEPT ![w] = [NewWorker EXCEPT !.at = "gone"]]
  /\ broken' = TRUE
  /\ UNCHANGED <<rows, batch, debtors, cases, raced>>

Next ==
  \/ \E stored \in BOOLEAN : Upload(stored)
  \/ \E w \in Worker :
       \/ BeginProcess(w) \/ Claim(w) \/ ReadSheet(w)
       \/ FindDebtor(w) \/ WriteRow(w) \/ RollBack(w)
       \/ Finish(w) \/ Fatal(w) \/ Crash(w)

Spec == Init /\ [][Next]_vars

-----------------------------------------------------------------------------
(* Properties.                                                              *)

TypeOK ==
  /\ rows \in SomeRows
  /\ batch \in BatchRecord
  /\ debtors \in Seq(DebtorRecord)
  /\ cases \in Seq([debtor : 1 .. Len(debtors), row : 1 .. MaxRows])
  /\ worker \in [Worker -> WorkerRecord]
  /\ raced \in BOOLEAN /\ broken \in BOOLEAN

SharesIdentifier(a, b) ==
  \/ a.email # None /\ a.email = b.email
  \/ a.phone # None /\ a.phone = b.phone

\* In a batch that one request processed to its end without a refusal of the database,
\* an importable row that no later row touches has one case, written from it, and its
\* debtor has the identifiers of that row.
EveryRowLands ==
  batch.status = "COMPLETED" /\ ~raced
  /\ batch.errors = Cardinality({i \in DOMAIN rows : ~IsImportable(rows[i])})
  => \A i \in DOMAIN rows :
       /\ IsImportable(rows[i])
       /\ \A j \in i + 1 .. Len(rows) : ~SharesIdentifier(rows[i], rows[j])
       => \E c \in DOMAIN cases :
            /\ {k \in DOMAIN cases : cases[k].row = i} = {c}
            /\ debtors[cases[c].debtor].email = rows[i].email
            /\ debtors[cases[c].debtor].phone = rows[i].phone

\* A batch reported FAILED has left no case, unless a server died or met a fatal
\* error, or two requests claimed it.
FailedLeavesNothing ==
  batch.status = "FAILED" /\ ~broken /\ ~raced => cases = <<>>

\* The end of a batch is not undone, unless two requests claimed it.
EndedStep ==
  batch.status \in {"COMPLETED", "FAILED"} /\ batch'.status # batch.status => raced'
=============================================================================
