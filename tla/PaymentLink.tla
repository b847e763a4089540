----------------------------- MODULE PaymentLink -----------------------------
(***************************************************************************)
(* The payment portal of one debt case: its payment links, the sessions    *)
(* they open, the disputes and the payment proofs a debtor adds.           *)
(*                                                                         *)
(* A link is found or created when a message is sent.  The debtor verifies *)
(* with lease data or with a code sent to him, within a bounded number of  *)
(* tries, and gets a session that lives fifteen minutes.  No row is locked *)
(* and nothing runs in a transaction: a request decides on the link it     *)
(* loaded, awaits, and writes.  Each such write is a step of its own here. *)
(*                                                                         *)
(* What a debtor types is nondeterministic: it matches or it does not.     *)
(* Links are never written PAID by the code under src/; the guards that    *)
(* name PAID are kept.                                                     *)
(***************************************************************************)
EXTENDS Naturals, Sequences, FiniteSets

CONSTANTS
  Link,       \* rows of payment_links of the case
  Request,    \* requests under way at once
  Dispute,    \* rows of case_disputes of the case
  Key,        \* uploaded files
  None,       \* no row
  MaxTries,   \* maxAttempts and maxOtpAttempts (5 in the code)
  MaxKeys,    \* evidence or proof keys a row keeps (20 in the code)
  MaxWrong    \* bound of the model: otpTries stops counting here

ASSUME PortalAssumption ==
  /\ None \notin Link \cup Request \cup Dispute \cup Key
  /\ MaxTries \in Nat \ {0}
  /\ MaxKeys \in Nat \ {0}
  /\ MaxWrong \in Nat /\ MaxWrong > MaxTries

\* A server has finitely many requests under way.
ASSUME RequestAssumption == IsFiniteSet(Request)

LinkStatus == {"none", "PENDING", "VERIFIED", "PAID", "EXPIRED", "BLOCKED"}

\* More than 24 hours left, less, or past expires_at.
Life == {"fresh", "short", "over"}

LinkRecord == [
  status   : LinkStatus,
  life     : Life,
  tries    : Nat,                        \* verificationAttempts
  otpTries : 0..MaxWrong,                \* otpAttempts
  code     : {"none", "live", "stale"},  \* otpCodeHash and otpExpiresAt
  clicked  : BOOLEAN,
  agreement : BOOLEAN]                   \* paymentAgreementId is set

NewLink(a) == [status |-> "PENDING", life |-> "fresh", tries |-> 0, otpTries |-> 0,
               code |-> "none", clicked |-> FALSE, agreement |-> a]
NoLink == [NewLink(FALSE) EXCEPT !.status = "none"]

\* A dispute keeps the keys of its evidence in the order they were added.
DisputeRecord == [status : {"none", "OPEN", "RESOLVED"}, evidence : Seq(Key)]

\* The details, the presigned uploads and a visit of a clicked link write
\* nothing: they have no action.
PublicOp  == {"visit", "verify", "otpSend", "otpVerify"}
SessionOp == {"dispute", "evidence", "proof"}
Phase == {"idle", "create", "expire", "click", "session", "block", "count", "passed",
          "codePassed", "wrong", "record", "dispute", "evidence", "proof", "open", "attach"}

RequestRecord == [
  at   : Phase,
  link : Link \cup {None},
  saw  : LinkStatus,             \* the status of the link as it was loaded
  base : 0..MaxWrong,            \* its otpAttempts, where the request uses them
  row  : Dispute \cup {None},    \* the dispute it loaded
  had  : Seq(Key)]               \* the keys of that dispute

Idle == [at |-> "idle", link |-> None, saw |-> "none", base |-> 0, row |-> None,
         had |-> <<>>]

VARIABLES
  link,      \* payment_links
  session,   \* links for which a session token is alive
  dispute,   \* case_disputes
  proofs,    \* payment_agreements.payment_proof_urls of the case's agreement
  req,       \* the local variables of each request
  matched    \* history: links for which lease data or a live code matched

vars == <<link, session, dispute, proofs, req, matched>>

Init ==
  /\ link = [l \in Link |-> NoLink]
  /\ session = {}
  /\ dispute = [d \in Dispute |-> [status |-> "none", evidence |-> <<>>]]
  /\ proofs = {}
  /\ req = [r \in Request |-> Idle]
  /\ matched = {}

Take(s, n) == SubSeq(s, 1, IF Len(s) < n THEN Len(s) ELSE n)

Goto(r, phase) == req' = [req EXCEPT ![r].at = phase]
Leave(r)       == req' = [req EXCEPT ![r] = Idle]

-----------------------------------------------------------------------------
(* Links are found or created when a message goes out.                      *)

Reusable(l) == link[l].status = "PENDING" /\ link[l].life = "fresh"

\* An existing link is reused whatever agreement it is tied to.
ResolveFind(r) ==
  /\ req[r].at = "idle"
  /\ ~\E l \in Link : Reusable(l)
  /\ req' = [req EXCEPT ![r] = [Idle EXCEPT !.at = "create"]]
  /\ UNCHANGED <<link, session, dispute, proofs, matched>>

ResolveCreate(r, l, withAgreement) ==
  /\ req[r].at = "create"
  /\ link[l].status = "none"
  /\ link' = [link EXCEPT ![l] = NewLink(withAgreement)]
  /\ Leave(r)
  /\ UNCHANGED <<session, dispute, proofs, matched>>

-----------------------------------------------------------------------------
(* Verification.                                                            *)

\* The answers to a request without a session: what it does next with the link
\* it loaded.  "idle" is an answer without a write.  The mutation is off by one.
LeaseAnswersLate(s) == {IF s.tries > MaxTries THEN "block" ELSE "count"}
LeaseAnswers(s)     == {IF s.tries >= MaxTries THEN "block" ELSE "count"}

\* The mutation compares with the hash whether or not it is still alive.
CodeAnswersStale(s) ==
  IF s.otpTries >= MaxTries THEN {"block"}
  ELSE IF s.code = "none" THEN {"idle"} ELSE {"wrong", "codePassed"}
CodeAnswers(s) ==
  IF s.otpTries >= MaxTries THEN {"block"}
  ELSE IF s.code \in {"none", "stale"} THEN {"idle"} ELSE {"wrong", "codePassed"}

\* Without an address on file, or when neither channel takes the message, the
\* request ends: idle.  The mutation forgets the limit.
SendAnswersUnlimited(s) == {"idle", "record"}
SendAnswers(s) == IF s.otpTries >= MaxTries THEN {"idle", "block"} ELSE {"idle", "record"}

\* The mutation lets a blocked link through to the questions.
ClosedStatusOpen == {"PAID", "EXPIRED"}
ClosedStatus     == {"BLOCKED", "PAID", "EXPIRED"}

Answers(op, s) ==
  IF s.status \in ClosedStatus THEN {"idle"}
  ELSE IF s.life = "over" THEN {"expire"}
  ELSE CASE op = "visit"  -> {IF s.clicked THEN "idle" ELSE "click"}
         [] op # "visit" /\ s.status = "VERIFIED" -> {"session"}
         [] op = "verify" /\ s.status # "VERIFIED" -> LeaseAnswers(s)
         [] op = "otpSend" /\ s.status # "VERIFIED" -> SendAnswers(s)
         [] op = "otpVerify" /\ s.status # "VERIFIED" -> CodeAnswers(s)

\* The code is compared in the step that loads the link, no await apart.
Load(r, op, l) ==
  /\ req[r].at = "idle"
  /\ link[l].status # "none"
  /\ \E a \in Answers(op, link[l]) :
       /\ a # "idle"
       /\ req' = [req EXCEPT ![r] = [Idle EXCEPT !.at = a, !.link = l,
                      !.saw = link[l].status,
                      !.base = IF a = "record" THEN link[l].otpTries ELSE 0]]
       /\ matched' = IF a = "codePassed" /\ link[l].code = "live"
                       THEN matched \cup {l} ELSE matched
  /\ UNCHANGED <<link, session, dispute, proofs>>

\* The writes that only set a column, whatever the row has become.
Expire(r) ==
  /\ req[r].at = "expire"
  /\ link' = [link EXCEPT ![req[r].link].status = "EXPIRED"]
  /\ Leave(r)
  /\ UNCHANGED <<session, dispute, proofs, matched>>

Click(r) ==
  /\ req[r].at = "click"
  /\ link' = [link EXCEPT ![req[r].link].clicked = TRUE]
  /\ Leave(r)
  /\ UNCHANGED <<session, dispute, proofs, matched>>

Block(r) ==
  /\ req[r].at = "block"
  /\ link' = [link EXCEPT ![req[r].link].status = "BLOCKED"]
  /\ Leave(r)
  /\ UNCHANGED <<session, dispute, proofs, matched>>

\* increment() adds to the column of the row; the comparison follows it.
Count(r, ok) ==
  /\ req[r].at = "count"
  /\ link' = [link EXCEPT ![req[r].link].tries = @ + 1]
  /\ IF ok THEN Goto(r, "passed") ELSE Leave(r)
  /\ matched' = IF ok THEN matched \cup {req[r].link} ELSE matched
  /\ UNCHANGED <<session, dispute, proofs>>

Wrong(r) ==
  /\ req[r].at = "wrong"
  /\ link[req[r].link].otpTries < MaxWrong
  /\ link' = [link EXCEPT ![req[r].link].otpTries = @ + 1]
  /\ Leave(r)
  /\ UNCHANGED <<session, dispute, proofs, matched>>

\* The new code and the count of the link as it was loaded, plus one.
RecordCode(r) ==
  /\ req[r].at = "record"
  /\ link' = [link EXCEPT ![req[r].link].code = "live",
                          ![req[r].link].otpTries = req[r].base + 1]
  /\ Leave(r)
  /\ UNCHANGED <<session, dispute, proofs, matched>>

\* verify leaves the code alone, verifyOtp clears it.
Verified(r) ==
  /\ req[r].at \in {"passed", "codePassed"}
  /\ link' = [link EXCEPT ![req[r].link].status = "VERIFIED",
                          ![req[r].link].code = IF req[r].at = "codePassed" THEN "none" ELSE @]
  /\ Goto(r, "session")
  /\ UNCHANGED <<session, dispute, proofs, matched>>

SignSession(r) ==
  /\ req[r].at = "session"
  /\ session' = session \cup {req[r].link}
  /\ Leave(r)
  /\ UNCHANGED <<link, dispute, proofs, matched>>

-----------------------------------------------------------------------------
(* Requests with a session.                                                 *)

\* A session opens the link it was signed for while the link is pending or
\* verified; its expiry date is not looked at.
Admitted(l) == l \in session /\ link[l].status \in {"VERIFIED", "PENDING"}

Enter(r, op, l) ==
  /\ req[r].at = "idle"
  /\ Admitted(l)
  /\ op = "proof" => link[l].agreement
  /\ req' = [req EXCEPT ![r] = [Idle EXCEPT !.at = op, !.link = l]]
  /\ UNCHANGED <<link, session, dispute, proofs, matched>>

OpenRows == {d \in Dispute : dispute[d].status = "OPEN"}

\* A second open dispute is refused.
LookForOpen(r) ==
  /\ req[r].at = "dispute"
  /\ IF OpenRows = {} THEN Goto(r, "open") ELSE Leave(r)
  /\ UNCHANGED <<link, session, dispute, proofs, matched>>

\* Evidence goes to the open dispute.
FindDispute(r) ==
  /\ req[r].at = "evidence"
  /\ \E d \in OpenRows :
       req' = [req EXCEPT ![r].at = "attach", ![r].row = d, ![r].had = dispute[d].evidence]
  /\ UNCHANGED <<link, session, dispute, proofs, matched>>

\* The unique index on open disputes of a case refuses a second row.
IndexAllows == OpenRows = {}

OpenDispute(r, d, keys) ==
  /\ req[r].at = "open"
  /\ dispute[d].status = "none"
  /\ dispute' = IF IndexAllows
                  THEN [dispute EXCEPT ![d] = [status |-> "OPEN", evidence |-> keys]]
                  ELSE dispute
  /\ Leave(r)
  /\ UNCHANGED <<link, session, proofs, matched>>

\* [...existing, ...keys].slice(0, 20); the mutation keeps the last ones.
MergedLast(had, keys) == Take(keys \o had, MaxKeys)
Merged(had, keys)     == Take(had \o keys, MaxKeys)

AttachEvidence(r, keys) ==
  /\ req[r].at = "attach"
  /\ dispute' = [dispute EXCEPT ![req[r].row].evidence = Merged(req[r].had, keys)]
  /\ Leave(r)
  /\ UNCHANGED <<link, session, proofs, matched>>

\* The agreement is loaded with its id only, so that the keys it had are never
\* there to be merged.
StoredProofs == {}
StoreProof(r, keys) ==
  /\ req[r].at = "proof"
  /\ proofs' = StoredProofs \cup keys
  /\ Leave(r)
  /\ UNCHANGED <<link, session, dispute, matched>>

-----------------------------------------------------------------------------
(* Time, operators and failures.                                            *)

Age(l) ==
  /\ link[l].status # "none" /\ link[l].life # "over"
  /\ link' = [link EXCEPT ![l].life = IF @ = "fresh" THEN "short" ELSE "over"]
  /\ UNCHANGED <<session, dispute, proofs, req, matched>>

CodeExpires(l) ==
  /\ link[l].code = "live"
  /\ link' = [link EXCEPT ![l].code = "stale"]
  /\ UNCHANGED <<session, dispute, proofs, req, matched>>

SessionExpires(l) ==
  /\ l \in session
  /\ session' = session \ {l}
  /\ UNCHANGED <<link, dispute, proofs, req, matched>>

ResolveDispute(d) ==
  /\ dispute[d].status = "OPEN"
  /\ dispute' = [dispute EXCEPT ![d].status = "RESOLVED"]
  /\ UNCHANGED <<link, session, proofs, req, matched>>

\* A query, an upload or a message that fails, or a server that dies.
Fail(r) ==
  /\ req[r].at # "idle"
  /\ Leave(r)
  /\ UNCHANGED <<link, session, dispute, proofs, matched>>

Next ==
  \/ \E r \in Request :
       \/ ResolveFind(r)
       \/ \E l \in Link, a \in BOOLEAN : ResolveCreate(r, l, a)
       \/ \E op \in PublicOp, l \in Link : Load(r, op, l)
       \/ Expire(r) \/ Click(r) \/ Block(r) \/ Wrong(r) \/ RecordCode(r)
       \/ \E ok \in BOOLEAN : Count(r, ok)
       \/ Verified(r) \/ SignSession(r)
       \/ \E op \in SessionOp, l \in Link : Enter(r, op, l)
       \/ LookForOpen(r) \/ FindDispute(r)
       \/ \E d \in Dispute, k \in Key : OpenDispute(r, d, <<>>) \/ OpenDispute(r, d, <<k>>)
       \/ \E k \in Key : AttachEvidence(r, <<k>>) \/ StoreProof(r, {k})
       \/ Fail(r)
  \/ \E l \in Link : Age(l) \/ CodeExpires(l) \/ SessionExpires(l)
  \/ \E d \in Dispute : ResolveDispute(d)

Spec == Init /\ [][Next]_vars

-----------------------------------------------------------------------------
(* Properties.                                                              *)

TypeOK ==
  /\ link \in [Link -> LinkRecord]
  /\ session \subseteq Link
  /\ dispute \in [Dispute -> DisputeRecord]
  /\ proofs \subseteq Key
  /\ req \in [Request -> RequestRecord]
  /\ matched \subseteq Link

\* A link is verified, and a session opened, only after lease data matched or
\* a code that was still alive did.
VerifiedNeedsMatch ==
  /\ \A l \in Link : link[l].status = "VERIFIED" => l \in matched
  /\ session \subseteq matched

\* The check of the limit and the increment are an await apart: the comparisons
\* made for one link exceed the limit by the other requests under way at most.
TriesBounded ==
  \A l \in Link : link[l].tries <= MaxTries + Cardinality(Request) - 1

\* A blocked or expired link gets another status only from a request that loaded
\* it before it was closed.
ClosedStays ==
  [][ \A l \in Link :
        link[l].status \in {"BLOCKED", "PAID", "EXPIRED"} /\ link'[l].status # link[l].status
          => \E r \in Request : /\ req'[r] # req[r] /\ req[r].link = l
                                /\ req[r].saw \notin {"BLOCKED", "PAID", "EXPIRED"} ]_vars

\* A key of evidence is lost only to a request that loaded the dispute before
\* the key was added; a full list refuses the new keys, never the old.
EvidenceKept ==
  [][ \A d \in Dispute, i \in 1..MaxKeys :
        /\ i \in DOMAIN dispute[d].evidence
        /\ i \in DOMAIN dispute'[d].evidence => dispute'[d].evidence[i] # dispute[d].evidence[i]
        => \E r \in Request :
             /\ req'[r] # req[r] /\ req[r].row = d
             /\ i \in DOMAIN req[r].had => req[r].had[i] # dispute[d].evidence[i] ]_vars
=============================================================================
