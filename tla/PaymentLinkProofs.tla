-------------------------- MODULE PaymentLinkProofs --------------------------
(***************************************************************************)
(* Proofs about PaymentLink, for any links, requests, disputes and keys    *)
(* and any limits: the types, that a link is verified and a session opened *)
(* only after a match, the bound on the comparisons of one link, and what  *)
(* a request that decided on an old row can undo.                          *)
(***************************************************************************)
EXTENDS PaymentLink, TLAPS, FiniteSetTheorems, SequenceTheorems

-----------------------------------------------------------------------------
(***************************************************************************)
(* Types.  A request that is about to write a link holds one, which was    *)
(* open when it was loaded; the count it will write back is below the      *)
(* limit, and the dispute it will write is one it found.                   *)
(***************************************************************************)
Closed == {"BLOCKED", "PAID", "EXPIRED"}

OnLink == {"expire", "click", "session", "block", "count", "passed", "codePassed",
           "wrong", "record"}

Holds(q) ==
  /\ q.at \in OnLink => q.link \in Link /\ q.saw \notin Closed
  /\ q.at = "record" => q.base < MaxTries
  /\ q.at = "attach" => q.row \in Dispute

TypeInv ==
  /\ TypeOK
  /\ \A r \in Request : Holds(req[r])

LEMMA IdleType == Idle \in RequestRecord /\ Holds(Idle) /\ Idle.at = "idle"
  BY PortalAssumption DEF Idle, RequestRecord, Phase, LinkStatus, Holds, OnLink

LEMMA NewLinkType ==
  /\ \A a \in BOOLEAN : NewLink(a) \in LinkRecord
  /\ NoLink \in LinkRecord
<1>1. \A a \in BOOLEAN : NewLink(a) \in LinkRecord
  BY PortalAssumption DEF NewLink, LinkRecord, LinkStatus, Life
<1>2. NoLink \in LinkRecord
  BY <1>1 DEF NoLink, LinkRecord, LinkStatus
<1> QED
  BY <1>1, <1>2

\* Merging keeps the keys a dispute had, in their places, as far as the limit.
LEMMA MergedKeeps ==
  ASSUME NEW had \in Seq(Key), NEW keys \in Seq(Key)
  PROVE  /\ Merged(had, keys) \in Seq(Key)
         /\ \A i \in 1..MaxKeys : i \in DOMAIN had =>
              i \in DOMAIN Merged(had, keys) /\ Merged(had, keys)[i] = had[i]
<1> DEFINE all == had \o keys
           n   == IF Len(all) < MaxKeys THEN Len(all) ELSE MaxKeys
<1>1. /\ all \in Seq(Key)
      /\ Len(all) = Len(had) + Len(keys)
      /\ \A i \in 1..Len(all) : all[i] = IF i <= Len(had) THEN had[i] ELSE keys[i - Len(had)]
  BY ConcatProperties
<1>2. Len(had) \in Nat /\ Len(keys) \in Nat /\ DOMAIN had = 1..Len(had)
  BY LenProperties
<1>3. n \in Nat /\ n <= Len(all) /\ n <= MaxKeys
  BY <1>1, <1>2, PortalAssumption
<1>4. \A i \in 1..n : all[i] \in Key
  BY <1>1, <1>3, ElementOfSeq
<1>5. Merged(had, keys) = SubSeq(all, 1, n)
  BY DEF Merged, Take
<1> HIDE DEF all, n
<1>6. /\ SubSeq(all, 1, n) \in Seq(Key)
      /\ Len(SubSeq(all, 1, n)) = IF 1 <= n THEN n - 1 + 1 ELSE 0
      /\ \A i \in 1..n - 1 + 1 : SubSeq(all, 1, n)[i] = all[1 + i - 1]
  BY <1>3, <1>4, SubSeqProperties
<1>7. DOMAIN SubSeq(all, 1, n) = 1..n
  BY <1>3, <1>6, LenProperties
<1>8. ASSUME NEW i \in 1..MaxKeys, i \in DOMAIN had
      PROVE  i \in DOMAIN SubSeq(all, 1, n) /\ SubSeq(all, 1, n)[i] = had[i]
  <2>1. i \in 1..n
    BY <1>1, <1>2, <1>8, PortalAssumption DEF n
  <2>2. SubSeq(all, 1, n)[i] = all[i]
    BY <1>3, <1>6, <2>1
  <2>3. i \in 1..Len(had) /\ i \in 1..Len(all)
    BY <1>1, <1>2, <1>8
  <2>4. all[i] = had[i]
    BY <1>1, <2>3
  <2> QED
    BY <1>7, <2>1, <2>2, <2>4
<1> QED
  BY <1>5, <1>6, <1>8

LEMMA TypeInit == Init => TypeInv
<1> SUFFICES ASSUME Init PROVE TypeInv
  OBVIOUS
<1>1. dispute \in [Dispute -> DisputeRecord]
  BY DEF Init, DisputeRecord
<1> QED
  BY <1>1, IdleType, NewLinkType DEF Init, TypeInv, TypeOK

\* Sending, verifying and counting on a link.
LEMMA TypeLink ==
  ASSUME TypeInv, NEW r \in Request,
         \/ ResolveFind(r)
         \/ \E l \in Link, a \in BOOLEAN : ResolveCreate(r, l, a)
         \/ Expire(r) \/ Click(r) \/ Block(r) \/ Wrong(r) \/ RecordCode(r)
         \/ \E ok \in BOOLEAN : Count(r, ok)
         \/ Verified(r) \/ SignSession(r)
  PROVE  TypeInv'
<1> USE DEF TypeInv, TypeOK
<1>r. /\ req[r] \in RequestRecord /\ Holds(req[r])
      /\ \A q \in Request : Holds(req[q])
  OBVIOUS
<1>l. req[r].at \in OnLink => req[r].link \in Link /\ link[req[r].link] \in LinkRecord
  BY <1>r DEF Holds
<1>leave. Leave(r) => req' \in [Request -> RequestRecord] /\ \A q \in Request : Holds(req'[q])
  BY IdleType DEF Leave
<1>1. CASE ResolveFind(r)
  <2>1. [Idle EXCEPT !.at = "create"] \in RequestRecord /\ Holds([Idle EXCEPT !.at = "create"])
    BY IdleType DEF RequestRecord, Phase, Holds, OnLink
  <2> QED
    BY <1>1, <2>1 DEF ResolveFind
<1>2. ASSUME NEW l \in Link, NEW a \in BOOLEAN, ResolveCreate(r, l, a) PROVE TypeInv'
  BY <1>2, <1>leave, NewLinkType DEF ResolveCreate
<1>3. CASE Expire(r)
  BY <1>3, <1>leave, <1>l DEF Expire, OnLink, LinkRecord, LinkStatus
<1>4. CASE Click(r)
  BY <1>4, <1>leave, <1>l DEF Click, OnLink, LinkRecord
<1>5. CASE Block(r)
  BY <1>5, <1>leave, <1>l DEF Block, OnLink, LinkRecord, LinkStatus
<1>6. CASE Wrong(r)
  <2> DEFINE s == link[req[r].link]
  <2>1. s \in LinkRecord /\ req[r].link \in Link /\ s.otpTries < MaxWrong
    BY <1>6, <1>l DEF Wrong, OnLink
  <2>2. s.otpTries + 1 \in 0..MaxWrong
    BY <2>1, PortalAssumption DEF LinkRecord
  <2>3. [s EXCEPT !.otpTries = s.otpTries + 1] \in LinkRecord
    <3> HIDE DEF s
    <3> QED
      BY <2>1, <2>2 DEF LinkRecord
  <2>4. link' = [link EXCEPT ![req[r].link] = [s EXCEPT !.otpTries = s.otpTries + 1]]
    BY <1>6 DEF Wrong
  <2> HIDE DEF s
  <2> QED
    BY <1>6, <1>leave, <2>1, <2>3, <2>4 DEF Wrong
<1>7. CASE RecordCode(r)
  <2>1. req[r].base + 1 \in 0..MaxWrong
    BY <1>7, <1>r, PortalAssumption DEF RecordCode, Holds, RequestRecord
  <2> QED
    BY <1>7, <2>1, <1>leave, <1>l DEF RecordCode, OnLink, LinkRecord
<1>8. ASSUME NEW ok \in BOOLEAN, Count(r, ok) PROVE TypeInv'
  <2>1. link' \in [Link -> LinkRecord] /\ matched' \subseteq Link
    <3> DEFINE s == link[req[r].link]
    <3>1. s \in LinkRecord /\ req[r].link \in Link /\ s.tries \in Nat
      BY <1>8, <1>l DEF Count, OnLink, LinkRecord
    <3>2. [s EXCEPT !.tries = s.tries + 1] \in LinkRecord
      <4>1. s.tries + 1 \in Nat
        BY <3>1
      <4> HIDE DEF s
      <4> QED
        BY <3>1, <4>1 DEF LinkRecord
    <3>3. link' = [link EXCEPT ![req[r].link] = [s EXCEPT !.tries = s.tries + 1]]
      BY <1>8 DEF Count
    <3> HIDE DEF s
    <3> QED
      BY <1>8, <3>1, <3>2, <3>3 DEF Count
  <2>2. [req[r] EXCEPT !.at = "passed"] \in RequestRecord /\ Holds([req[r] EXCEPT !.at = "passed"])
    BY <1>8, <1>r DEF Count, Holds, OnLink, RequestRecord, Phase
  <2>3. Goto(r, "passed") => req' = [req EXCEPT ![r] = [req[r] EXCEPT !.at = "passed"]]
    BY DEF Goto
  <2> QED
    BY <1>8, <1>leave, <2>1, <2>2, <2>3 DEF Count
<1>9. CASE Verified(r)
  <2>1. link' \in [Link -> LinkRecord]
    BY <1>9, <1>l DEF Verified, OnLink, LinkRecord, LinkStatus
  <2>2. [req[r] EXCEPT !.at = "session"] \in RequestRecord /\ Holds([req[r] EXCEPT !.at = "session"])
    BY <1>9, <1>r DEF Verified, Holds, OnLink, RequestRecord, Phase
  <2>3. req' = [req EXCEPT ![r] = [req[r] EXCEPT !.at = "session"]]
    BY <1>9 DEF Verified, Goto
  <2> QED
    BY <1>9, <2>1, <2>2, <2>3 DEF Verified
<1>10. CASE SignSession(r)
  BY <1>10, <1>leave, <1>l DEF SignSession, OnLink
<1> QED
  BY <1>1, <1>2, <1>3, <1>4, <1>5, <1>6, <1>7, <1>8, <1>9, <1>10

\* Answers lead to a request that holds the link it loaded.
LEMMA TypeLoad ==
  ASSUME TypeInv, NEW r \in Request, NEW op \in PublicOp, NEW l \in Link, Load(r, op, l)
  PROVE  TypeInv'
<1> USE DEF TypeInv, TypeOK
<1> PICK a \in Answers(op, link[l]) :
      /\ a # "idle"
      /\ req' = [req EXCEPT ![r] = [Idle EXCEPT !.at = a, !.link = l, !.saw = link[l].status,
                     !.base = IF a = "record" THEN link[l].otpTries ELSE 0]]
      /\ matched' = IF a = "codePassed" /\ link[l].code = "live"
                      THEN matched \cup {l} ELSE matched
  BY DEF Load
<1>1. link[l] \in LinkRecord
  OBVIOUS
<1>2. a \in OnLink /\ link[l].status \notin Closed
  BY <1>1 DEF Answers, ClosedStatus, Closed, LeaseAnswers, SendAnswers, CodeAnswers, OnLink,
              PublicOp, LinkRecord, LinkStatus
<1>3. a = "record" => link[l].otpTries < MaxTries
  BY <1>1, PortalAssumption DEF Answers, LeaseAnswers, SendAnswers, CodeAnswers, PublicOp, LinkRecord
<1> DEFINE q == [Idle EXCEPT !.at = a, !.link = l, !.saw = link[l].status,
                             !.base = IF a = "record" THEN link[l].otpTries ELSE 0]
<1>4. q \in RequestRecord
  <2>1. a \in Phase
    BY <1>2 DEF OnLink, Phase
  <2>2. (IF a = "record" THEN link[l].otpTries ELSE 0) \in 0..MaxWrong
    BY <1>1, PortalAssumption DEF LinkRecord
  <2>3. link[l].status \in LinkStatus
    BY <1>1 DEF LinkRecord
  <2> QED
    BY <2>1, <2>2, <2>3, IdleType DEF RequestRecord
<1>5. Holds(q)
  BY <1>1, <1>2, <1>3 DEF Holds, Idle, OnLink
<1>6. req' = [req EXCEPT ![r] = q] /\ matched' \subseteq Link
  OBVIOUS
<1> HIDE DEF q
<1> QED
  BY <1>4, <1>5, <1>6 DEF Load

\* Requests with a session.
LEMMA TypeSession ==
  ASSUME TypeInv, NEW r \in Request,
         \/ \E op \in SessionOp, l \in Link : Enter(r, op, l)
         \/ LookForOpen(r) \/ FindDispute(r)
         \/ \E d \in Dispute, k \in Key : OpenDispute(r, d, <<>>) \/ OpenDispute(r, d, <<k>>)
         \/ \E k \in Key : AttachEvidence(r, <<k>>) \/ StoreProof(r, {k})
         \/ Fail(r)
  PROVE  TypeInv'
<1> USE DEF TypeInv, TypeOK
<1>r. req[r] \in RequestRecord /\ Holds(req[r])
  OBVIOUS
<1>leave. Leave(r) => req' \in [Request -> RequestRecord] /\ \A q \in Request : Holds(req'[q])
  BY IdleType DEF Leave
<1>1. ASSUME NEW op \in SessionOp, NEW l \in Link, Enter(r, op, l) PROVE TypeInv'
  <2> DEFINE q == [Idle EXCEPT !.at = op, !.link = l]
  <2>1. q \in RequestRecord /\ Holds(q)
    BY IdleType DEF RequestRecord, Holds, OnLink, SessionOp, Phase
  <2>2. req' = [req EXCEPT ![r] = q]
    BY <1>1 DEF Enter
  <2> HIDE DEF q
  <2> QED
    BY <1>1, <2>1, <2>2 DEF Enter
<1>2. CASE LookForOpen(r)
  <2>1. [req[r] EXCEPT !.at = "open"] \in RequestRecord /\ Holds([req[r] EXCEPT !.at = "open"])
    BY <1>r DEF RequestRecord, Holds, OnLink, Phase
  <2>2. Goto(r, "open") => req' = [req EXCEPT ![r] = [req[r] EXCEPT !.at = "open"]]
    BY DEF Goto
  <2> QED
    BY <1>2, <1>leave, <2>1, <2>2 DEF LookForOpen
<1>3. CASE FindDispute(r)
  <2> PICK d \in OpenRows :
        req' = [req EXCEPT ![r].at = "attach", ![r].row = d, ![r].had = dispute[d].evidence]
    BY <1>3 DEF FindDispute
  <2> DEFINE q == [req[r] EXCEPT !.at = "attach", !.row = d, !.had = dispute[d].evidence]
  <2>1. d \in Dispute /\ dispute[d].evidence \in Seq(Key)
    BY DEF OpenRows, DisputeRecord
  <2>2. q \in RequestRecord /\ Holds(q)
    BY <1>r, <2>1 DEF RequestRecord, Holds, OnLink, Phase
  <2>3. req' = [req EXCEPT ![r] = q]
    OBVIOUS
  <2>4. UNCHANGED <<link, session, dispute, proofs, matched>>
    BY <1>3 DEF FindDispute
  <2> HIDE DEF q
  <2> QED
    BY <2>2, <2>3, <2>4
<1>4. ASSUME NEW d \in Dispute, NEW keys \in Seq(Key), OpenDispute(r, d, keys) PROVE TypeInv'
  BY <1>4, <1>leave DEF OpenDispute, DisputeRecord
<1>5. ASSUME NEW keys \in Seq(Key), AttachEvidence(r, keys) PROVE TypeInv'
  <2>1. req[r].row \in Dispute /\ req[r].had \in Seq(Key)
    BY <1>5, <1>r DEF AttachEvidence, Holds, RequestRecord
  <2>2. Merged(req[r].had, keys) \in Seq(Key)
    BY <2>1, MergedKeeps
  <2> QED
    BY <1>5, <1>leave, <2>1, <2>2 DEF AttachEvidence, DisputeRecord
<1>6. ASSUME NEW k \in Key, StoreProof(r, {k}) PROVE TypeInv'
  BY <1>6, <1>leave DEF StoreProof, StoredProofs
<1>7. CASE Fail(r)
  BY <1>7, <1>leave DEF Fail
<1>8. <<>> \in Seq(Key) /\ \A k \in Key : <<k>> \in Seq(Key)
  OBVIOUS
<1> QED
  BY <1>1, <1>2, <1>3, <1>4, <1>5, <1>6, <1>7, <1>8

\* Every step keeps the types.
LEMMA TypeNext == TypeInv /\ [Next]_vars => TypeInv'
<1> SUFFICES ASSUME TypeInv, [Next]_vars PROVE TypeInv'
  OBVIOUS
<1> USE DEF TypeInv, TypeOK
<1>1. ASSUME NEW l \in Link, Age(l) \/ CodeExpires(l) \/ SessionExpires(l) PROVE TypeInv'
  <2>1. CASE Age(l)
    BY <2>1 DEF Age, LinkRecord, Life
  <2>2. CASE CodeExpires(l)
    BY <2>2 DEF CodeExpires, LinkRecord
  <2>3. CASE SessionExpires(l)
    BY <2>3 DEF SessionExpires
  <2> QED
    BY <1>1, <2>1, <2>2, <2>3
<1>2. ASSUME NEW d \in Dispute, ResolveDispute(d) PROVE TypeInv'
  BY <1>2 DEF ResolveDispute, DisputeRecord
<1>3. CASE UNCHANGED vars
  BY <1>3 DEF vars
<1> QED
  BY <1>1, <1>2, <1>3, TypeLink, TypeLoad, TypeSession DEF Next

\* Every reachable link, session, dispute and request has its type.
THEOREM PortalTypeCorrect == Spec => []TypeOK
<1>1. TypeInv => TypeOK
  BY DEF TypeInv
<1> QED
  BY <1>1, TypeInit, TypeNext, PTL DEF Spec

-----------------------------------------------------------------------------
(***************************************************************************)
(* A link is verified only after a match.  Between the match and the two   *)
(* writes that follow it, the request that made it holds a matched link.   *)
(***************************************************************************)
AfterMatch == {"passed", "codePassed", "session"}

MatchInv ==
  /\ VerifiedNeedsMatch
  /\ \A r \in Request : req[r].at \in AfterMatch => req[r].link \in matched

\* Steps that verify no link, open no session and leave the requests after a
\* match as they are, or end them, keep it.
LEMMA MatchQuiet ==
  ASSUME MatchInv, matched \subseteq matched',
         session' \subseteq session,
         \A l \in Link : link'[l].status = "VERIFIED" => link[l].status = "VERIFIED",
         \A q \in Request : req'[q].at \in AfterMatch => req'[q] = req[q]
  PROVE  MatchInv'
  BY DEF MatchInv, VerifiedNeedsMatch

LEMMA MatchNext == TypeInv /\ MatchInv /\ [Next]_vars => MatchInv'
<1> SUFFICES ASSUME TypeInv, MatchInv, [Next]_vars PROVE MatchInv'
  OBVIOUS
<1>t. /\ link \in [Link -> LinkRecord]
      /\ req \in [Request -> RequestRecord]
      /\ \A r \in Request : Holds(req[r])
  BY DEF TypeInv, TypeOK
<1>quiet. ASSUME NEW r \in Request, NEW q, q.at \notin AfterMatch,
                 req' = [req EXCEPT ![r] = q], matched' = matched, session' = session,
                 \A l \in Link : link'[l].status = "VERIFIED" => link[l].status = "VERIFIED"
          PROVE  MatchInv'
  <2>1. \A p \in Request : req'[p].at \in AfterMatch => req'[p] = req[p]
    BY <1>t, <1>quiet
  <2> QED
    BY <1>quiet, <2>1, MatchQuiet
<1>idle. Idle.at \notin AfterMatch
  BY DEF Idle, AfterMatch
<1>1. ASSUME NEW r \in Request,
             \/ ResolveFind(r) \/ \E op \in SessionOp, l \in Link : Enter(r, op, l)
             \/ LookForOpen(r) \/ FindDispute(r)
      PROVE  MatchInv'
  <2>1. link' = link /\ session' = session /\ matched' = matched
    BY <1>1 DEF ResolveFind, Enter, LookForOpen, FindDispute
  <2>2. \A p \in Request : req'[p].at \in AfterMatch => req'[p] = req[p]
    <3>1. CASE ResolveFind(r)
      BY <3>1, <1>t DEF ResolveFind, Idle, AfterMatch
    <3>2. ASSUME NEW op \in SessionOp, NEW l \in Link, Enter(r, op, l)
          PROVE  \A p \in Request : req'[p].at \in AfterMatch => req'[p] = req[p]
      BY <3>2, <1>t DEF Enter, Idle, AfterMatch, SessionOp
    <3>3. CASE LookForOpen(r)
      BY <3>3, <1>t, <1>idle DEF LookForOpen, AfterMatch, Goto, Leave, RequestRecord
    <3>4. CASE FindDispute(r)
      BY <3>4, <1>t DEF FindDispute, AfterMatch, RequestRecord
    <3> QED
      BY <1>1, <3>1, <3>2, <3>3, <3>4
  <2> QED
    BY <2>1, <2>2, MatchQuiet
<1>2. ASSUME NEW r \in Request,
             \/ Expire(r) \/ Click(r) \/ Block(r) \/ Wrong(r) \/ RecordCode(r) \/ Fail(r)
             \/ \E d \in Dispute, k \in Key : OpenDispute(r, d, <<>>) \/ OpenDispute(r, d, <<k>>)
             \/ \E k \in Key : AttachEvidence(r, <<k>>) \/ StoreProof(r, {k})
      PROVE  MatchInv'
  <2>1. req' = [req EXCEPT ![r] = Idle] /\ matched' = matched /\ session' = session
    BY <1>2 DEF Expire, Click, Block, Wrong, RecordCode, Fail, OpenDispute, AttachEvidence,
                StoreProof, Leave
  <2>2. \A l \in Link : link'[l].status = "VERIFIED" => link[l].status = "VERIFIED"
    <3>1. CASE Expire(r) \/ Click(r) \/ Block(r)
      BY <3>1, <1>t DEF Expire, Click, Block, LinkRecord
    <3>2. CASE Wrong(r)
      BY <3>2, <1>t DEF Wrong, LinkRecord
    <3>3. CASE RecordCode(r)
      BY <3>3, <1>t DEF RecordCode, LinkRecord
    <3>4. link' = link \/ Expire(r) \/ Click(r) \/ Block(r) \/ Wrong(r) \/ RecordCode(r)
      BY <1>2 DEF Fail, OpenDispute, AttachEvidence, StoreProof
    <3> QED
      BY <3>1, <3>2, <3>3, <3>4
  <2> QED
    BY <1>idle, <1>quiet, <2>1, <2>2
<1>3. ASSUME NEW r \in Request, NEW l \in Link, NEW a \in BOOLEAN, ResolveCreate(r, l, a)
      PROVE  MatchInv'
  <2>1. \A k \in Link : link'[k].status = "VERIFIED" => link[k].status = "VERIFIED"
    BY <1>3, <1>t DEF ResolveCreate, NewLink
  <2> QED
    BY <1>idle, <1>quiet, <1>3, <2>1 DEF ResolveCreate, Leave
<1>4. ASSUME NEW r \in Request, NEW op \in PublicOp, NEW l \in Link, Load(r, op, l)
      PROVE  MatchInv'
  <2> PICK a \in Answers(op, link[l]) :
        /\ req' = [req EXCEPT ![r] = [Idle EXCEPT !.at = a, !.link = l, !.saw = link[l].status,
                       !.base = IF a = "record" THEN link[l].otpTries ELSE 0]]
        /\ matched' = IF a = "codePassed" /\ link[l].code = "live"
                        THEN matched \cup {l} ELSE matched
    BY <1>4 DEF Load
  <2>1. link[l] \in LinkRecord
    BY <1>t
  \* A code passes only while it is alive; a session follows a verified link.
  <2>2. /\ a # "passed"
        /\ a = "codePassed" => link[l].code = "live"
        /\ a = "session" => link[l].status = "VERIFIED"
    BY <2>1 DEF Answers, LeaseAnswers, SendAnswers, CodeAnswers, PublicOp, LinkRecord
  <2>3. matched \subseteq matched' /\ (a \in AfterMatch => l \in matched')
    BY <2>2 DEF AfterMatch, MatchInv, VerifiedNeedsMatch
  <2>4. req'[r].at = a /\ req'[r].link = l /\ \A p \in Request \ {r} : req'[p] = req[p]
    BY <1>t DEF Idle
  <2>5. UNCHANGED <<link, session>>
    BY <1>4 DEF Load
  <2> QED
    BY <2>3, <2>4, <2>5 DEF MatchInv, VerifiedNeedsMatch
<1>5. ASSUME NEW r \in Request, NEW ok \in BOOLEAN, Count(r, ok) PROVE MatchInv'
  <2>1. req[r].link \in Link /\ session' = session
    BY <1>5, <1>t DEF Count, Holds, OnLink
  <2>2. \A l \in Link : link'[l].status = link[l].status
    BY <1>5, <1>t, <2>1 DEF Count, LinkRecord
  <2>3. matched \subseteq matched' /\ (ok => req[r].link \in matched')
    BY <1>5 DEF Count
  <2>4. \A p \in Request :
          req'[p].at \in AfterMatch =>
            req'[p] = req[p] \/ (p = r /\ ok /\ req'[p].link = req[r].link)
    BY <1>5, <1>t, <1>idle DEF Count, Goto, Leave, RequestRecord
  <2> QED
    BY <2>1, <2>2, <2>3, <2>4 DEF MatchInv, VerifiedNeedsMatch
<1>6. ASSUME NEW r \in Request, Verified(r) PROVE MatchInv'
  <2>1. req[r].link \in Link /\ req[r].link \in matched
    BY <1>6, <1>t DEF Verified, Holds, OnLink, MatchInv, AfterMatch
  <2>2. \A l \in Link : link'[l].status = "VERIFIED" => l = req[r].link \/ link[l].status = "VERIFIED"
    BY <1>6, <1>t, <2>1 DEF Verified, LinkRecord
  <2>3. \A p \in Request : req'[p].link = req[p].link /\ (p # r => req'[p] = req[p])
    BY <1>6, <1>t DEF Verified, Goto, RequestRecord
  <2>4. UNCHANGED <<session, matched>>
    BY <1>6 DEF Verified
  <2> QED
    BY <2>1, <2>2, <2>3, <2>4 DEF MatchInv, VerifiedNeedsMatch
<1>7. ASSUME NEW r \in Request, SignSession(r) PROVE MatchInv'
  <2>1. req[r].link \in matched
    BY <1>7 DEF SignSession, MatchInv, AfterMatch
  <2>2. \A p \in Request : req'[p].at \in AfterMatch => req'[p] = req[p]
    BY <1>7, <1>t, <1>idle DEF SignSession, Leave
  <2> QED
    BY <1>7, <2>1, <2>2 DEF SignSession, MatchInv, VerifiedNeedsMatch
<1>8. ASSUME NEW l \in Link, Age(l) \/ CodeExpires(l) \/ SessionExpires(l) PROVE MatchInv'
  <2>1. /\ req' = req /\ matched' = matched /\ session' \subseteq session
        /\ \A k \in Link : link'[k].status = link[k].status
    BY <1>8, <1>t DEF Age, CodeExpires, SessionExpires, LinkRecord
  <2> QED
    BY <2>1, MatchQuiet
<1>9. ASSUME NEW d \in Dispute, ResolveDispute(d) PROVE MatchInv'
  BY <1>9, MatchQuiet DEF ResolveDispute
<1>10. CASE UNCHANGED vars
  BY <1>10, MatchQuiet DEF vars
<1> QED
  BY <1>1, <1>2, <1>3, <1>4, <1>5, <1>6, <1>7, <1>8, <1>9, <1>10 DEF Next

\* A link is verified, and a session opened, only after lease data matched or a
\* code that was still alive did, whatever requests interleave.
THEOREM OnlyMatchVerifies == Spec => []VerifiedNeedsMatch
<1>1. Init => MatchInv
  BY DEF Init, MatchInv, VerifiedNeedsMatch, NoLink, NewLink, Idle, AfterMatch
<1>2. MatchInv => VerifiedNeedsMatch
  BY DEF MatchInv
<1> QED
  BY <1>1, <1>2, TypeInit, TypeNext, MatchNext, PTL DEF Spec

-----------------------------------------------------------------------------
(***************************************************************************)
(* The limit of the comparisons.  A request about to count found the link  *)
(* below the limit; the comparisons made and those about to be made exceed *)
(* it by the other requests under way at most.                             *)
(***************************************************************************)
Counting(q, l) == {r \in Request : q[r].at = "count" /\ q[r].link = l}

TriesInv ==
  \A l \in Link :
    link[l].tries + Cardinality(Counting(req, l)) <= MaxTries + Cardinality(Request) - 1

LEMMA CountingFinite ==
  ASSUME NEW q, NEW l
  PROVE  /\ IsFiniteSet(Counting(q, l))
         /\ Cardinality(Counting(q, l)) \in Nat
         /\ Cardinality(Request) \in Nat
         /\ Cardinality(Counting(q, l)) <= Cardinality(Request)
<1>1. Counting(q, l) \in SUBSET Request
  BY DEF Counting
<1> QED
  BY <1>1, RequestAssumption, FS_Subset, FS_CardinalityType

\* A link keeps the bound when its count starts below the limit, when it stays
\* and no request joins, or when one of the requests counts.
LEMMA TriesStep ==
  ASSUME TypeInv, TypeInv', TriesInv, NEW l \in Link,
         \/ link'[l].tries < MaxTries
         \/ link'[l].tries = link[l].tries /\ Counting(req', l) \subseteq Counting(req, l)
         \/ \E r \in Counting(req, l) : /\ link'[l].tries = link[l].tries + 1
                                        /\ Counting(req', l) \subseteq Counting(req, l) \ {r}
  PROVE  link'[l].tries + Cardinality(Counting(req', l)) <= MaxTries + Cardinality(Request) - 1
<1> DEFINE old   == Counting(req, l)
           new   == Counting(req', l)
           bound == MaxTries + Cardinality(Request) - 1
<1>1. link[l].tries \in Nat /\ link'[l].tries \in Nat
  BY DEF TypeInv, TypeOK, LinkRecord
<1>2. /\ IsFiniteSet(old) /\ Cardinality(old) \in Nat
      /\ IsFiniteSet(new) /\ Cardinality(new) \in Nat
      /\ Cardinality(Request) \in Nat /\ Cardinality(new) <= Cardinality(Request)
  BY CountingFinite
<1>3. link[l].tries + Cardinality(old) <= bound
  BY DEF TriesInv
<1>4. MaxTries \in Nat
  BY PortalAssumption
<1>5. \/ link'[l].tries < MaxTries
      \/ link'[l].tries = link[l].tries /\ new \subseteq old
      \/ \E r \in old : link'[l].tries = link[l].tries + 1 /\ new \subseteq old \ {r}
  OBVIOUS
<1> SUFFICES link'[l].tries + Cardinality(new) <= bound
  OBVIOUS
<1> HIDE DEF old, new
<1>6. CASE link'[l].tries < MaxTries
  BY <1>1, <1>2, <1>4, <1>6
<1>7. CASE link'[l].tries = link[l].tries /\ new \subseteq old
  <2>1. Cardinality(new) <= Cardinality(old)
    BY <1>2, <1>7, FS_Subset
  <2> QED
    BY <1>1, <1>2, <1>3, <1>4, <1>7, <2>1
<1>8. ASSUME NEW r \in old, link'[l].tries = link[l].tries + 1, new \subseteq old \ {r}
      PROVE  link'[l].tries + Cardinality(new) <= bound
  <2>1. IsFiniteSet(old \ {r}) /\ Cardinality(old \ {r}) = Cardinality(old) - 1
    BY <1>2, <1>8, FS_RemoveElement
  <2>2. Cardinality(new) <= Cardinality(old \ {r})
    BY <1>8, <2>1, FS_Subset
  <2> QED
    BY <1>1, <1>2, <1>3, <1>4, <1>8, <2>1, <2>2
<1> QED
  BY <1>5, <1>6, <1>7, <1>8

LEMMA TriesNext == TypeInv /\ TriesInv /\ [Next]_vars => TriesInv'
<1> SUFFICES ASSUME TypeInv, TriesInv, [Next]_vars, NEW l \in Link
             PROVE  link'[l].tries + Cardinality(Counting(req', l))
                      <= MaxTries + Cardinality(Request) - 1
  BY DEF TriesInv, Counting
<1> DEFINE Goal == \/ link'[l].tries < MaxTries
                   \/ link'[l].tries = link[l].tries /\ Counting(req', l) \subseteq Counting(req, l)
                   \/ \E r \in Counting(req, l) : /\ link'[l].tries = link[l].tries + 1
                                                  /\ Counting(req', l) \subseteq Counting(req, l) \ {r}
<1> SUFFICES Goal
  BY TypeNext, TriesStep
<1>t. /\ link \in [Link -> LinkRecord]
      /\ req \in [Request -> RequestRecord]
      /\ \A r \in Request : Holds(req[r])
  BY DEF TypeInv, TypeOK
\* A request that turns to anything but counting leaves the others counting.
<1>other. ASSUME NEW r \in Request, NEW q, q.at # "count", req' = [req EXCEPT ![r] = q]
          PROVE  Counting(req', l) \subseteq Counting(req, l) \ {r}
  BY <1>t, <1>other DEF Counting
<1>idle. Idle.at # "count"
  BY DEF Idle
<1>1. ASSUME NEW r \in Request,
             \/ ResolveFind(r) \/ \E op \in SessionOp, k \in Link : Enter(r, op, k)
             \/ LookForOpen(r) \/ FindDispute(r)
      PROVE  Goal
  <2>1. link' = link
    BY <1>1 DEF ResolveFind, Enter, LookForOpen, FindDispute
  <2>2. CASE ResolveFind(r)
    BY <1>t, <2>1, <2>2 DEF ResolveFind, Idle, Counting
  <2>3. ASSUME NEW op \in SessionOp, NEW k \in Link, Enter(r, op, k) PROVE Goal
    BY <1>t, <2>1, <2>3 DEF Enter, SessionOp, Idle, Counting
  <2>4. CASE LookForOpen(r)
    <3>1. [req[r] EXCEPT !.at = "open"].at # "count"
      BY <1>t DEF RequestRecord
    <3>2. req' = [req EXCEPT ![r] = [req[r] EXCEPT !.at = "open"]] \/ req' = [req EXCEPT ![r] = Idle]
      BY <2>4 DEF LookForOpen, Goto, Leave
    <3> QED
      BY <1>idle, <1>other, <2>1, <3>1, <3>2
  <2>5. CASE FindDispute(r)
    BY <1>t, <2>1, <2>5 DEF FindDispute, Counting, RequestRecord
  <2> QED
    BY <1>1, <2>2, <2>3, <2>4, <2>5
<1>2. ASSUME NEW r \in Request,
             \/ Expire(r) \/ Click(r) \/ Block(r) \/ Wrong(r) \/ RecordCode(r) \/ Fail(r)
             \/ SignSession(r)
             \/ \E d \in Dispute, k \in Key : OpenDispute(r, d, <<>>) \/ OpenDispute(r, d, <<k>>)
             \/ \E k \in Key : AttachEvidence(r, <<k>>) \/ StoreProof(r, {k})
      PROVE  Goal
  <2>1. req' = [req EXCEPT ![r] = Idle]
    BY <1>2 DEF Expire, Click, Block, Wrong, RecordCode, Fail, SignSession, OpenDispute,
                AttachEvidence, StoreProof, Leave
  <2>2. link'[l].tries = link[l].tries
    <3>1. CASE Expire(r) \/ Click(r) \/ Block(r)
      BY <3>1, <1>t DEF Expire, Click, Block, LinkRecord
    <3>2. CASE Wrong(r)
      BY <3>2, <1>t DEF Wrong, LinkRecord
    <3>3. CASE RecordCode(r)
      BY <3>3, <1>t DEF RecordCode, LinkRecord
    <3>4. link' = link \/ Expire(r) \/ Click(r) \/ Block(r) \/ Wrong(r) \/ RecordCode(r)
      BY <1>2 DEF Fail, SignSession, OpenDispute, AttachEvidence, StoreProof
    <3> QED
      BY <3>1, <3>2, <3>3, <3>4
  <2>3. Counting(req', l) \subseteq Counting(req, l)
    BY <1>idle, <1>other, <2>1
  <2> QED
    BY <2>2, <2>3
<1>3. ASSUME NEW r \in Request, NEW k \in Link, NEW a \in BOOLEAN, ResolveCreate(r, k, a)
      PROVE  Goal
  <2>1. Counting(req', l) \subseteq Counting(req, l)
    BY <1>idle, <1>other, <1>3 DEF ResolveCreate, Leave
  <2>2. IF k = l THEN link'[l].tries = 0 ELSE link'[l] = link[l]
    BY <1>3, <1>t DEF ResolveCreate, NewLink
  <2> QED
    BY <2>1, <2>2, PortalAssumption
<1>4. ASSUME NEW r \in Request, NEW op \in PublicOp, NEW k \in Link, Load(r, op, k)
      PROVE  Goal
  <2> PICK a \in Answers(op, link[k]) :
        req' = [req EXCEPT ![r] = [Idle EXCEPT !.at = a, !.link = k, !.saw = link[k].status,
                    !.base = IF a = "record" THEN link[k].otpTries ELSE 0]]
    BY <1>4 DEF Load
  <2>1. link[k] \in LinkRecord /\ link' = link
    BY <1>t, <1>4 DEF Load
  \* Below the limit when it was loaded.
  <2>2. a = "count" => link[k].tries < MaxTries
    BY <2>1, PortalAssumption
       DEF Answers, LeaseAnswers, SendAnswers, CodeAnswers, PublicOp, LinkRecord
  <2>3. req'[r].at = a /\ req'[r].link = k /\ \A p \in Request \ {r} : req'[p] = req[p]
    BY <1>t DEF Idle
  <2>4. CASE a = "count" /\ k = l
    BY <2>1, <2>2, <2>4
  <2>5. CASE a # "count" \/ k # l
    BY <2>1, <2>3, <2>5 DEF Counting
  <2> QED
    BY <2>4, <2>5
<1>5. ASSUME NEW r \in Request, NEW ok \in BOOLEAN, Count(r, ok) PROVE Goal
  <2>1. req[r].link \in Link /\ req[r].at = "count"
    BY <1>5, <1>t DEF Count, Holds, OnLink
  <2>2. Counting(req', l) \subseteq Counting(req, l) \ {r}
    <3>1. [req[r] EXCEPT !.at = "passed"].at # "count"
      BY <1>t DEF RequestRecord
    <3>2. req' = [req EXCEPT ![r] = [req[r] EXCEPT !.at = "passed"]] \/ req' = [req EXCEPT ![r] = Idle]
      BY <1>5 DEF Count, Goto, Leave
    <3> QED
      BY <1>idle, <1>other, <3>1, <3>2
  <2>3. CASE req[r].link = l
    <3>1. r \in Counting(req, l)
      BY <2>1, <2>3 DEF Counting
    <3>2. link' = [link EXCEPT ![l] = [link[l] EXCEPT !.tries = link[l].tries + 1]]
      BY <1>5, <2>3 DEF Count
    <3>3. link'[l].tries = link[l].tries + 1
      BY <1>t, <3>2 DEF LinkRecord
    <3> QED
      BY <2>2, <3>1, <3>3
  <2>4. CASE req[r].link # l
    BY <1>t, <1>5, <2>2, <2>4 DEF Count
  <2> QED
    BY <2>3, <2>4
<1>6. ASSUME NEW r \in Request, Verified(r) PROVE Goal
  <2>1. link'[l].tries = link[l].tries
    BY <1>6, <1>t DEF Verified, LinkRecord
  <2>2. req' = [req EXCEPT ![r] = [req[r] EXCEPT !.at = "session"]]
    BY <1>6 DEF Verified, Goto
  <2>3. [req[r] EXCEPT !.at = "session"].at # "count"
    BY <1>t DEF RequestRecord
  <2> QED
    BY <1>other, <2>1, <2>2, <2>3
<1>7. ASSUME NEW k \in Link, Age(k) \/ CodeExpires(k) \/ SessionExpires(k) PROVE Goal
  BY <1>7, <1>t DEF Age, CodeExpires, SessionExpires, LinkRecord
<1>8. ASSUME NEW d \in Dispute, ResolveDispute(d) PROVE Goal
  BY <1>8 DEF ResolveDispute
<1>9. CASE UNCHANGED vars
  BY <1>9 DEF vars
<1> QED
  BY <1>1, <1>2, <1>3, <1>4, <1>5, <1>6, <1>7, <1>8, <1>9 DEF Next

\* The comparisons made for one link exceed the limit by the other requests
\* under way at most, however many there are.
THEOREM TriesStayBounded == Spec => []TriesBounded
<1>1. Init => TriesInv
  <2> SUFFICES ASSUME Init, NEW l \in Link
               PROVE  link[l].tries + Cardinality(Counting(req, l))
                        <= MaxTries + Cardinality(Request) - 1
    BY DEF TriesInv
  <2>1. link[l].tries = 0
    BY DEF Init, NoLink, NewLink
  <2> QED
    BY <2>1, CountingFinite, PortalAssumption
<1>2. TypeInv /\ TriesInv => TriesBounded
  <2> SUFFICES ASSUME TypeInv, TriesInv, NEW l \in Link
               PROVE  link[l].tries <= MaxTries + Cardinality(Request) - 1
    BY DEF TriesBounded
  <2>1. link[l].tries \in Nat
    BY DEF TypeInv, TypeOK, LinkRecord
  <2>2. link[l].tries + Cardinality(Counting(req, l)) <= MaxTries + Cardinality(Request) - 1
    BY DEF TriesInv
  <2> QED
    BY <2>1, <2>2, CountingFinite, PortalAssumption
<1> QED
  BY <1>1, <1>2, TypeInit, TypeNext, TriesNext, PTL DEF Spec

-----------------------------------------------------------------------------
(***************************************************************************)
(* What a request that decided on an old row can undo.                     *)
(***************************************************************************)

\* A blocked or expired link gets another status only from a request that loaded
\* it before it was closed.
THEOREM ClosedLinkStays == Spec => ClosedStays
<1> DEFINE Stale(l) == \E r \in Request : /\ req'[r] # req[r] /\ req[r].link = l
                                          /\ req[r].saw \notin {"BLOCKED", "PAID", "EXPIRED"}
           Reopened(l) ==
             link[l].status \in {"BLOCKED", "PAID", "EXPIRED"} /\ link'[l].status # link[l].status
<1>1. TypeInv /\ [Next]_vars => [\A l \in Link : Reopened(l) => Stale(l)]_vars
  <2> SUFFICES ASSUME TypeInv, Next, NEW l \in Link, Reopened(l) PROVE Stale(l)
    BY DEF vars
  <2>t. /\ link \in [Link -> LinkRecord]
        /\ req \in [Request -> RequestRecord]
        /\ \A r \in Request : Holds(req[r])
    BY DEF TypeInv, TypeOK
  <2>1. ASSUME NEW r \in Request, Expire(r) \/ Block(r) \/ Verified(r) PROVE Stale(l)
    <3>1. req[r].link \in Link /\ req[r].saw \notin Closed
      BY <2>1, <2>t DEF Expire, Block, Verified, Holds, OnLink
    <3>2. req[r].link = l
      BY <2>1, <2>t DEF Expire, Block, Verified
    <3>3. req'[r].at # req[r].at
      BY <2>1, <2>t, IdleType DEF Expire, Block, Verified, Goto, Leave, RequestRecord
    <3> QED
      BY <3>1, <3>2, <3>3 DEF Closed
  <2>2. ASSUME NEW r \in Request, Click(r) \/ Wrong(r) \/ RecordCode(r)
        PROVE  link'[l].status = link[l].status
    <3>1. CASE Click(r)
      BY <3>1, <2>t DEF Click, LinkRecord
    <3>2. CASE Wrong(r)
      BY <3>2, <2>t DEF Wrong, LinkRecord
    <3>3. CASE RecordCode(r)
      BY <3>3, <2>t DEF RecordCode, LinkRecord
    <3> QED
      BY <2>2, <3>1, <3>2, <3>3
  <2>3. ASSUME NEW r \in Request, NEW ok \in BOOLEAN, Count(r, ok)
        PROVE  link'[l].status = link[l].status
    BY <2>3, <2>t DEF Count, LinkRecord
  <2>4. ASSUME NEW r \in Request, NEW k \in Link, NEW a \in BOOLEAN, ResolveCreate(r, k, a)
        PROVE  link'[l].status = link[l].status
    BY <2>4, <2>t DEF ResolveCreate
  <2>5. ASSUME NEW k \in Link, Age(k) \/ CodeExpires(k)
        PROVE  link'[l].status = link[l].status
    BY <2>5, <2>t DEF Age, CodeExpires, LinkRecord
  <2> QED
    BY <2>1, <2>2, <2>3, <2>4, <2>5
       DEF Next, ResolveFind, Load, SignSession, Enter, LookForOpen, FindDispute, OpenDispute,
           AttachEvidence, StoreProof, Fail, SessionExpires, ResolveDispute
<1> QED
  BY <1>1, TypeInit, TypeNext, PTL DEF Spec, ClosedStays

\* A row that was never opened has no evidence, and evidence is attached to a
\* row that was.
RowInv ==
  /\ \A d \in Dispute : dispute[d].status = "none" => dispute[d].evidence = <<>>
  /\ \A r \in Request : req[r].at = "attach" => dispute[req[r].row].status # "none"

LEMMA RowNext == TypeInv /\ RowInv /\ [Next]_vars => RowInv'
<1> SUFFICES ASSUME TypeInv, RowInv, [Next]_vars PROVE RowInv'
  OBVIOUS
<1>t. /\ dispute \in [Dispute -> DisputeRecord]
      /\ req \in [Request -> RequestRecord]
      /\ \A r \in Request : Holds(req[r])
  BY DEF TypeInv, TypeOK
\* Rows are only opened and resolved, and only FindDispute turns to attaching.
<1>keep. ASSUME \A q \in Request : req'[q].at = "attach" => req'[q] = req[q],
                \A d \in Dispute : dispute[d].status # "none" => dispute'[d].status # "none",
                \A d \in Dispute : dispute'[d].status = "none" => dispute'[d] = dispute[d]
         PROVE  RowInv'
  BY <1>keep, <1>t DEF RowInv, Holds
<1>turn. ASSUME NEW r \in Request, NEW q, q.at # "attach", req' = [req EXCEPT ![r] = q]
         PROVE  \A p \in Request : req'[p].at = "attach" => req'[p] = req[p]
  BY <1>turn, <1>t
<1>idle. Idle.at # "attach"
  BY DEF Idle
<1>goto. \A r \in Request, phase \in Phase : [req[r] EXCEPT !.at = phase].at = phase
  BY <1>t DEF RequestRecord
<1>1. ASSUME NEW r \in Request, UNCHANGED dispute, Leave(r) PROVE RowInv'
  <2>1. \A p \in Request : req'[p].at = "attach" => req'[p] = req[p]
    BY <1>1, <1>idle, <1>turn DEF Leave
  <2> QED
    BY <1>1, <1>keep, <2>1
<1>2. ASSUME NEW r \in Request, NEW phase \in Phase \ {"attach"}, UNCHANGED dispute, Goto(r, phase)
      PROVE  RowInv'
  <2>1. \A p \in Request : req'[p].at = "attach" => req'[p] = req[p]
    BY <1>2, <1>goto, <1>turn DEF Goto
  <2> QED
    BY <1>2, <1>keep, <2>1
<1>3. ASSUME NEW r \in Request,
             \/ ResolveFind(r) \/ \E op \in SessionOp, l \in Link : Enter(r, op, l)
             \/ \E op \in PublicOp, l \in Link : Load(r, op, l)
      PROVE  RowInv'
  <2>1. \A p \in Request : req'[p].at = "attach" => req'[p] = req[p]
    <3>1. CASE ResolveFind(r)
      BY <3>1, <1>t DEF ResolveFind, Idle
    <3>2. ASSUME NEW op \in SessionOp, NEW l \in Link, Enter(r, op, l)
          PROVE  \A p \in Request : req'[p].at = "attach" => req'[p] = req[p]
      BY <3>2, <1>t DEF Enter, SessionOp, Idle
    <3>3. ASSUME NEW op \in PublicOp, NEW l \in Link, Load(r, op, l)
          PROVE  \A p \in Request : req'[p].at = "attach" => req'[p] = req[p]
      <4> PICK a \in Answers(op, link[l]) :
            req' = [req EXCEPT ![r] = [Idle EXCEPT !.at = a, !.link = l, !.saw = link[l].status,
                        !.base = IF a = "record" THEN link[l].otpTries ELSE 0]]
        BY <3>3 DEF Load
      <4>1. link[l] \in LinkRecord
        BY DEF TypeInv, TypeOK
      <4>2. a # "attach"
        BY <4>1 DEF Answers, LeaseAnswers, SendAnswers, CodeAnswers, PublicOp, LinkRecord
      <4> QED
        BY <1>t, <4>2 DEF Idle
    <3> QED
      BY <1>3, <3>1, <3>2, <3>3
  <2>2. dispute' = dispute
    BY <1>3 DEF ResolveFind, Enter, Load
  <2> QED
    BY <1>keep, <2>1, <2>2
<1>4. ASSUME NEW r \in Request, FindDispute(r) PROVE RowInv'
  <2> PICK d \in OpenRows :
        req' = [req EXCEPT ![r].at = "attach", ![r].row = d, ![r].had = dispute[d].evidence]
    BY <1>4 DEF FindDispute
  <2>1. dispute' = dispute /\ dispute[d].status # "none"
    BY <1>4 DEF FindDispute, OpenRows
  <2>2. req'[r].row = d /\ \A p \in Request \ {r} : req'[p] = req[p]
    BY <1>t DEF RequestRecord
  <2> QED
    BY <2>1, <2>2 DEF RowInv
<1>5. ASSUME NEW r \in Request, NEW d \in Dispute, NEW keys, OpenDispute(r, d, keys) PROVE RowInv'
  <2>1. \A p \in Request : req'[p].at = "attach" => req'[p] = req[p]
    BY <1>5, <1>idle, <1>turn DEF OpenDispute, Leave
  <2>2. \/ dispute' = dispute
        \/ dispute' = [dispute EXCEPT ![d] = [status |-> "OPEN", evidence |-> keys]]
    BY <1>5 DEF OpenDispute
  <2>3. \A e \in Dispute : /\ dispute[e].status # "none" => dispute'[e].status # "none"
                           /\ dispute'[e].status = "none" => dispute'[e] = dispute[e]
    BY <1>t, <2>2
  <2> QED
    BY <1>keep, <2>1, <2>3
<1>6. ASSUME NEW r \in Request, NEW keys, AttachEvidence(r, keys) PROVE RowInv'
  <2>1. \A p \in Request : req'[p].at = "attach" => req'[p] = req[p]
    BY <1>6, <1>idle, <1>turn DEF AttachEvidence, Leave
  <2>2. /\ dispute[req[r].row].status # "none"
        /\ dispute' = [dispute EXCEPT ![req[r].row].evidence = Merged(req[r].had, keys)]
    BY <1>6 DEF AttachEvidence, RowInv
  <2>3. \A e \in Dispute : /\ dispute'[e].status = dispute[e].status
                           /\ e # req[r].row => dispute'[e] = dispute[e]
    BY <1>t, <2>2 DEF DisputeRecord
  <2> QED
    BY <1>keep, <2>1, <2>2, <2>3
<1>7. ASSUME NEW d \in Dispute, ResolveDispute(d) PROVE RowInv'
  <2>1. /\ req' = req /\ dispute[d].status = "OPEN"
        /\ dispute' = [dispute EXCEPT ![d].status = "RESOLVED"]
    BY <1>7 DEF ResolveDispute
  <2>2. \A e \in Dispute : e # d => dispute'[e] = dispute[e]
    BY <1>t, <2>1
  <2>3. dispute'[d].status = "RESOLVED"
    BY <1>t, <2>1 DEF DisputeRecord
  <2> QED
    BY <1>keep, <2>1, <2>2, <2>3
<1>8. CASE UNCHANGED <<dispute, req>>
  BY <1>8 DEF RowInv
<1>9. \A r \in Request :
        /\ Expire(r) \/ Click(r) \/ Block(r) \/ Wrong(r) \/ RecordCode(r) \/ SignSession(r) \/ Fail(r)
             => UNCHANGED dispute /\ Leave(r)
        /\ \A l \in Link, a \in BOOLEAN : ResolveCreate(r, l, a) => UNCHANGED dispute /\ Leave(r)
        /\ \A k \in Key : StoreProof(r, {k}) => UNCHANGED dispute /\ Leave(r)
  BY DEF Expire, Click, Block, Wrong, RecordCode, SignSession, Fail, ResolveCreate, StoreProof
<1>10. \A r \in Request :
         /\ LookForOpen(r) => UNCHANGED dispute /\ (Goto(r, "open") \/ Leave(r))
         /\ \A ok \in BOOLEAN :
              Count(r, ok) => UNCHANGED dispute /\ (Goto(r, "passed") \/ Leave(r))
         /\ Verified(r) => UNCHANGED dispute /\ Goto(r, "session")
  BY DEF LookForOpen, Count, Verified
<1>11. ASSUME NEW l \in Link, Age(l) \/ CodeExpires(l) \/ SessionExpires(l)
       PROVE  UNCHANGED <<dispute, req>>
  BY <1>11 DEF Age, CodeExpires, SessionExpires
<1>12. {"open", "passed", "session"} \subseteq Phase \ {"attach"}
  BY DEF Phase
<1>13. ASSUME NEW r \in Request,
             LookForOpen(r) \/ Verified(r) \/ \E ok \in BOOLEAN : Count(r, ok)
       PROVE  RowInv'
  BY <1>1, <1>2, <1>10, <1>12, <1>13
<1>14. ASSUME NEW r \in Request,
             \/ \E l \in Link, a \in BOOLEAN : ResolveCreate(r, l, a)
             \/ Expire(r) \/ Click(r) \/ Block(r) \/ Wrong(r) \/ RecordCode(r)
             \/ SignSession(r) \/ Fail(r)
             \/ \E k \in Key : StoreProof(r, {k})
       PROVE  RowInv'
  BY <1>1, <1>9, <1>14
<1>15. CASE UNCHANGED vars
  BY <1>8, <1>15 DEF vars
<1> QED
  BY <1>3, <1>4, <1>5, <1>6, <1>7, <1>8, <1>11, <1>13, <1>14, <1>15 DEF Next

\* A key of evidence is lost only to a request that loaded the dispute before
\* the key was added; a full list refuses the new keys, never the old.
THEOREM EvidenceStays == Spec => EvidenceKept
<1> DEFINE Lost(d, i) == /\ i \in DOMAIN dispute[d].evidence
                         /\ i \in DOMAIN dispute'[d].evidence
                              => dispute'[d].evidence[i] # dispute[d].evidence[i]
           Stale(d, i) == \E r \in Request :
                            /\ req'[r] # req[r] /\ req[r].row = d
                            /\ i \in DOMAIN req[r].had => req[r].had[i] # dispute[d].evidence[i]
<1>1. TypeInv /\ RowInv /\ [Next]_vars
        => [\A d \in Dispute, i \in 1..MaxKeys : Lost(d, i) => Stale(d, i)]_vars
  <2> SUFFICES ASSUME TypeInv, RowInv, Next, NEW d \in Dispute, NEW i \in 1..MaxKeys, Lost(d, i)
               PROVE  Stale(d, i)
    BY DEF vars
  <2>t. /\ dispute \in [Dispute -> DisputeRecord]
        /\ req \in [Request -> RequestRecord]
        /\ \A r \in Request : Holds(req[r])
    BY DEF TypeInv, TypeOK
  <2>1. ASSUME NEW r \in Request, NEW e \in Dispute, NEW keys, OpenDispute(r, e, keys)
        PROVE  dispute'[d].evidence = dispute[d].evidence \/ dispute[d].evidence = <<>>
    BY <2>1, <2>t DEF OpenDispute, RowInv
  <2>2. ASSUME NEW r \in Request, NEW keys \in Seq(Key), AttachEvidence(r, keys) PROVE Stale(d, i)
    <3>1. /\ req[r].row \in Dispute /\ req[r].had \in Seq(Key) /\ req'[r].at # req[r].at
          /\ dispute' = [dispute EXCEPT ![req[r].row].evidence = Merged(req[r].had, keys)]
      BY <2>2, <2>t DEF AttachEvidence, Leave, Idle, Holds, RequestRecord
    <3>2. req[r].row = d /\ dispute'[d].evidence = Merged(req[r].had, keys)
      BY <2>t, <3>1 DEF DisputeRecord
    <3>3. i \in DOMAIN req[r].had =>
            /\ i \in DOMAIN Merged(req[r].had, keys)
            /\ Merged(req[r].had, keys)[i] = req[r].had[i]
      BY <3>1, MergedKeeps
    <3> QED
      BY <3>1, <3>2, <3>3
  <2>3. ASSUME NEW e \in Dispute, ResolveDispute(e)
        PROVE  dispute'[d].evidence = dispute[d].evidence
    BY <2>3, <2>t DEF ResolveDispute, DisputeRecord
  <2>4. dispute'[d].evidence # dispute[d].evidence /\ dispute[d].evidence # <<>>
    OBVIOUS
  <2>5. dispute' # dispute
    BY <2>4
  <2>6. <<>> \in Seq(Key) /\ \A k \in Key : <<k>> \in Seq(Key)
    OBVIOUS
  <2> HIDE DEF Lost, Stale
  <2> QED
    BY <2>1, <2>2, <2>3, <2>4, <2>5, <2>6, ZenonT(40)
       DEF Next, ResolveFind, ResolveCreate, Load, Expire, Click, Block, Wrong, RecordCode, Count,
           Verified, SignSession, Enter, LookForOpen, FindDispute, StoreProof, Fail, Age,
           CodeExpires, SessionExpires
<1>2. Init => RowInv
  BY DEF Init, RowInv, Idle
<1> QED
  BY <1>1, <1>2, TypeInit, TypeNext, RowNext, PTL DEF Spec, EvidenceKept

=============================================================================
