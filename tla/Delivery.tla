------------------------------ MODULE Delivery ------------------------------
(***************************************************************************)
(* A message to a debtor: the row of interaction_logs that stands for it,  *)
(* the call to the provider (Twilio for SMS, SES for e-mail), and what the *)
(* provider reports later.                                                 *)
(*                                                                         *)
(* The senders of a stage write the row, call, and write the row again;    *)
(* those of a voice call and of the demonstration call first, and write a  *)
(* row of their own for a failure.  Reports and events of the link (SMS    *)
(* only: a click, or the preview of an app) are requests of the provider:  *)
(* each finds the row by the reference the call returned, and writes back  *)
(* what it read with its own change.                                       *)
(***************************************************************************)
EXTENDS Integers, Sequences, FiniteSets

CONSTANTS
  Handler,      \* requests of the provider handled at once
  MaxClickList, \* MAX_SHORT_LINK_CLICKS
  MaxClicks,    \* bound on the events of the link
  None

Channel == {"sms", "email"}

\* What Twilio says of a message, in the order it goes through them; other: what the code
\* has no name for, such as canceled.
Reported == {"queued", "sent", "other", "delivered", "undelivered"}
Rank(r) == CASE r = "queued" -> 1 [] r \in {"sent", "other"} -> 2 [] OTHER -> 3

\* The event_type of an event of the link.
EventType == {"click", "preview"}

\* What aiData has of them.
LinkData == [
  count : [EventType -> 0 .. MaxClicks], \* twilio_short_link_click_count, .._preview_count
  list  : 0 .. MaxClickList]             \* the length of twilio_short_link_clicks

RowRecord == [
  status : {"none", "queued", "sent", "failed", "delivered", "in_progress", "other"},
  ref    : BOOLEAN,      \* providerRef
  aiData : LinkData]

NoEvents == [e \in EventType |-> 0]
NoData   == [count |-> NoEvents, list |-> 0]
NoRow    == [status |-> "none", ref |-> FALSE, aiData |-> NoData]

(* What each sender does in turn, and from which step a failure is caught. *)
(* skip: it may stop there, for want of an address or of a template; link:  *)
(* the payment link; row: the row, queued; event: what follows the sending. *)

StageSms   == [steps |-> <<"skip", "link", "skip", "row", "call", "sent", "event">>, try |-> 4]
StageEmail == [steps |-> <<"skip", "skip", "link", "row", "call", "sent", "event">>, try |-> 2]
CallSms    == [steps |-> <<"skip", "call", "sent", "event">>, try |-> 2]
CallEmail  == [steps |-> <<"skip", "call", "sent", "event">>, try |-> 2]
DemoSms    == [steps |-> <<"skip", "link", "call", "sent">>, try |-> 3]
DemoEmail  == [steps |-> <<"skip", "link", "call", "sent">>, try |-> 3]

Script(sender, channel) ==
  CASE sender = "stage" -> IF channel = "sms" THEN StageSms ELSE StageEmail
    [] sender = "call"  -> IF channel = "sms" THEN CallSms ELSE CallEmail
    [] sender = "demo"  -> IF channel = "sms" THEN DemoSms ELSE DemoEmail

Sender == {"stage", "call", "demo"}

DeliveryAssumption ==
  MaxClickList \in Nat \ {0} /\ MaxClicks \in Nat /\ None \notin Handler \cup Sender

Over   == 0    \* the position of a sender that has returned,
Caught == -1   \* and of one that is in its catch block

HandlerRecord == [
  at     : {"idle", "report", "click"},
  says   : Reported \cup EventType \cup {None},   \* MessageStatus, or event_type
  read   : LinkData,                               \* the aiData of the row it found
  stale  : BOOLEAN]   \* history: the row was written since it was read

NoRequest == [at |-> "idle", says |-> None, read |-> NoData, stale |-> FALSE]

VARIABLES
  channel,
  sender,          \* who sends; None: it has returned
  pos,             \* the step the sender is at
  row,
  twin,            \* a second row was written, which says failed
  provider,        \* what has become of the message at the provider
  handler,
  top,             \* history: the rank of the latest report that was written
  seen,            \* history: events of the link, of each type, whose message was found
  lost,            \* history: what came after the provider's yes failed, or it was not heard
  raced            \* history: a row was written over a newer one

vars == <<channel, sender, pos, row, twin, provider, handler, top, seen, lost, raced>>

Init ==
  /\ channel \in Channel
  /\ sender \in Sender
  /\ pos = 1
  /\ row = NoRow
  /\ twin = FALSE
  /\ provider = "none"
  /\ handler = [h \in Handler |-> NoRequest]
  /\ top = 0 /\ seen = NoEvents
  /\ lost = FALSE /\ raced = FALSE

\* A write of the row makes what the others have read out of date.
Outdated == [g \in Handler |-> [handler[g] EXCEPT !.stale = handler[g].at # "idle"]]

-----------------------------------------------------------------------------
(* The senders.                                                             *)

TheScript == Script(sender, channel)
Sending   == pos >= 1
At(step)  == Sending /\ TheScript.steps[pos] = step

GoTo(p) ==
  /\ pos' = p
  /\ sender' = IF p = Over THEN None ELSE sender
GoOn == GoTo(IF pos = Len(TheScript.steps) THEN Over ELSE pos + 1)

\* There is no address, or no template: nothing is sent, and nothing written but an event.
Skip ==
  /\ At("skip")
  /\ GoTo(Over)
  /\ UNCHANGED <<channel, row, twin, provider, handler, top, seen, lost, raced>>

\* The steps that write nothing of the row.
Proceed ==
  /\ At("skip") \/ At("link") \/ At("event")
  /\ GoOn
  /\ UNCHANGED <<channel, row, twin, provider, handler, top, seen, lost, raced>>

Queue ==
  /\ At("row")
  /\ row' = [row EXCEPT !.status = "queued"]
  /\ GoOn
  /\ UNCHANGED <<channel, twin, provider, handler, top, seen, lost, raced>>

\* The provider takes the message; the answer may be lost.
Accept(heard) ==
  /\ At("call")
  /\ provider' = "queued"
  /\ IF heard THEN GoOn ELSE GoTo(Caught)
  /\ lost' = ~heard
  /\ UNCHANGED <<channel, row, twin, handler, top, seen, raced>>

Refuse ==
  /\ At("call")
  /\ provider' = "refused"
  /\ GoTo(Caught)
  /\ UNCHANGED <<channel, row, twin, handler, top, seen, lost, raced>>

\* The row is written, or created, with the reference of the provider.
RecordSent ==
  /\ At("sent")
  /\ row' = [row EXCEPT !.status = "sent", !.ref = TRUE]
  /\ handler' = Outdated
  /\ GoOn
  /\ UNCHANGED <<channel, twin, provider, top, seen, lost, raced>>

\* A step other than the call fails; before the try block, the sender just throws.
Throw ==
  /\ Sending /\ ~At("call")
  /\ GoTo(IF pos >= TheScript.try THEN Caught ELSE Over)
  /\ lost' = (lost \/ provider # "none")
  /\ UNCHANGED <<channel, row, twin, provider, handler, top, seen, raced>>

\* The catch block: a sender of a stage corrects its row, the others write a new one.
RecordFailed ==
  /\ pos = Caught
  /\ IF sender = "stage" \/ row.status = "none"
       THEN row' = [row EXCEPT !.status = "failed"] /\ twin' = twin
       ELSE twin' = TRUE /\ row' = row
  /\ handler' = Outdated
  /\ GoTo(Over)
  /\ UNCHANGED <<channel, provider, top, seen, lost, raced>>

\* The server dies between two steps.
Crash ==
  /\ pos # Over
  /\ GoTo(Over)
  /\ lost' = (lost \/ provider # "none")
  /\ UNCHANGED <<channel, row, twin, provider, handler, top, seen, raced>>

-----------------------------------------------------------------------------
(* The provider: it moves the message on and reports it.  Its reports are   *)
(* repeated, overtaken or lost: one of any status so far comes at any time. *)

Reportable(r) == provider \in Reported /\ (r = provider \/ Rank(r) < Rank(provider))

Progress(to) ==
  /\ channel = "sms"
  /\ provider \in Reported
  /\ Rank(to) = Rank(provider) + 1
  /\ provider' = to
  /\ UNCHANGED <<channel, sender, pos, row, twin, handler, top, seen, lost, raced>>

-----------------------------------------------------------------------------
(* statusCallback.                                                          *)

\* mapSmsStatus; one mutation forgets that sent is as far as some messages are followed,
\* the other that undelivered is an end.
mapSmsStatusSentFails(r) ==
  CASE r = "delivered" -> "delivered" [] r = "queued" -> "in_progress" [] OTHER -> "failed"
mapSmsStatusOnItsWay(r) ==
  IF r \in {"delivered", "sent"} THEN "delivered" ELSE "in_progress"
mapSmsStatus(r) ==
  CASE r \in {"delivered", "sent"} -> "delivered"
    [] r = "undelivered" -> "failed"
    [] r = "queued" -> "in_progress"
    [] OTHER -> r

\* A report that finds no row is answered and forgotten.
TakeReport(h, r) ==
  /\ channel = "sms"
  /\ handler[h].at = "idle"
  /\ Reportable(r)
  /\ row.ref
  /\ handler' = [handler EXCEPT ![h] = [at |-> "report", says |-> r,
                                        read |-> row.aiData, stale |-> FALSE]]
  /\ UNCHANGED <<channel, sender, pos, row, twin, provider, top, seen, lost, raced>>

\* The status, and what else the row had when it was read.
ReportedRow(read, r) == [row EXCEPT !.status = mapSmsStatus(r), !.aiData = read]

WriteReport(h) ==
  /\ handler[h].at = "report"
  /\ row' = ReportedRow(handler[h].read, handler[h].says)
  /\ handler' = [Outdated EXCEPT ![h] = NoRequest]
  /\ raced' = (raced \/ handler[h].stale)
  /\ top' = IF Rank(handler[h].says) > top THEN Rank(handler[h].says) ELSE top
  /\ UNCHANGED <<channel, sender, pos, twin, provider, seen, lost>>

-----------------------------------------------------------------------------
(* linkClickCallback.                                                       *)

TakeClick(h, e) ==
  /\ channel = "sms"
  /\ handler[h].at = "idle"
  /\ row.ref
  /\ seen["click"] + seen["preview"] < MaxClicks
  /\ seen' = [seen EXCEPT ![e] = @ + 1]
  /\ handler' = [handler EXCEPT ![h] = [at |-> "click", says |-> e,
                                        read |-> row.aiData, stale |-> FALSE]]
  /\ UNCHANGED <<channel, sender, pos, row, twin, provider, top, lost, raced>>

\* The last MAX_SHORT_LINK_CLICKS are kept; the mutation keeps all of them.
TrimmedNever(n) == n
Trimmed(n)      == IF n > MaxClickList THEN MaxClickList ELSE n

WriteClick(h) ==
  /\ handler[h].at = "click"
  /\ LET prev == handler[h].read
     IN  row' = [row EXCEPT !.aiData = [count |-> [prev.count EXCEPT ![handler[h].says] = @ + 1],
                                        list  |-> Trimmed(prev.list + 1)]]
  /\ handler' = [Outdated EXCEPT ![h] = NoRequest]
  /\ raced' = (raced \/ handler[h].stale)
  /\ UNCHANGED <<channel, sender, pos, twin, provider, top, seen, lost>>

Next ==
  \/ Skip \/ Proceed \/ Queue
  \/ \E heard \in BOOLEAN : Accept(heard)
  \/ Refuse \/ RecordSent \/ Throw \/ RecordFailed \/ Crash
  \/ \E r \in Reported : Progress(r)
  \/ \E h \in Handler :
       \/ \E r \in Reported : TakeReport(h, r)
       \/ \E e \in EventType : TakeClick(h, e)
       \/ WriteReport(h) \/ WriteClick(h)

Spec == Init /\ [][Next]_vars

-----------------------------------------------------------------------------
(* Properties.                                                              *)

TypeOK ==
  /\ channel \in Channel /\ sender \in Sender \cup {None}
  /\ pos \in Caught .. 7 /\ (pos = Over <=> sender = None)
  /\ row \in RowRecord /\ twin \in BOOLEAN
  /\ provider \in Reported \cup {"none", "refused"}
  /\ handler \in [Handler -> HandlerRecord]
  /\ top \in 0 .. 3 /\ seen \in [EventType -> 0 .. MaxClicks]
  /\ lost \in BOOLEAN /\ raced \in BOOLEAN

\* A row says failed only of a message the provider was not given, refused or could not
\* deliver, unless something failed after the provider's yes.
FailedMeansRefused ==
  row.status = "failed" \/ twin => lost \/ provider \in {"none", "refused", "undelivered"}

\* A delivered or failed message is no more said to be so only for a report that is older
\* than one already written, or of a status that has no name.
FinalStaysStep ==
  row.status \in {"delivered", "failed"} /\ row'.status \notin {"delivered", "failed"}
    => \E h \in Handler :
         /\ handler[h].at = "report" /\ handler'[h] = NoRequest
         /\ Rank(handler[h].says) < top \/ handler[h].says = "other" \/ lost

\* Every event of the link of a known message is counted with its type, and the list holds
\* those of both types up to its limit, unless two requests, or a request and the sender,
\* wrote over one another.
ClicksCounted ==
  ~raced =>
    /\ \A e \in EventType : row.aiData.count[e] = seen[e] - Cardinality({h \in Handler :
         handler[h].at = "click" /\ handler[h].says = e})
    /\ LET all == row.aiData.count["click"] + row.aiData.count["preview"]
       IN  row.aiData.list = IF all > MaxClickList THEN MaxClickList ELSE all
=============================================================================
