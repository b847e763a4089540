------------------------------- MODULE Activity -------------------------------
(***************************************************************************)
(* What an automation shows of its past: the activity feed, filtered and   *)
(* grouped by day and case or by case, and the timeline of one case, which *)
(* merges the events with the calls of the interaction log.                *)
(*                                                                         *)
(* The handlers elsewhere add the events; here any of them may come next,  *)
(* and a case may move to the other stage in between.                      *)
(***************************************************************************)
EXTENDS Integers, FiniteSets, Sequences, Functions

CONSTANTS
  Case,
  EventType,  \* of the events that occur
  Shown,      \* limits that a request may give
  MaxEvents, MaxDay,  \* bounds
  None

ActivityAssumption ==
  /\ Shown \subseteq Nat /\ {MaxEvents, MaxDay} \subseteq Nat
  /\ \A c \in Case : None # {c}

Stage  == {"early", "late"}
Status == {"queued", "sent", "failed", "opened"}
Outcome == {"promise", "excluded", "paid"}
CallStatus == {"queued", "in_progress", "completed", "failed"}

\* The channel that the handlers write beside each type of event; the bulk decisions and
\* the dispatches that are skipped as a whole write none.
channelOf(type) ==
  CASE type \in {"call_queued", "call_dispatch_queue_unavailable", "agreement_created"} -> "call"
    [] type \in {"sms_queued", "sms_sent", "sms_failed", "sms_dispatch_queue_unavailable"} -> "sms"
    [] OTHER -> None

Event == [id : 1 .. MaxEvents, case : Case, type : EventType, day : 0 .. MaxDay]

VARIABLES
  log,     \* collection_events, in the order of createdAt
  calls,   \* interaction_logs of type CALL: the status, and how many events came before
  stage,   \* currentStage of each enrolment
  day

vars == <<log, calls, stage, day>>

Init ==
  /\ log = <<>>
  /\ calls = <<>>
  /\ stage = [c \in Case |-> "early"]
  /\ day = 0

Written(c, type) ==
  /\ Len(log) < MaxEvents
  /\ log' = Append(log, [id |-> Len(log) + 1, case |-> c, type |-> type, day |-> day])
  /\ UNCHANGED <<calls, stage, day>>

CallLogged(c) ==
  /\ Len(calls) = 0
  /\ calls' = <<[case |-> c, status |-> "queued", after |-> Len(log)]>>
  /\ UNCHANGED <<log, stage, day>>

CallEnds(status) ==
  /\ Len(calls) = 1
  /\ calls' = [calls EXCEPT ![1].status = status]
  /\ UNCHANGED <<log, stage, day>>

StageMoves(c) ==
  /\ stage[c] = "early"
  /\ stage' = [stage EXCEPT ![c] = "late"]
  /\ UNCHANGED <<log, calls, day>>

NextDay ==
  /\ day < MaxDay
  /\ day' = day + 1
  /\ UNCHANGED <<log, calls, stage>>

Next ==
  \/ \E c \in Case, type \in EventType : Written(c, type)
  \/ \E c \in Case : CallLogged(c) \/ StageMoves(c)
  \/ \E status \in CallStatus : CallEnds(status)
  \/ NextDay

Spec == Init /\ [][Next]_vars

-----------------------------------------------------------------------------
(* getActivity: which types of event a filter asks for.                     *)

statusToEventTypes ==
  [queued |-> {"call_queued", "sms_queued"},
   sent   |-> {"call_queued", "sms_sent"},
   failed |-> {"call_dispatch_queue_unavailable", "sms_failed"},
   opened |-> {}]

outcomeToEventTypes ==
  [promise |-> {"agreement_created"}, excluded |-> {"case_excluded"}, paid |-> {}]

\* Statuses and outcomes widen one another; a set without types filters nothing.
eventTypes(statuses, outcomes) ==
  LET combined == UNION ({statusToEventTypes[s] : s \in statuses}
                         \cup {outcomeToEventTypes[o] : o \in outcomes})
  IN  IF combined = {} THEN None ELSE combined

Query == [statuses : {{}} \cup {{s} : s \in Status},
            outcomes : {{}} \cup {{o} : o \in Outcome},
            channels : {{}, {"call"}},
            stages   : {{}} \cup {{s} : s \in Stage},
            dateFrom : 0 .. MaxDay,
            search   : {None} \cup {{c} : c \in Case},   \* the cases it matches
            limit    : Shown]

\* The latest limit elements of a sequence.
Latest(s, limit) == IF Len(s) <= limit THEN s ELSE SubSeq(s, Len(s) - limit + 1, Len(s))

\* The place of a set that has k - 1 before it, and the log at the places of a set, in order.
Nth(P, k) == CHOOSE i \in P : Cardinality({j \in P : j <= i}) = k
Entries(P) == [k \in 1 .. Cardinality(P) |-> log[Nth(P, k)]]

\* findEvents, newest first in the code: the events let through, the latest ones.
findEvents(req) ==
  LET types == eventTypes(req.statuses, req.outcomes)
      Let(e) ==
        /\ e.day >= req.dateFrom
        /\ req.channels = {} \/ channelOf(e.type) \in req.channels
        /\ types = None \/ e.type \in types
        /\ req.search = None \/ e.case \in req.search
        /\ req.stages = {} \/ stage[e.case] \in req.stages   \* the stage of now
  IN  Latest(Entries({i \in 1 .. Len(log) : Let(log[i])}), req.limit)

\* By case: the groups, each with its events.
groupsByCase(events) ==
  [c \in {e.case : e \in Range(events)} |-> {e \in Range(events) : e.case = c}]

\* By day, and in each day by case with the numbers of each group.
groupsByDay(events) ==
  [d \in {e.day : e \in Range(events)} |->
    LET ofDay == {e \in Range(events) : e.day = d}
    IN  [c \in {e.case : e \in ofDay} |->
          LET ordered == {e \in ofDay : e.case = c}
          IN  [events          |-> ordered,
               totalEvents     |-> Cardinality(ordered),
               channels        |-> {channelOf(e.type) : e \in ordered} \ {None},
               eventTypeCounts |-> [t \in {e.type : e \in ordered} |->
                                     Cardinality({e \in ordered : e.type = t})],
               lastEvent       |-> CHOOSE e \in ordered : \A f \in ordered : f.id <= e.id]]]

-----------------------------------------------------------------------------
(* getCaseTimeline: the events of a case and its calls, in order of time.   *)

callEventType(status) ==
  CASE status = "failed"      -> "call_failed"
    [] status = "completed"   -> "call_completed"
    [] status = "in_progress" -> "call_in_progress"
    [] OTHER                  -> "call_queued"

getCaseTimeline(c) ==
  LET From(lo, hi) == LET own == {i \in lo .. hi : log[i].case = c}
                      IN  [k \in 1 .. Cardinality(own) |-> Entries(own)[k].type]
      cut == IF Len(calls) = 1 THEN calls[1].after ELSE 0
      call == IF Len(calls) = 1 /\ calls[1].case = c
              THEN <<callEventType(calls[1].status)>> ELSE <<>>
  IN  From(1, cut) \o call \o From(cut + 1, Len(log))

-----------------------------------------------------------------------------
(* Types: the tables stay in their types.                                   *)
TypeOK ==
  /\ log \in Seq(Event) /\ Len(log) <= MaxEvents
  /\ \A call \in Range(calls) :
       call.case \in Case /\ call.status \in CallStatus /\ call.after \in 0 .. MaxEvents
  /\ stage \in [Case -> Stage]
  /\ day \in 0 .. MaxDay

(* The feed loses and repeats nothing: what findEvents let through is in    *)
(* the groups, each event in one group of its own day and case, and the     *)
(* numbers of the groups add up to the number of the events.                *)
GroupsAddUp ==
  \A req \in {r \in Query : r.outcomes = {} /\ r.stages = {} /\ r.search = None /\ r.channels = {}} :
    LET found == findEvents(req)
        days  == groupsByDay(found)
        total == [d \in DOMAIN days |->
                   SumFunction([c \in DOMAIN days[d] |-> days[d][c].totalEvents])]
        byCase == groupsByCase(found)
    IN  /\ SumFunction(total) = Len(found)
        /\ UNION {byCase[c] : c \in DOMAIN byCase}
           = UNION {UNION {days[d][c].events : c \in DOMAIN days[d]} : d \in DOMAIN days}
        /\ \A d \in DOMAIN days : \A c \in DOMAIN days[d] :
             /\ SumFunction(days[d][c].eventTypeCounts) = days[d][c].totalEvents
             /\ days[d][c].lastEvent.day = d

(* The feed and the timeline tell the same of a case: all its events, when  *)
(* the feed is searched for it and no limit cuts it, whatever stage the     *)
(* case has moved to and whenever its call took place.                      *)
FeedMatchesTimeline ==
  \A c \in Case :
    LET req == [statuses |-> {}, outcomes |-> {}, channels |-> {}, stages |-> {stage[c]},
                dateFrom |-> 0, search |-> {c}, limit |-> MaxEvents]
        told == getCaseTimeline(c)
        Feed == findEvents(req)
    IN  /\ Len(told) - Len(Feed) = Cardinality({k \in 1 .. Len(calls) : calls[k].case = c})
        /\ \A k \in 1 .. Len(Feed) : \E n \in {k, k + 1} :
             n <= Len(told) /\ told[n] = Feed[k].type

=============================================================================
