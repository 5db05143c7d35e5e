----------------------------- MODULE Timesheet -----------------------------
(***************************************************************************)
(* The declared timesheet of one employee: additions of a forgotten day,   *)
(* replacements of a recorded day, corrections of one event, the live      *)
(* clock of the web application, and the days they add up to.              *)
(*                                                                         *)
(* A request of the web is handled in two steps: the handler reads and     *)
(* checks outside any transaction (Check) and stores later (Save), so two  *)
(* handlers may interleave; a transaction and a single save are atomic.    *)
(* Time is counted in ticks of a minute, DayLen of them in a day. The log  *)
(* is the work_events collection in order of creation; an event is named   *)
(* by its position. The hash chain over it is the subject of Ledger.       *)
(***************************************************************************)
EXTENDS Integers, Sequences, FiniteSets, SequencesExt, TLC

CONSTANTS
  Requests,      \* manual_time_requests that may be made
  Corrections,   \* correction_requests that may be made
  Supervisors,   \* requests of administrators and managers handled at once
  DayLen,        \* ticks in a day
  MaxInterval,   \* the longest interval, sixteen hours of the day
  LastDay,       \* days 0..LastDay are declared upon
  MaxTime,       \* bound: the clock stops here at the latest
  CorrectedKinds, \* the kinds and the times a correction of one event may
  CorrectedTimes, \*   ask for: any time, that to come included
  Drafts         \* what the form sends: sequences of intervals of a day

WorkKinds == {"clock_in", "break_start", "break_end", "clock_out"}
Typed == [kind : {"work", "break"}, start : Nat, end : Nat, startNextDay : BOOLEAN,
          paid : BOOLEAN]

\* Requests have names of their own, and the form sends times.
ASSUME TimesheetAssumption ==
  /\ Requests \intersect Corrections = {} /\ "live" \notin Requests \union Corrections
  /\ DayLen \in Nat \ {0} /\ MaxInterval \in Nat /\ LastDay \in Nat /\ MaxTime \in Nat
  /\ CorrectedKinds \subseteq WorkKinds /\ CorrectedTimes \subseteq Nat
  /\ Drafts \subseteq Seq(Typed)

VARIABLES
  now,         \* the server's clock
  log,         \* work_events, in order of creation
  reqs,        \* manual_time_requests and the handlers creating them
  corrs,       \* correction_requests and the handlers creating them
  desk,        \* what each supervisor's request holds between its two steps
  policy,      \* the company's two approval settings
  beside       \* ghost: pairs of requests that were being handled at once; {r}:
               \* the clock ended a break while request r was being handled

timesheetVars == <<now, log, reqs, corrs, desk, policy, beside>>

Days == 0 .. LastDay
DayOf(t) == t \div DayLen
Today == DayOf(now)

NoRequest == [stage |-> "none"]
NoCorrection == [stage |-> "none"]
Idle == [op |-> "idle"]

Stored(r) == reqs[r].stage = "stored"
Pending == {r \in Requests : Stored(r) /\ reqs[r].status = "pending"}
Approved == {r \in Requests : Stored(r) /\ reqs[r].status = "approved"}
InHand == {r \in Requests : reqs[r].stage = "checked"}

-----------------------------------------------------------------------------
(* The effective log.                                                      *)

Indices(l) == [i \in 1 .. Len(l) |-> i]

\* What s has at the positions in S, in its order.
Only(s, S) ==
  LET kept[n \in 0 .. Len(s)] ==
        IF n = 0 THEN <<>> ELSE IF n \in S THEN Append(kept[n - 1], s[n]) ELSE kept[n - 1]
  IN kept[Len(s)]

\* s by time, what has the same time in the order it is in.
Inserted(w, x) == InsertAt(w, Cardinality({k \in DOMAIN w : w[k].at <= x.at}) + 1, x)
StableByTime(s) ==
  LET sorted[n \in 0 .. Len(s)] == IF n = 0 THEN <<>> ELSE Inserted(sorted[n - 1], s[n])
  IN sorted[Len(s)]

AsRead(l, i) == [id |-> i, kind |-> l[i].kind, at |-> l[i].at, paid |-> l[i].paid]

\* One correction applied to the events read so far: a void removes its
\* target, another correction gives it a kind and a time. A target that is
\* not among them is read again from the collection.
ApplyCorrection(l, events, c) ==
  LET target  == l[c].corrects
      present == \E k \in 1 .. Len(events) : events[k].id = target
      read    == IF present THEN events ELSE Append(events, AsRead(l, target))
  IN IF l[c].void
     THEN Only(read, {k \in DOMAIN read : read[k].id # target})
     ELSE [k \in 1 .. Len(read) |->
             IF read[k].id = target
             THEN [read[k] EXCEPT !.kind = l[c].to, !.at = l[c].at]
             ELSE read[k]]

\* The events in the order they are read, before any is corrected. The query
\* reads a day beyond the time asked for.
InQuery(l, until) == {i \in DOMAIN l : l[i].at <= until + DayLen}
RegularRead(l, until) == {i \in InQuery(l, until) : l[i].kind # "correction"}
eventsRead(l, until) ==
  StableByTime(Only([i \in DOMAIN l |-> AsRead(l, i)], RegularRead(l, until)))
correctionsRead(l, until) ==
  Only(Indices(l), InQuery(l, until) \ RegularRead(l, until))

eventsCorrected(l, until) ==
  FoldLeft(LAMBDA s, c : ApplyCorrection(l, s, c), eventsRead(l, until), correctionsRead(l, until))
effectiveEvents(l, until) == StableByTime(eventsCorrected(l, until))

\* Mistake: the end of a break does not begin a span.
spanStepToBreak(s, e) ==
  IF e.kind = "clock_in" THEN [active |-> e.at, spans |-> s.spans]
  ELSE IF e.kind = "break_end" \/ (e.kind = "break_start" /\ e.paid) \/ s.active < 0 THEN s
  ELSE [active |-> -1, spans |-> Append(s.spans, [start |-> s.active, end |-> e.at])]

\* An event begins a span, lets it be or ends it; an unpaid break interrupts.
spanStep(s, e) ==
  IF e.kind = "clock_in" \/ (e.kind = "break_end" /\ s.active < 0)
  THEN [active |-> e.at, spans |-> s.spans]
  ELSE IF e.kind = "break_end" \/ (e.kind = "break_start" /\ e.paid) \/ s.active < 0 THEN s
  ELSE [active |-> -1, spans |-> Append(s.spans, [start |-> s.active, end |-> e.at])]

spansSeen(events) == FoldLeft(spanStep, [active |-> -1, spans |-> <<>>], events)

\* Spans of work: a span that nothing ends is open.
workSpans(events, openUntil) ==
  LET last == spansSeen(events)
  IN IF last.active < 0 THEN last.spans
     ELSE Append(last.spans,
                 [start |-> last.active,
                  end |-> IF openUntil > last.active THEN openUntil ELSE last.active])

\* The time in the intervals or the spans of s.
TimeIn(s) == FoldLeft(LAMBDA sum, x : sum + x.end - x.start, 0, s)

\* The state a legal event finds and the one it leaves.
expectedState(k) ==
  IF k = "clock_in" THEN "off" ELSE IF k = "break_end" THEN "break" ELSE "work"
nextState(k) ==
  IF k = "clock_out" THEN "off" ELSE IF k = "break_start" THEN "break" ELSE "work"

anomalyStep(s, e) ==
  [state |-> nextState(e.kind), last |-> DayOf(e.at),
   dates |-> IF s.state = expectedState(e.kind) THEN s.dates ELSE s.dates \union {DayOf(e.at)}]
anomaliesSeen(events) ==
  FoldLeft(anomalyStep, [state |-> "off", last |-> 0, dates |-> {}], events)

\* The days on which the sequence of events is not a legal one.
sequenceAnomalyDates(events) ==
  LET end == anomaliesSeen(events)
  IN IF end.state # "off" THEN end.dates \union {end.last} ELSE end.dates

EmptyDay == [ids |-> <<>>, intervals |-> <<>>, closed |-> FALSE]

\* An event joins the day of its shift, with the interval it ends.
editableStep(s, e) ==
  LET own   == IF e.kind = "clock_in" \/ s.shift < 0 THEN DayOf(e.at) ELSE s.shift
      begun == IF e.kind = "break_end" THEN s.rest ELSE s.work
      k     == IF e.kind = "break_end" THEN "break" ELSE "work"
      ended == IF e.kind = "clock_in" \/ begun = <<>> THEN <<>>
               ELSE <<[kind |-> k, start |-> begun[1].at, end |-> e.at,
                       paid |-> k = "break" /\ begun[1].paid]>>
      day   == s.groups[own]
  IN [shift |-> IF e.kind = "clock_in" THEN own ELSE IF e.kind = "clock_out" THEN -1 ELSE s.shift,
      work |-> IF e.kind \in {"clock_in", "break_end"} THEN <<e>> ELSE <<>>,
      rest |-> IF e.kind = "break_start" THEN <<e>> ELSE <<>>,
      groups |-> [s.groups EXCEPT ![own] =
        [ids |-> Append(day.ids, e.id), intervals |-> day.intervals \o ended,
         closed |-> e.kind = "clock_out" \/ (e.kind # "clock_in" /\ day.closed)]]]

\* Events grouped under the day their shift began, with the intervals they
\* delimit: what the editor of a day starts from.
editableDays(events) ==
  LET days == Days \union {DayOf(events[k].at) : k \in DOMAIN events}
  IN FoldLeft(editableStep, [shift |-> -1, work |-> <<>>, rest |-> <<>>,
                             groups |-> [d \in days |-> EmptyDay]], events).groups

\* A day as it can be edited, and the fingerprint of its events.
editableDayState(l, d) ==
  LET events == effectiveEvents(l, (d + 2) * DayLen)
      day    == editableDays(events)[d]
  IN [ids |-> day.ids, intervals |-> day.intervals, closed |-> day.closed,
      fingerprint |-> Only(events, {k \in DOMAIN events : events[k].id \in Range(day.ids)})]

hasApprovedTimeHistory(d) == \E r \in Approved : reqs[r].day = d

-----------------------------------------------------------------------------
(* What is declared.                                                       *)

intervalsOverlap(x, y) == x.start < y.end /\ x.end > y.start

\* Mistake: the intervals are left in the order they were typed in.
PlacedUnsorted(draft, d) ==
  LET from(x)  == x.start + (IF x.startNextDay THEN DayLen ELSE 0)
      until(x) == from(x) + x.end - x.start + (IF x.end < x.start THEN DayLen ELSE 0)
  IN [i \in DOMAIN draft |->
        [kind |-> draft[i].kind, start |-> d * DayLen + from(draft[i]),
         end |-> d * DayLen + until(draft[i]), paid |-> draft[i].paid]]

\* The intervals of a draft for day d in order. An interval of the form says
\* at which times of day it begins and ends and whether it begins the day
\* after; it ends the day after it begins when its end is earlier.
Placed(draft, d) ==
  LET from(i)  == draft[i].start + (IF draft[i].startNextDay THEN DayLen ELSE 0)
      until(i) == from(i) + draft[i].end - draft[i].start
                    + (IF draft[i].end < draft[i].start THEN DayLen ELSE 0)
      placed == [i \in DOMAIN draft |->
                   [kind |-> draft[i].kind, paid |-> draft[i].paid, at |-> from(i),
                    start |-> d * DayLen + from(i), end |-> d * DayLen + until(i)]]
      sorted == StableByTime(placed)
  IN [i \in DOMAIN draft |->
        [kind |-> sorted[i].kind, start |-> sorted[i].start,
         end |-> sorted[i].end, paid |-> sorted[i].paid]]

\* Whether they are a day that is over: work at both ends, nothing that
\* overlaps or ends two days later, every break between two stretches of work.
normalizeIntervals(iv, d) ==
  LET n == Len(iv)
      breakJoined(i) ==
        /\ i \in 2 .. n - 1
        /\ iv[i - 1].kind = "work" /\ iv[i + 1].kind = "work"
        /\ iv[i - 1].end = iv[i].start /\ iv[i].end = iv[i + 1].start
      work == Only(iv, {i \in 1 .. n : iv[i].kind = "work"})
  IN /\ d <= Today /\ n > 0
     /\ \A i \in 1 .. n : iv[i].start < iv[i].end
     /\ \A i \in 1 .. n : iv[i].end < (d + 2) * DayLen
     /\ \A i \in 1 .. n : iv[i].end - iv[i].start <= MaxInterval
     /\ iv[1].kind = "work" /\ iv[n].kind = "work"
     /\ \A i \in 2 .. n : iv[i - 1].end <= iv[i].start
     /\ \A i \in 1 .. n : iv[i].kind = "break" => breakJoined(i)
     /\ TimeIn(work) <= DayLen
     /\ iv[n].end <= now

\* Mistake: what was worked already is not looked at.
ConflictsWithPending(iv, self, excludedEvents) ==
  \A r \in Pending \ {self} : \A i \in DOMAIN iv, j \in DOMAIN reqs[r].intervals :
    ~intervalsOverlap(iv[i], reqs[r].intervals[j])

\* No interval lies over time already worked or over a pending request.
validateConflicts(iv, self, excludedEvents) ==
  iv # <<>> =>
    LET events == effectiveEvents(log, iv[Len(iv)].end)
        others == Only(events, {k \in DOMAIN events : events[k].id \notin excludedEvents})
        spans  == workSpans(others, now)
    IN /\ \A i \in 1 .. Len(iv), j \in 1 .. Len(spans) : ~intervalsOverlap(iv[i], spans[j])
       /\ \A r \in Pending \ {self} : \A i \in 1 .. Len(iv), j \in 1 .. Len(reqs[r].intervals) :
            ~intervalsOverlap(iv[i], reqs[r].intervals[j])

Event(k, t, p, r) == [kind |-> k, at |-> t, paid |-> p, to |-> "none", corrects |-> 0,
                      void |-> FALSE, req |-> r]
CorrectionEvent(e, k, t, v, r) ==
  [kind |-> "correction", at |-> t, paid |-> FALSE, to |-> k, corrects |-> e, void |-> v, req |-> r]

\* The events of an interval: an entry where work begins, an exit where it
\* ends, a break between two intervals of work it joins.
eventsOfInterval(r, iv, i) ==
  LET joinsBefore == i > 1 /\ iv[i - 1].kind = "break" /\ iv[i - 1].end = iv[i].start
      joinsAfter  == i < Len(iv) /\ iv[i + 1].kind = "break" /\ iv[i].end = iv[i + 1].start
  IN IF iv[i].kind = "break"
     THEN <<Event("break_start", iv[i].start, iv[i].paid, r),
            Event("break_end", iv[i].end, iv[i].paid, r)>>
     ELSE (IF joinsBefore THEN <<>> ELSE <<Event("clock_in", iv[i].start, FALSE, r)>>)
            \o (IF joinsAfter THEN <<>> ELSE <<Event("clock_out", iv[i].end, FALSE, r)>>)

\* The events a request stands for.
eventsWritten(r, iv) == FoldLeft(LAMBDA s, i : s \o eventsOfInterval(r, iv, i), <<>>, Indices(iv))
materializeRequest(l, r, iv) == l \o StableByTime(eventsWritten(r, iv))

\* Mistake: a replacement is applied to whatever the day has become.
DayAnyhow(q) == q.stage # "none"

\* The day must still be the one the request was made against.
DayUnchanged(q) ==
  LET current == editableDayState(log, q.day)
  IN /\ current.fingerprint = q.fingerprint
     /\ Range(current.ids) = Range(q.targets)

\* Every event of the day is voided, then the new day is written.
materializeReplacement(l, r, q) ==
  LET voids == [i \in 1 .. Len(q.targets) |->
                  CorrectionEvent(q.targets[i], "none", l[q.targets[i]].at, TRUE, r)]
  IN materializeRequest(l \o voids, r, q.intervals)

Materialized(r, q) ==
  IF q.type = "replacement" THEN materializeReplacement(log, r, q)
  ELSE materializeRequest(log, r, q.intervals)

-----------------------------------------------------------------------------
(* Requests of the employee.                                               *)

Replies(r, q) ==
  /\ reqs' = [reqs EXCEPT ![r] = q]
  /\ UNCHANGED <<now, corrs, desk, policy>>

\* POST manual-time-requests, what it reads: the day has no events, never
\* had an approved request, and the draft lies over nothing.
AdditionCheck(r, d, draft) ==
  LET iv == Placed(draft, d)
  IN /\ reqs[r].stage = "none"
     /\ normalizeIntervals(iv, d)
     /\ editableDayState(log, d).ids = <<>> /\ ~hasApprovedTimeHistory(d)
     /\ validateConflicts(iv, r, {})
     /\ Replies(r, [stage |-> "checked", type |-> "addition", day |-> d, intervals |-> iv,
                    targets |-> <<>>, fingerprint |-> <<>>, auto |-> ~policy.addition])
     /\ beside' = beside \union {{r, s} : s \in InHand}
     /\ UNCHANGED log

\* POST timesheet-corrections, what it reads: the day has events or had, it is
\* over, and nothing else is pending upon it or upon its events.
ReplacementCheck(r, d, draft) ==
  LET iv  == Placed(draft, d)
      day == editableDayState(log, d)
  IN /\ reqs[r].stage = "none"
     /\ iv # <<>> => normalizeIntervals(iv, d)
     /\ day.ids # <<>> \/ hasApprovedTimeHistory(d)
     /\ (day.ids # <<>> /\ d = Today) => day.closed
     /\ \A s \in Pending : ~(reqs[s].type = "replacement" /\ reqs[s].day = d)
     /\ \A c \in Corrections :
          ~(corrs[c].stage = "stored" /\ corrs[c].status = "pending"
              /\ corrs[c].event \in Range(day.ids))
     /\ validateConflicts(iv, r, Range(day.ids))
     /\ Replies(r, [stage |-> "checked", type |-> "replacement", day |-> d, intervals |-> iv,
                    targets |-> day.ids, fingerprint |-> day.fingerprint,
                    auto |-> ~policy.correction])
     /\ beside' = beside \union {{r, s} : s \in InHand}
     /\ UNCHANGED log

\* What a request holds once stored, the fingerprint of its day included.
StoredAs(q, status) ==
  [stage |-> "stored", status |-> status, type |-> q.type, day |-> q.day,
   intervals |-> q.intervals, targets |-> q.targets, fingerprint |-> q.fingerprint,
   auto |-> q.auto]

\* The transaction both end in: the request is stored and, when the company
\* asks for no approval, applied. A replacement of a day that changed since
\* is refused and leaves nothing.
RequestSave(r) ==
  LET q == reqs[r]
  IN /\ q.stage = "checked"
     /\ IF ~q.auto
        THEN Replies(r, StoredAs(q, "pending")) /\ UNCHANGED log
        ELSE IF q.type = "replacement" /\ ~DayUnchanged(q)
        THEN Replies(r, [stage |-> "refused"]) /\ UNCHANGED log
        ELSE Replies(r, StoredAs(q, "approved")) /\ log' = Materialized(r, q)
     /\ UNCHANGED beside

\* POST .../resolve, one transaction. An approval that finds a conflict or a
\* changed day is refused and changes nothing.
Resolve(r, status) ==
  LET q == reqs[r]
  IN /\ r \in Pending
     /\ status = "approved" =>
          /\ validateConflicts(q.intervals, r, Range(q.targets))
          /\ q.type = "replacement" => DayUnchanged(q)
     /\ log' = IF status = "approved" THEN Materialized(r, q) ELSE log
     /\ Replies(r, [q EXCEPT !.status = status])
     /\ UNCHANGED beside

\* POST .../cancel by the employee, one transaction.
Cancel(r) ==
  /\ r \in Pending
  /\ Replies(r, [reqs[r] EXCEPT !.status = "cancelled"])
  /\ UNCHANGED <<log, beside>>

-----------------------------------------------------------------------------
(* The correction of one event.                                            *)

\* Create request: the event is one of the employee's, is not a correction
\* itself, and has no correction pending.
CorrectionCheck(c, i, k, t) ==
  /\ corrs[c].stage = "none"
  /\ i \in DOMAIN log /\ log[i].kind # "correction"
  /\ \A x \in Corrections :
       ~(corrs[x].stage = "stored" /\ corrs[x].status = "pending" /\ corrs[x].event = i)
  /\ corrs' = [corrs EXCEPT ![c] = [stage |-> "checked", event |-> i, kind |-> k, at |-> t]]
  /\ UNCHANGED <<now, log, reqs, desk, policy, beside>>

CorrectionSave(c) ==
  /\ corrs[c].stage = "checked"
  /\ corrs' = [corrs EXCEPT ![c] =
       [stage |-> "stored", status |-> "pending", event |-> corrs[c].event,
        kind |-> corrs[c].kind, at |-> corrs[c].at]]
  /\ UNCHANGED <<now, log, reqs, desk, policy, beside>>

\* Update request of a supervisor: the correction it read was pending.
CorrectionRead(s, c, status) ==
  /\ desk[s].op = "idle"
  /\ corrs[c].stage = "stored" /\ corrs[c].status = "pending"
  /\ desk' = [desk EXCEPT ![s] = [op |-> "resolve", corr |-> c, status |-> status]]
  /\ beside' = IF \E x \in Supervisors : desk[x].op # "idle" /\ desk[x].corr = c
               THEN beside \union {{c}} ELSE beside
  /\ UNCHANGED <<now, log, reqs, corrs, policy>>

\* The save of that update: the last one wins.
CorrectionResolve(s) ==
  /\ desk[s].op = "resolve"
  /\ corrs' = [corrs EXCEPT ![desk[s].corr].status = desk[s].status]
  /\ desk' = [desk EXCEPT ![s].op = "apply"]
  /\ UNCHANGED <<now, log, reqs, policy, beside>>

\* The hook after it. The correcting event carries an identifier made of the
\* request's, so a second one is refused by the unique index and forgotten.
CorrectionApply(s) ==
  LET c       == desk[s].corr
      applied == \E i \in DOMAIN log : log[i].req = c
  IN /\ desk[s].op = "apply"
     /\ log' = IF desk[s].status = "approved" /\ ~applied
               THEN Append(log, CorrectionEvent(corrs[c].event, corrs[c].kind, corrs[c].at,
                                                FALSE, c))
               ELSE log
     /\ desk' = [desk EXCEPT ![s] = Idle]
     /\ UNCHANGED <<now, reqs, corrs, policy, beside>>

\* Its errors are caught and written to the console.
CorrectionApplyFails(s) ==
  /\ desk[s].op = "apply"
  /\ desk' = [desk EXCEPT ![s] = Idle]
  /\ UNCHANGED <<now, log, reqs, corrs, policy, beside>>

-----------------------------------------------------------------------------
(* The live clock and the clock of the wall.                               *)

\* The latest raw event by time; of several, any.
LatestByTime ==
  {i \in DOMAIN log : /\ log[i].kind # "correction"
                      /\ \A j \in DOMAIN log : log[j].kind # "correction" => log[j].at <= log[i].at}

\* The clock of the web: the kind follows the latest raw event; the end of a
\* shift or of a break may be placed back, not before that event.
ClockAllowed(previous, k) ==
  CASE previous \in {"none", "clock_out"} -> k = "clock_in"
    [] previous \in {"clock_in", "break_end"} -> k \in {"break_start", "clock_out"}
    [] previous = "break_start" -> k = "break_end"

Clock(k, t) ==
  /\ \E latest \in IF LatestByTime = {} THEN {0} ELSE LatestByTime :
       /\ ClockAllowed(IF latest = 0 THEN "none" ELSE log[latest].kind, k)
       /\ IF k \in {"clock_out", "break_end"} THEN log[latest].at <= t ELSE t = now
  /\ log' = Append(log, Event(k, t, FALSE, "live"))
  /\ beside' = IF k = "break_end" THEN beside \union {{r} : r \in InHand} ELSE beside
  /\ UNCHANGED <<now, reqs, corrs, desk, policy>>

Tick ==
  /\ now < MaxTime
  /\ now' = now + 1
  /\ UNCHANGED <<log, reqs, corrs, desk, policy, beside>>

TimesheetInit(start) ==
  /\ now = start
  /\ log = <<>>
  /\ reqs = [r \in Requests |-> NoRequest]
  /\ corrs = [c \in Corrections |-> NoCorrection]
  /\ desk = [s \in Supervisors |-> Idle]
  /\ policy \in [addition : BOOLEAN, correction : BOOLEAN]
  /\ beside = {}

\* The steps of the requests in R, with the drafts in D, and the corrections in
\* C, with bounds: the clock stops at until, and whoever clocks when the log
\* holds most events.
TimesheetNext(R, D, C, until, most) ==
  \/ \E r \in R, d \in Days, draft \in D : AdditionCheck(r, d, draft)
  \/ \E r \in R, d \in Days, draft \in D \union {<<>>} : ReplacementCheck(r, d, draft)
  \/ \E r \in R : RequestSave(r) \/ Cancel(r)
  \/ \E r \in R, status \in {"approved", "rejected"} : Resolve(r, status)
  \/ \E c \in C, i \in DOMAIN log, k \in CorrectedKinds, t \in CorrectedTimes :
       CorrectionCheck(c, i, k, t)
  \/ \E c \in C : CorrectionSave(c)
  \/ \E s \in Supervisors, c \in C, status \in {"approved", "rejected"} :
       CorrectionRead(s, c, status)
  \/ \E s \in Supervisors :
       CorrectionResolve(s) \/ CorrectionApply(s) \/ CorrectionApplyFails(s)
  \/ \E k \in WorkKinds, t \in 0 .. now : Len(log) < most /\ Clock(k, t)
  \/ now < until /\ Tick

\* Any of them, with no bound on the log.
TimesheetSpec ==
  /\ \E start \in 0 .. MaxTime : TimesheetInit(start)
  /\ [][\E most \in Nat : TimesheetNext(Requests, Drafts, Corrections, MaxTime, most)]_timesheetVars

-----------------------------------------------------------------------------
(* What the timesheet promises.                                            *)

TimesheetTypes ==
  /\ now \in 0 .. MaxTime
  /\ \A i \in DOMAIN log : /\ log[i].kind \in WorkKinds \union {"correction"}
                          /\ log[i].corrects \in 0 .. i - 1
                          /\ log[i].kind = "correction" <=> log[i].corrects > 0
  /\ \A r \in Requests : Stored(r) =>
       reqs[r].status \in {"pending", "approved", "rejected", "cancelled"} /\ reqs[r].day \in Days
  /\ \A s \in Supervisors : desk[s].op \in {"idle", "resolve", "apply"}

EventsOf(r) == {i \in DOMAIN log : log[i].req = r /\ ~log[i].void}
Corrected(i) == \E j \in DOMAIN log : log[j].corrects = i
\* The request's events are in force as they were written.
Intact(r) == r \in Approved /\ \A i \in EventsOf(r) : ~Corrected(i)
WorkOf(r) == Only(reqs[r].intervals,
                   {i \in DOMAIN reqs[r].intervals : reqs[r].intervals[i].kind = "work"})

\* No event was moved by a correction of its own, and no two events have the
\* same time, but for those of one request: the order of the log is certain.
OrderIsCertain ==
  \A i, j \in DOMAIN log :
    /\ log[i].req \notin Corrections
    /\ (/\ i # j /\ log[i].kind # "correction" /\ log[j].kind # "correction"
        /\ log[i].at = log[j].at) => log[i].req = log[j].req /\ log[i].req # "live"

\* What an event other than an entry goes on from: what its request wrote just
\* before it, or the raw event that the clock found the latest.
GoesOnFrom(i) ==
  IF log[i].req # "live" THEN {i - 1}
  ELSE {j \in 1 .. i - 1 :
          /\ log[j].kind # "correction"
          /\ \A k \in 1 .. i - 1 : log[k].kind # "correction" => log[k].at <= log[j].at}

\* A replacement voided a shift whole or not at all. The clock goes on from the
\* latest event though it was voided, and the editor of a day shows a shift in
\* parts when another lies in its break, or when it lasts beyond the days read.
Voids(r, i) == \E v \in DOMAIN log : log[v].void /\ log[v].corrects = i /\ log[v].req = r
ShiftsAreWhole ==
  \A i \in DOMAIN log : log[i].kind \notin {"clock_in", "correction"} =>
    \A j \in GoesOnFrom(i), r \in Requests : Voids(r, i) <=> Voids(r, j)

PlainLog == OrderIsCertain /\ ShiftsAreWhole

\* A day up to the one on which the later of two intervals begins has events
\* that are no legal succession.
Flagged(x, y) ==
  \E d \in sequenceAnomalyDates(effectiveEvents(log, MaxTime)) :
    d * DayLen <= x.start \/ d * DayLen <= y.start

\* In a plain log the time of a shift is declared once: the work of two
\* approved requests in force overlaps only if requests were being handled at
\* the same moment, or the clock ended a break meanwhile. The checks and the
\* storing of a request are in different transactions, and an approval comes
\* any time later. Even then it is never silent: a day is anomalous from the
\* moment that the time is declared again, and a month with such a day is not
\* closed.
TimeIsDeclaredOnce ==
  PlainLog =>
    \A r, s \in Requests : (r # s /\ Intact(r) /\ Intact(s)) =>
      \A i \in DOMAIN WorkOf(r), j \in DOMAIN WorkOf(s) :
        intervalsOverlap(WorkOf(r)[i], WorkOf(s)[j]) =>
          beside # {} /\ Flagged(WorkOf(r)[i], WorkOf(s)[j])

\* Some correction between positions i and j of the log gave event e a kind
\* and a time again. Whether e was voided is not asked when a correction is
\* requested or approved, and applying it reads a voided event back.
RestoredBetween(e, i, j) ==
  \E k \in DOMAIN log : i < k /\ k < j /\ log[k].corrects = e /\ ~log[k].void

\* A correction before position i gave event e an earlier time than its own. A
\* day before that time may then hold e, and its void, which carries e's own
\* time, is beyond what the editor of that day reads.
MovedBack(e, i) ==
  \E k \in DOMAIN log :
    k < i /\ log[k].corrects = e /\ ~log[k].void /\ log[k].at < log[e].at

\* An event is voided only as a member of a whole day that was replaced: an
\* approved replacement voided exactly the events it was made against, any
\* other request voided none, and an event has one void at most, or another
\* for each time that a correction restored it or once it was moved back.
VoidsAreOfWholeDays ==
  LET voids(r)   == {i \in DOMAIN log : log[i].req = r /\ log[i].void}
      targets(r) == {log[i].corrects : i \in voids(r)}
  IN /\ \A i, j \in DOMAIN log :
          (i < j /\ log[i].void /\ log[j].void /\ log[i].corrects = log[j].corrects) =>
            RestoredBetween(log[i].corrects, i, j) \/ MovedBack(log[i].corrects, i)
     /\ \A r \in Requests :
          targets(r) = IF r \in Approved THEN Range(reqs[r].targets) ELSE {}

\* The work of an approved request in force is counted: its intervals lie
\* within the spans that the sheet adds up.
Counted(r) ==
  LET spans == workSpans(effectiveEvents(log, MaxTime), now)
  IN \A i \in DOMAIN WorkOf(r) : \E j \in DOMAIN spans :
       spans[j].start <= WorkOf(r)[i].start /\ WorkOf(r)[i].end <= spans[j].end
ApprovedTimeIsCounted == \A r \in Requests : Intact(r) => Counted(r)

\* The same, but for a log that is not plain and requests handled at once, or
\* while the clock ended a break.
ApprovedTimeIsCountedInAPlainLog ==
  (beside = {} /\ PlainLog) => ApprovedTimeIsCounted

\* An event is corrected at most once per correction request, and only by an
\* approved one, unless two supervisors decided it at the same moment.
CorrectionsFollowDecisions ==
  \A c \in Corrections :
    LET made == {i \in DOMAIN log : log[i].req = c}
    IN /\ Cardinality(made) <= 1
       /\ (made # {} /\ {c} \notin beside) => corrs[c].status = "approved"

\* The events read up to a time show none that was voided and not restored.
NoneVoided(until, moved) ==
  LET events == effectiveEvents(log, until)
  IN \A i \in DOMAIN log :
       (log[i].void /\ ~RestoredBetween(log[i].corrects, i, Len(log) + 1)) =>
         \/ moved /\ MovedBack(log[i].corrects, i)
         \/ \A k \in DOMAIN events : events[k].id # log[i].corrects

\* A voided event counts again only by a correction of its own, decided after
\* the day it belonged to was replaced; and the editor of a day offers it
\* again only then, or when it was moved back into that day.
VoidedStaysVoided ==
  NoneVoided(MaxTime, FALSE) /\ \A d \in Days : NoneVoided((d + 2) * DayLen, TRUE)

\* The log changes as the decisions say, and each takes effect once.
LogFollowsDecisions ==
  VoidsAreOfWholeDays /\ CorrectionsFollowDecisions /\ VoidedStaysVoided
=============================================================================
