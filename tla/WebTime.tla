------------------------------ MODULE WebTime ------------------------------
(***************************************************************************)
(* The web application's own view of time: the editor of a day, with the   *)
(* rules it checks before it sends a draft, and the panel of today, which  *)
(* works out the state and the time worked from the raw events of the day. *)
(* Both repeat in the browser what the server decides with normalize-      *)
(* Intervals and with effectiveEvents.                                     *)
(***************************************************************************)
EXTENDS Timesheet

CONSTANTS
  EditTimes,     \* the times of day that are typed
  MaxIntervals   \* bound: intervals in the editor

\* The form offers the times of one day.
ASSUME WebTimeAssumption == EditTimes \subseteq 0 .. DayLen - 1 /\ MaxIntervals \in Nat

VARIABLES draftIntervals

webTimeVars == <<draftIntervals>>

Interval(k, a, b, nextDay) ==
  [kind |-> k, start |-> a, end |-> b, startNextDay |-> nextDay, paid |-> FALSE]

\* openEditor starts from one interval without times, which nothing accepts
\* (none here), openCorrectionEditor from what the day holds.
EditorInit ==
  \/ draftIntervals = <<>>
  \/ \E a, b \in EditTimes : draftIntervals = <<Interval("work", a, b, FALSE)>>

\* A new interval begins where the last one ends.
addInterval(k, start, end) ==
  LET previous == Last(draftIntervals)
  IN /\ Len(draftIntervals) < MaxIntervals
     /\ draftIntervals' = Append(draftIntervals,
          IF draftIntervals = <<>> THEN Interval(k, start, end, FALSE)
          ELSE Interval(k, previous.end, end, previous.startNextDay))

removeInterval(i) ==
  /\ i \in DOMAIN draftIntervals
  /\ draftIntervals' = RemoveAt(draftIntervals, i)

setIntervalKind(i, k) ==
  /\ i \in DOMAIN draftIntervals
  /\ draftIntervals' = [draftIntervals EXCEPT ![i].kind = k]

\* The end of an interval that was joined to this one moves with its start,
\* and the start of the next one with its end.
setIntervalStart(i, t) ==
  /\ i \in DOMAIN draftIntervals
  /\ draftIntervals' =
       [j \in DOMAIN draftIntervals |->
          IF j = i THEN [draftIntervals[j] EXCEPT !.start = t]
          ELSE IF j = i - 1 /\ draftIntervals[j].end = draftIntervals[i].start
          THEN [draftIntervals[j] EXCEPT !.end = t]
          ELSE draftIntervals[j]]

setIntervalEnd(i, t) ==
  /\ i \in DOMAIN draftIntervals
  /\ draftIntervals' =
       [j \in DOMAIN draftIntervals |->
          IF j = i THEN [draftIntervals[j] EXCEPT !.end = t]
          ELSE IF j = i + 1 /\ draftIntervals[j].start = draftIntervals[i].end
          THEN [draftIntervals[j] EXCEPT !.start = t]
          ELSE draftIntervals[j]]

setStartNextDay(i, b) ==
  /\ i \in DOMAIN draftIntervals
  /\ draftIntervals' = [draftIntervals EXCEPT ![i].startNextDay = b]

EditorNext ==
  \/ \E k \in {"work", "break"}, a, b \in EditTimes : addInterval(k, a, b)
  \/ \E i \in 1 .. MaxIntervals :
       \/ removeInterval(i)
       \/ \E k \in {"work", "break"} : setIntervalKind(i, k)
       \/ \E t \in EditTimes : setIntervalStart(i, t) \/ setIntervalEnd(i, t)
       \/ \E b \in BOOLEAN : setStartNextDay(i, b)

EditorSpec == EditorInit /\ [][EditorNext]_webTimeVars

\* From when to when an interval lasts, in ticks of its day.
offset(b) == IF b THEN DayLen ELSE 0
absoluteStart(x) == x.start + offset(x.startNextDay)
absoluteEnd(x) == x.end + offset(x.startNextDay) + offset(x.end < x.start)

\* The intervals in order, each beside the time it begins.
inOrder(draft) ==
  StableByTime([i \in DOMAIN draft |->
                  [kind |-> draft[i].kind, start |-> draft[i].start, end |-> draft[i].end,
                   startNextDay |-> draft[i].startNextDay, at |-> absoluteStart(draft[i])]])
workedTime(seq) ==
  FoldLeft(LAMBDA sum, x : sum + (IF x.kind = "work" THEN absoluteEnd(x) - absoluteStart(x) ELSE 0),
           0, seq)

\* What the editor asks of a draft before it can be sent.
manualTimeDraftAccepted(draft) ==
  LET seq == inOrder(draft)
      n   == Len(seq)
      joined(i) == /\ i \in 2 .. n - 1
                   /\ seq[i - 1].kind = "work" /\ seq[i + 1].kind = "work"
                   /\ absoluteEnd(seq[i - 1]) = absoluteStart(seq[i])
                   /\ absoluteEnd(seq[i]) = absoluteStart(seq[i + 1])
  IN /\ n > 0
     /\ \A i \in 1 .. n :
          /\ seq[i].start # seq[i].end
          /\ ~(seq[i].startNextDay /\ seq[i].end < seq[i].start)
          /\ absoluteEnd(seq[i]) - absoluteStart(seq[i]) <= MaxInterval
          /\ i > 1 => absoluteEnd(seq[i - 1]) <= absoluteStart(seq[i])
          /\ seq[i].kind = "break" => joined(i)
     /\ seq[1].kind = "work" /\ seq[n].kind = "work"
     /\ workedTime(seq) <= DayLen

-----------------------------------------------------------------------------
(* The panel of today.                                                     *)

\* loadToday reads the raw events from midnight on, corrections included.
loadToday == Only(Indices(log), {i \in DOMAIN log : log[i].at >= Today * DayLen})

\* The latest correction that names a kind decides for its target; a void
\* names none. No event is added or left out.
applyCorrections(loaded) ==
  LET corrections(i) == Only(loaded, {k \in DOMAIN loaded :
                               log[loaded[k]].corrects = i /\ log[loaded[k]].to # "none"})
      events == Only(loaded, {k \in DOMAIN loaded : log[loaded[k]].kind # "correction"})
  IN [k \in DOMAIN events |->
        LET i == events[k]
        IN IF corrections(i) = <<>> THEN AsRead(log, i)
           ELSE LET c == Last(corrections(i))
                IN [id |-> i, kind |-> log[c].to, at |-> log[c].at, paid |-> log[i].paid]]

\* The time worked by the panel's own rules.
workedStep(s, e) ==
  IF e.kind = "clock_in" \/ (e.kind = "break_end" /\ ~e.paid)
  THEN [since |-> IF s.since < 0 THEN e.at ELSE s.since, total |-> s.total]
  ELSE IF (e.kind \in {"break_start", "break_end"} /\ e.paid) \/ s.since < 0 THEN s
  ELSE [since |-> -1, total |-> s.total + (IF e.at > s.since THEN e.at - s.since ELSE 0)]
workedSeen(events) == FoldLeft(workedStep, [since |-> -1, total |-> 0], events)

calculateWorked(loaded) ==
  LET end == workedSeen(StableByTime(applyCorrections(loaded)))
  IN IF end.since < 0 THEN end.total
     ELSE end.total + (IF now > end.since THEN now - end.since ELSE 0)

-----------------------------------------------------------------------------

EditorTypes ==
  /\ Len(draftIntervals) <= MaxIntervals
  /\ \A i \in DOMAIN draftIntervals :
       draftIntervals[i].start \in Nat /\ draftIntervals[i].end \in Nat

\* The editor lets a draft go exactly when the server takes it for a day that
\* is over: the two copies of the rules agree on every draft a person can
\* build, including intervals typed out of order, joined breaks and intervals
\* of the day after.
EditorAgreesWithServer ==
  now >= 2 * DayLen - 1 =>
    (manualTimeDraftAccepted(draftIntervals)
       <=> normalizeIntervals(Placed(draftIntervals, 0), 0))

\* The panel shows as worked today what the server counts.
PanelIsRight == calculateWorked(loadToday) = TimeIn(workSpans(effectiveEvents(log, now), now))

\* The events are of today, a legal day, and their order is certain; none is
\* corrected to a time that the server does not read yet, and no correction made
\* a break that is paid at one end only.
ALegalToday ==
  LET events == effectiveEvents(log, now)
  IN /\ \A i \in DOMAIN log : Today * DayLen <= log[i].at /\ log[i].at <= now + DayLen
     /\ sequenceAnomalyDates(events) = {}
     /\ \A i \in 2 .. Len(events) :
          /\ events[i - 1].at < events[i].at
          /\ events[i].kind = "break_end" => (events[i - 1].paid <=> events[i].paid)

\* On a legal day the panel is right, an event that was corrected included:
\* its time is not counted beside the time that replaces it.
PanelCountsWhatServerCounts == ALegalToday => PanelIsRight

\* Both copies of the rules agree with the server's: the editor's always, the
\* panel's as long as no event of today was voided.
WebAgreesWithServer ==
  /\ EditorAgreesWithServer
  /\ (\A i \in DOMAIN log : ~log[i].void) => PanelCountsWhatServerCounts
=============================================================================
