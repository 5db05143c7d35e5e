---------------------------- MODULE WorkCalendar ----------------------------
(***************************************************************************)
(* The calendar of planned work, shared by the timesheet, the monthly      *)
(* statements and the leave requests: which day of the week a date is,     *)
(* which schedule applies on it, how many minutes it plans, and how many   *)
(* working days a leave takes. Days are numbered from day 0; a plan is     *)
(*   schedules: sequence of [from, until, weekdays, start, end, rest,      *)
(*              active], the latest first; until = Open has no end date    *)
(*   holidays:  set of days                                                *)
(* and a contract is [mode, type, weekly, weekdays, agreement].            *)
(***************************************************************************)
EXTENDS Integers, Sequences, FiniteSets, SequencesExt, FiniteSetsExt

CONSTANTS
  FirstWeekday,  \* the day of the week of day 0; Sunday is 0
  DayMinutes     \* length of a day in the unit of the schedules' times

Open == -1
Weekdays == 0 .. 6
weekday(d) == (FirstWeekday + d) % 7
fromMonday(w) == (w + 6) % 7
mondayKey(d) == d - fromMonday(weekday(d))

\* The day of the week of a date <<year, month, day>>: Zeller's congruence,
\* with January and February counted as months of the year before.
calendarWeekday(date) ==
  LET early   == date[2] < 3
      year    == IF early THEN date[1] - 1 ELSE date[1]
      month   == IF early THEN date[2] + 12 ELSE date[2]
      ofCentury == year % 100
      century == year \div 100
      zeller  == (date[3] + (13 * (month + 1)) \div 5 + ofCentury + ofCentury \div 4
                    + century \div 4 + 5 * century) % 7
  IN (zeller + 6) % 7

\* The calendar the runtime's date library counts with.
IsLeap(y) == y % 4 = 0 /\ (y % 100 # 0 \/ y % 400 = 0)
MonthLength(y, m) ==
  CASE m = 2 -> IF IsLeap(y) THEN 29 ELSE 28
    [] m \in {4, 6, 9, 11} -> 30
    [] OTHER -> 31
NextDate(date) ==
  CASE date[3] < MonthLength(date[1], date[2]) -> <<date[1], date[2], date[3] + 1>>
    [] date[3] = MonthLength(date[1], date[2]) /\ date[2] < 12 -> <<date[1], date[2] + 1, 1>>
    [] OTHER -> <<date[1] + 1, 1, 1>>

-----------------------------------------------------------------------------
(* Weekly flexible time.                                                   *)

\* The chosen weekdays; Monday to Friday when none is chosen.
flexibleWeekdays(contract) ==
  LET chosen == contract.weekdays \intersect Weekdays
  IN IF chosen = {} THEN 1 .. 5 ELSE chosen

\* An equal share of the week each, the remainder on the first of them from
\* Monday on.
flexibleMinutesForWeekday(contract, w) ==
  LET chosen == flexibleWeekdays(contract)
      n      == Cardinality(chosen)
      place  == Cardinality({v \in chosen : fromMonday(v) <= fromMonday(w)})
  IN IF w \notin chosen THEN 0
     ELSE contract.weekly \div n + (IF place <= contract.weekly % n THEN 1 ELSE 0)

-----------------------------------------------------------------------------
(* Schedules.                                                              *)

scheduleMinutes(s) ==
  LET end == IF s.end <= s.start THEN s.end + DayMinutes ELSE s.end
      net == end - s.start - s.rest
  IN IF net > 0 THEN net ELSE 0

recordDateInRange(r, d) == r.from <= d /\ (r.until = Open \/ d <= r.until)

\* An archived schedule keeps its past only if it has an end.
scheduleAppliesOnDate(s, d) ==
  recordDateInRange(s, d) /\ (s.active \/ s.until # Open)

Applicable(plan, d) == {i \in DOMAIN plan.schedules : scheduleAppliesOnDate(plan.schedules[i], d)}
OnWeekday(plan, d) ==
  {i \in Applicable(plan, d) : weekday(d) \in plan.schedules[i].weekdays}

\* The minutes of work planned on a day, before holidays and absences.
plannedMinutes(plan, contract, d) ==
  IF contract.mode = "weekly_flexible"
  THEN flexibleMinutesForWeekday(contract, weekday(d))
  ELSE IF OnWeekday(plan, d) = {} THEN 0
  ELSE scheduleMinutes(plan.schedules[Min(OnWeekday(plan, d))])

\* A holiday or a whole day of absence plans nothing, half a day plans half.
adjustedMinutes(plan, leaves, d, planned) ==
  LET absent == {l \in leaves : l.start <= d /\ d <= l.end}
  IN CASE d \in plan.holidays \/ (\E l \in absent : l.part = "full") -> 0
       [] d \notin plan.holidays /\ absent # {} /\ (\A l \in absent : l.part # "full") ->
            (planned + 1) \div 2
       [] d \notin plan.holidays /\ absent = {} -> planned

-----------------------------------------------------------------------------
(* Days of leave, counted in halves.                                       *)

InHalves(days, part) == IF days = 1 /\ part # "full" THEN 1 ELSE 2 * days

\* Mistake: Monday to Friday, whatever the schedule.
isOfficeDay(plan, contract, d) == weekday(d) \notin {0, 6}

\* A day counts when a schedule in force works on it; without any schedule in
\* force, Monday to Friday.
isWorkingDay(plan, contract, d) ==
  IF contract.mode = "weekly_flexible"
  THEN weekday(d) \in flexibleWeekdays(contract)
  ELSE OnWeekday(plan, d) # {} \/ (Applicable(plan, d) = {} /\ weekday(d) \notin {0, 6})

\* The days the server charges.
requestedDaysFor(plan, contract, start, end, part) ==
  InHalves(Cardinality({d \in start .. end :
                          d \notin plan.holidays /\ isWorkingDay(plan, contract, d)}), part)

\* The form of the web: the first active schedule in force decides alone.
countRequestedDays(plan, contract, start, end, part) ==
  LET active(d) == {i \in DOMAIN plan.schedules :
                      plan.schedules[i].active /\ recordDateInRange(plan.schedules[i], d)}
      works(d) ==
        IF contract.mode = "weekly_flexible"
        THEN weekday(d) \in contract.weekdays
        ELSE IF active(d) # {}
        THEN weekday(d) \in plan.schedules[Min(active(d))].weekdays
        ELSE weekday(d) \notin {0, 6}
  IN InHalves(Cardinality({d \in start .. end : d \notin plan.holidays /\ works(d)}), part)
=============================================================================
