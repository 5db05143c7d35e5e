----------------------------- MODULE Contracts -----------------------------
(***************************************************************************)
(* The contract of a person as the users hooks store it, whatever the form *)
(* or an integration sends, and the calendar it is spread over: the weeks  *)
(* that the timesheet and the monthly statement count with. The behaviour  *)
(* walks the calendar day by day.                                          *)
(***************************************************************************)
EXTENDS WorkCalendar

CONSTANTS
  StartDates,    \* dates that fall on FirstWeekday, day 0 of a walk
  WalkDays,      \* bound: days walked
  SentContracts  \* what is sent: [mode, type, weekly, hours, weekdays, agreement]

IsDate(x) ==
  x \in (Nat \ {0}) \X (1 .. 12) \X (1 .. 31) /\ x[3] <= MonthLength(x[1], x[2])

ASSUME ContractData ==
  /\ FirstWeekday \in Weekdays /\ WalkDays \in Nat
  /\ \A x \in StartDates : IsDate(x) /\ calendarWeekday(x) = FirstWeekday
  /\ \A x \in SentContracts : x.weekly \in Nat /\ x.hours \in Nat /\ x.weekdays \subseteq Int

VARIABLES
  date,          \* the date <<year, month, day>>
  day,           \* its number
  terms          \* the contract stored

contractVars == <<date, day, terms>>

\* Mistake: numbers that are no weekday are kept.
weekdaysAsSent(sent) == IF sent = {} THEN 1 .. 5 ELSE sent

\* What is sent may name no weekday, or numbers that are none.
normalizedWeekdays(sent) ==
  IF sent \intersect Weekdays = {} THEN 1 .. 5 ELSE sent \intersect Weekdays
scheduleMode(sent) == IF sent = "weekly_flexible" THEN sent ELSE "scheduled"

ContractCreated(sent) ==
  [mode |-> scheduleMode(sent.mode),
   type |-> IF sent.type \in {"full_time", "part_time"} THEN sent.type ELSE "unknown",
   weekly |-> IF sent.weekly # 0 THEN sent.weekly ELSE 60 * sent.hours,
   weekdays |-> normalizedWeekdays(sent.weekdays), agreement |-> sent.agreement]

\* Nobody changes a contract of their own.
ContractUpdated(sameUser, sent) ==
  IF sameUser THEN terms
  ELSE [mode |-> scheduleMode(sent.mode), type |-> sent.type, weekly |-> sent.weekly,
        weekdays |-> normalizedWeekdays(sent.weekdays), agreement |-> sent.agreement]

ContractUpdate(sameUser, sent) ==
  /\ sent.type \in {"full_time", "part_time", "unknown"}
  /\ terms' = ContractUpdated(sameUser, sent)
  /\ UNCHANGED <<date, day>>

NextDay ==
  /\ day < WalkDays
  /\ date' = NextDate(date) /\ day' = day + 1
  /\ UNCHANGED terms

ContractInit ==
  /\ date \in StartDates /\ day = 0
  /\ \E sent \in SentContracts : terms = ContractCreated(sent)

ContractNext ==
  \/ NextDay
  \/ \E sameUser \in BOOLEAN, sent \in SentContracts : ContractUpdate(sameUser, sent)

ContractSpec == ContractInit /\ [][ContractNext]_contractVars

-----------------------------------------------------------------------------

ContractTypes ==
  /\ date[2] \in 1 .. 12 /\ date[3] \in 1 .. MonthLength(date[1], date[2])
  /\ day \in 0 .. WalkDays
  /\ terms.mode \in {"scheduled", "weekly_flexible"}
  /\ terms.weekdays \subseteq Weekdays /\ terms.weekly \in Nat

\* The weeks of a flexible contract plan its weekly minutes to the last one,
\* on the weekdays stored and no other, whatever weekdays were sent; the two
\* ways of telling the weekday of a date agree, across the ends of months,
\* leap years and centuries; and the week that a day is counted in begins on
\* a Monday and holds the day.
PlannedWeekIsContracted ==
  LET week == mondayKey(day) .. mondayKey(day) + 6
      minutes == [d \in week |-> flexibleMinutesForWeekday(terms, weekday(d))]
  IN /\ calendarWeekday(date) = weekday(day)
     /\ day \in week /\ weekday(mondayKey(day)) = 1
     /\ MapThenSumSet(LAMBDA d : minutes[d], week) = terms.weekly
     /\ \A d \in week : minutes[d] > 0 => weekday(d) \in terms.weekdays
     /\ \A d, e \in week : {weekday(d), weekday(e)} \subseteq terms.weekdays =>
          minutes[d] - minutes[e] <= 1
=============================================================================
