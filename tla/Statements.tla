----------------------------- MODULE Statements -----------------------------
(***************************************************************************)
(* The timesheet as it is shown and the monthly statement as it is closed: *)
(* two handlers that add up the same log against the same calendar, the    *)
(* versions of a statement, their receipts, and the schedules both plan    *)
(* with. The log is changed by the actions of Timesheet.                   *)
(***************************************************************************)
EXTENDS Timesheet, WorkCalendar

CONSTANTS
  MonthLen,      \* days in a month
  Contracts,     \* the employee's contract
  Plans,         \* the calendar when the behaviour starts
  NewSchedules,  \* schedules that may be published
  MaxSchedules,  \* bound: schedules of the employee
  MaxStatements  \* bound: statements closed

ContractRecord ==
  [mode : {"scheduled", "weekly_flexible"}, type : STRING, weekly : Nat, weekdays : SUBSET Int,
   agreement : BOOLEAN]
ScheduleRecord ==
  [from : Int, until : Int, weekdays : SUBSET Int, start : Int, end : Int, rest : Int,
   active : BOOLEAN]
LeaveRecord == [start : Int, end : Int, part : STRING]

\* The records have the fields their collections have.
ASSUME StatementAssumption ==
  /\ MonthLen \in Nat \ {0} /\ FirstWeekday \in Weekdays /\ DayMinutes \in Nat
  /\ Contracts \subseteq ContractRecord
  /\ Plans \subseteq [schedules : Seq(ScheduleRecord), holidays : SUBSET Int,
                      leaves : SUBSET LeaveRecord]
  /\ NewSchedules \subseteq ScheduleRecord

VARIABLES
  contract,    \* the employee's contract
  plan,        \* schedules, holidays and approved leaves
  statements,  \* monthly_time_statements in order of creation
  closing,     \* what each closing request holds between its steps
  receipts,    \* monthly_statement_acknowledgements in order of creation
  receiving    \* statements whose receipt was not found by a request in hand

statementVars == <<contract, plan, statements, closing, receipts, receiving>>

Periods == 0 .. LastDay \div MonthLen
DaysOf(p) == p * MonthLen .. (p + 1) * MonthLen - 1
StartOf(p) == p * MonthLen * DayLen
EndOf(p) == StartOf(p + 1)
NotClosing == [step |-> "idle"]

-----------------------------------------------------------------------------
(* Adding up.                                                              *)

AtLeastZero(n) == IF n > 0 THEN n ELSE 0
Earlier(a, b) == IF a < b THEN a ELSE b
Later(a, b) == IF a > b THEN a ELSE b

\* The minutes of the spans that lie between two times.
workedBetween(spans, from, until) ==
  SumFunction([i \in DOMAIN spans |->
    AtLeastZero(Earlier(spans[i].end, until) - Later(spans[i].start, from))])

\* Of the day's work, what the week's quota still leaves.
withinQuota(spans, d, worked) ==
  Earlier(worked,
          AtLeastZero(contract.weekly
                        - workedBetween(spans, mondayKey(d) * DayLen, d * DayLen)))

PlannedOn(d) == adjustedMinutes(plan, plan.leaves, d, plannedMinutes(plan, contract, d))

\* What a sheet up to end is made of: the log, read to a day beyond it. A shift
\* still open counts until now or the end of the sheet.
sheetRead(end) ==
  LET events == effectiveEvents(log, end + DayLen - 1)
  IN [spans |-> workSpans(events, Earlier(now, end)),
      editable |-> editableDays(events), anomalies |-> sequenceAnomalyDates(events)]

\* GET timesheet: the days from..to.
timesheet(from, to) ==
  LET sheet == sheetRead((to + 1) * DayLen)
      day(d) ==
        LET worked  == workedBetween(sheet.spans, d * DayLen, (d + 1) * DayLen)
            planned == PlannedOn(d)
            editing == IF d \in DOMAIN sheet.editable THEN sheet.editable[d] ELSE EmptyDay
        IN [worked |-> worked, planned |-> planned,
            overtime |-> IF contract.mode = "weekly_flexible"
                         THEN worked - withinQuota(sheet.spans, d, worked)
                         ELSE AtLeastZero(worked - planned),
            anomaly |-> d \in sheet.anomalies,
            canAddManualTime |->
              d <= Today /\ editing.ids = <<>> /\ ~hasApprovedTimeHistory(d),
            canCorrectTime |->
              d <= Today /\ IF editing.ids = <<>> THEN hasApprovedTimeHistory(d)
                            ELSE d < Today \/ editing.closed]
  IN [d \in from .. to |-> day(d)]

\* Mistake: the week's quota of a flexible contract is forgotten.
OrdinaryByDay(spans, d, worked) == Earlier(worked, PlannedOn(d))

\* Of the day's work, what is ordinary.
ordinaryMinutes(spans, d, worked) ==
  IF contract.mode = "weekly_flexible" THEN withinQuota(spans, d, worked)
  ELSE Earlier(worked, PlannedOn(d))

MonthIsOver(p) == p < Today \div MonthLen

\* Whether a month may be closed: it is over, nothing in it waits for approval
\* or is anomalous, it was planned, and a part-time contract foresees the
\* complementary hours worked.
mayBeClosed(p, events, excess) ==
  /\ MonthIsOver(p)
  /\ contract.type \in {"full_time", "part_time"} /\ contract.weekly > 0
  /\ \A r \in Pending : reqs[r].day \notin DaysOf(p)
  /\ contract.mode = "weekly_flexible" \/ \E d \in DaysOf(p) : OnWeekday(plan, d) # {}
  /\ DaysOf(p) \intersect sequenceAnomalyDates(events) = {}
  /\ contract.type = "part_time" => (excess = 0 \/ contract.agreement)

\* The record of a month.
monthlyStatementData(p) ==
  LET events == effectiveEvents(log, EndOf(p))
      spans  == workSpans(events, EndOf(p))
      worked == [d \in DaysOf(p) |-> workedBetween(spans, d * DayLen, (d + 1) * DayLen)]
      ordinary == [d \in DaysOf(p) |-> ordinaryMinutes(spans, d, worked[d])]
      excess == SumFunction([d \in DaysOf(p) |-> worked[d] - ordinary[d]])
      partTime == contract.type = "part_time"
  IN [closable |-> mayBeClosed(p, events, excess),
      total |-> SumFunction(worked),
      contracted |-> SumFunction([d \in DaysOf(p) |-> PlannedOn(d)]),
      ordinary |-> SumFunction(ordinary),
      complementary |-> IF partTime THEN excess ELSE 0,
      overtime |-> IF partTime THEN 0 ELSE excess]

-----------------------------------------------------------------------------
(* Closing a month and acknowledging it.                                   *)

VersionsOf(p) == {i \in DOMAIN statements : statements[i].period = p}

LatestOf(p) ==  \* the position of the highest version, 0 without one
  LET its == VersionsOf(p)
  IN IF its = {} THEN 0
     ELSE CHOOSE i \in its : \A j \in its : statements[j].version <= statements[i].version

\* POST monthly-statements/close, what it reads first: the month's record.
CloseRead(s, p) ==
  LET data == monthlyStatementData(p)
  IN /\ closing[s].step = "idle" /\ Len(statements) < MaxStatements
     /\ data.closable
     /\ closing' = [closing EXCEPT ![s] = [step |-> "read", period |-> p, data |-> data]]
     /\ UNCHANGED <<contract, plan, statements, receipts, receiving>>

\* Then the version before, which it continues.
CloseNumber(s) ==
  LET previous == LatestOf(closing[s].period)
  IN /\ closing[s].step = "read"
     /\ closing' = [closing EXCEPT ![s] =
          [step |-> "numbered", period |-> closing[s].period, data |-> closing[s].data,
           version |-> IF previous = 0 THEN 1 ELSE statements[previous].version + 1,
           previous |-> previous]]
     /\ UNCHANGED <<contract, plan, statements, receipts, receiving>>

\* Mistake: no index keeps a version from being there twice.
CloseSaveTwice(s) ==
  /\ closing[s].step = "numbered"
  /\ statements' = Append(statements, [f \in {"period", "version", "previous", "data"} |->
                                         closing[s][f]])
  /\ closing' = [closing EXCEPT ![s] = NotClosing]
  /\ UNCHANGED <<contract, plan, receipts, receiving>>

\* Then it saves; a version that exists already is refused by the index.
CloseSave(s) ==
  LET c == closing[s]
      taken == \E i \in DOMAIN statements :
                 statements[i].period = c.period /\ statements[i].version = c.version
  IN /\ c.step = "numbered"
     /\ statements' = IF taken THEN statements
                      ELSE Append(statements, [period |-> c.period, version |-> c.version,
                                               previous |-> c.previous, data |-> c.data])
     /\ closing' = [closing EXCEPT ![s] = NotClosing]
     /\ UNCHANGED <<contract, plan, receipts, receiving>>

\* POST .../acknowledge by the employee: a receipt that exists is returned.
AcknowledgeRead(i) ==
  /\ i \in DOMAIN statements
  /\ i \notin Range(receipts)
  /\ receiving[i] < 2
  /\ receiving' = [receiving EXCEPT ![i] = @ + 1]
  /\ UNCHANGED <<contract, plan, statements, closing, receipts>>

\* A second one for the same statement and person is refused by the index.
AcknowledgeSave(i) ==
  /\ receiving[i] > 0
  /\ receiving' = [receiving EXCEPT ![i] = @ - 1]
  /\ receipts' = IF i \in Range(receipts) THEN receipts ELSE Append(receipts, i)
  /\ UNCHANGED <<contract, plan, statements, closing>>

-----------------------------------------------------------------------------
(* Schedules.                                                              *)

\* A schedule created alone or in bulk takes its place by -validFrom,-created;
\* one that does not start before it ends is refused.
SchedulePublish(s) ==
  LET old    == plan.schedules
      before == {i \in DOMAIN old : old[i].from > s.from}
  IN /\ Len(old) < MaxSchedules
     /\ s.start < s.end /\ s.weekdays # {}
     /\ s.until # Open => s.from <= s.until
     /\ plan' = [plan EXCEPT !.schedules =
                   Only(old, before) \o <<s>> \o Only(old, DOMAIN old \ before)]
     /\ UNCHANGED <<contract, statements, closing, receipts, receiving>>

\* Archived or restored from the list.
ScheduleUpdate(i, active) ==
  /\ i \in DOMAIN plan.schedules
  /\ plan' = [plan EXCEPT !.schedules = [plan.schedules EXCEPT ![i].active = active]]
  /\ UNCHANGED <<contract, statements, closing, receipts, receiving>>

StatementInit ==
  /\ contract \in Contracts
  /\ plan \in Plans
  /\ statements = <<>>
  /\ closing = [s \in Supervisors |-> NotClosing]
  /\ receipts = <<>>
  /\ receiving = [i \in 1 .. MaxStatements |-> 0]

\* The closing requests of S and the schedules in New.
StatementNext(S, New) ==
  \/ \E s \in S, p \in Periods : CloseRead(s, p)
  \/ \E s \in S : CloseNumber(s) \/ CloseSave(s)
  \/ \E i \in 1 .. MaxStatements : AcknowledgeRead(i) \/ AcknowledgeSave(i)
  \/ \E s \in New : SchedulePublish(s)
  \/ \E i \in DOMAIN plan.schedules, active \in BOOLEAN : New # {} /\ ScheduleUpdate(i, active)

\* Whatever happens to the log and the clock meanwhile.
StatementSpec == StatementInit /\ [][StatementNext(Supervisors, NewSchedules)]_statementVars

-----------------------------------------------------------------------------

StatementTypes ==
  /\ \A i \in DOMAIN statements :
       statements[i].period \in Periods /\ statements[i].previous \in 0 .. i - 1
  /\ Range(receipts) \subseteq DOMAIN statements
  /\ Len(plan.schedules) <= MaxSchedules
  /\ \A s \in Supervisors : closing[s].step \in {"idle", "read", "numbered"}

\* The sheet of the days D shows what the record of their month holds.
Shows(sheet, D, data) ==
  LET total(f) == SumFunction([d \in D |-> sheet[d][f]])
  IN /\ data.total = total("worked") /\ data.contracted = total("planned")
     /\ data.complementary + data.overtime = total("overtime")
     /\ data.ordinary + data.complementary + data.overtime = data.total
     /\ \A d \in D : ~sheet[d].anomaly

\* No correction took an event from one side of a time to the other. A statement
\* reads the log to a day beyond its month and the sheet to two, corrections by
\* the time they give: one that crosses the limit between them is applied in
\* only one of the two.
NoneCrosses(limit) ==
  \A j \in DOMAIN log : log[j].kind = "correction" =>
    (log[j].at <= limit <=> log[log[j].corrects].at <= limit)

\* No shift of the month is open still where its statement stops reading. The
\* statement counts such a shift to the end of the month, the sheet not at all
\* when an entry it reads later begins another.
NoneLeftOpen(p) == spansSeen(effectiveEvents(log, EndOf(p))).active \notin 0 .. EndOf(p) - 1

\* A month that is over and can be closed holds what its sheet shows: the
\* same minutes worked, planned and beyond the plan, and no anomalous day.
\* The handlers read different stretches of the log and end an open shift at
\* different times.
ClosedMonthMatchesSheet ==
  \A p \in Periods :
    LET data  == monthlyStatementData(p)
        sheet == timesheet(p * MonthLen, (p + 1) * MonthLen - 1)
    IN (MonthIsOver(p) /\ NoneCrosses(EndOf(p) + DayLen) /\ NoneLeftOpen(p) /\ data.closable) =>
         Shows(sheet, DaysOf(p), data)

\* The versions of a month are 1, 2, 3... in order of creation, each
\* continues the one before it, and each has one receipt at most, whoever
\* closes and acknowledges at the same moment.
StatementsFormAChain ==
  /\ \A i \in DOMAIN statements :
       LET s      == statements[i]
           before == {j \in VersionsOf(s.period) : j < i}
       IN IF before = {} THEN s.version = 1 /\ s.previous = 0
          ELSE /\ s.previous \in before /\ \A j \in before : j <= s.previous
               /\ s.version = statements[s.previous].version + 1
  /\ \A i, j \in DOMAIN receipts : receipts[i] = receipts[j] => i = j
=============================================================================
