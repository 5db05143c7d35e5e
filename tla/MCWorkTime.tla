----------------------------- MODULE MCWorkTime -----------------------------
(***************************************************************************)
(* Working time on small instances, in parts: part is chosen at the start  *)
(* and the steps of that part are taken, with bounds of their own; the     *)
(* variables of the others keep their initial values. The parts of the     *)
(* timesheet share its variables; leave and contracts have their own.      *)
(***************************************************************************)
EXTENDS Statements, WebTime, Leave, Contracts, TLC

CONSTANTS
  Parts,         \* the parts of this run
  r1, r2, c1, s1, s2, l1, l2, m1

VARIABLE part

-----------------------------------------------------------------------------
(* The timesheet. Four ticks a day; days 0 and 1; a month has two days.    *)

TwoRequests == {r1, r2}
OneCorrection == {c1}
TwoSupervisors == {s1, s2}
Work(a, b) == [kind |-> "work", start |-> a, end |-> b, startNextDay |-> FALSE, paid |-> FALSE]
Break(a, b) == [Work(a, b) EXCEPT !.kind = "break"]
\* A morning; work, a break and work, typed out of order; a night. And a break
\* that is paid.
UnpaidDrafts == {<<Work(0, 2)>>, <<Break(1, 2), Work(0, 1), Work(2, 3)>>, <<Work(3, 1)>>}
SomeDrafts ==
  UnpaidDrafts \union {<<Work(0, 1), [Break(1, 2) EXCEPT !.paid = TRUE], Work(2, 3)>>}
SomeKinds == {"clock_in", "clock_out"}
SomeTimes == {1, 13}

\* Two requests beside the live clock; one request and a corrected event; a
\* day clocked, replaced twice, and one of its events corrected meanwhile; one
\* request and the live clock across the end of the month, while a schedule is
\* published; two closings of the month at once; the editor; and the panel of
\* a day that is declared again.
Bounds ==
  LET B(requests, drafts, corrections, start, until, most) ==
        [requests |-> requests, drafts |-> drafts, corrections |-> corrections,
         start |-> start, until |-> until, most |-> most]
  IN [declarations |-> B(TwoRequests, UnpaidDrafts, {}, 6, 7, 2),
      corrections  |-> B({r1}, SomeDrafts, OneCorrection, 8, 8, 1),
      restored     |-> B(TwoRequests, UnpaidDrafts, OneCorrection, 2, 2, 2),
      moved        |-> B(TwoRequests, {}, OneCorrection, 13, 13, 1),
      sheet        |-> B({r1}, UnpaidDrafts, {}, 7, 9, 2),
      closing      |-> B({r1}, UnpaidDrafts, {}, 9, 9, 0),
      editor       |-> B({}, {}, {}, 7, 7, 0),
      panel        |-> B({r1}, UnpaidDrafts, {}, 4, 7, 2)]

Schedule(from, until, weekdays, start, end, active) ==
  [from |-> from, until |-> until, weekdays |-> weekdays, start |-> start, end |-> end,
   rest |-> 0, active |-> active]
Terms(mode, type, weekly, weekdays, agreement) ==
  [mode |-> mode, type |-> type, weekly |-> weekly, weekdays |-> weekdays,
   agreement |-> agreement]
SomeContracts == {Terms("scheduled", "full_time", 5, {1, 2}, FALSE),
                  Terms("weekly_flexible", "part_time", 3, {1, 2, 4}, TRUE)}
\* A schedule that begins before day 0, and half a day of leave.
SomePlans == {[schedules |-> <<Schedule(-3, -1, {1}, 0, 2, TRUE)>>, holidays |-> {},
               leaves |-> {[start |-> 1, end |-> 1, part |-> "morning"]}]}
SomeSchedules == {Schedule(0, 1, {1, 2}, 0, 3, TRUE)}
SomeEditTimes == {0, 1, 3}

-----------------------------------------------------------------------------
(* Leave and contracts.                                                    *)

Draft(type, start, end, p) == [type |-> type, start |-> start, end |-> end, part |-> p]
SomeLeaveDrafts ==
  {Draft("vacation", 0, 0, "full"), Draft("vacation", 1, 2, "full"),
   Draft("vacation", 2, 3, "full"), Draft("notice", 2, 2, "morning")}
\* No schedule; one in force after an archived one; one that works at
\* night, which the hooks let only a superuser store.
SomeLeavePlans ==
  {[schedules |-> <<>>, holidays |-> {}],
   [schedules |-> <<Schedule(2, -1, {1, 2, 3, 4, 6}, 0, 3, TRUE),
                    Schedule(0, 3, {1, 3}, 1, 3, FALSE)>>, holidays |-> {3}],
   [schedules |-> <<Schedule(0, -1, {1, 2, 6}, 3, 1, TRUE)>>, holidays |-> {3}]}
TwoLeaves == {l1, l2}
OneManager == {m1}
SomeBlackouts == {[type |-> "vacation", start |-> 1, end |-> 1]}

\* Three walks over a turn of the year: into a leap year that ends a century,
\* into another leap year, and into a year that ends a century and is none.
Sent(mode, type, weekly, hours, weekdays) ==
  [mode |-> mode, type |-> type, weekly |-> weekly, hours |-> hours, weekdays |-> weekdays,
   agreement |-> FALSE]
SomeStartDates == {<<1999, 12, 27>>, <<2023, 12, 25>>, <<2099, 12, 28>>}
SomeSentContracts == {Sent("weekly_flexible", "full_time", 2251, 0, {}),
                      Sent("", "intern", 0, 20, {1, 3, 7}),
                      Sent("weekly_flexible", "part_time", 1003, 0, {0, 6, 2})}

-----------------------------------------------------------------------------

AllParts == (DOMAIN Bounds \ {"panel"}) \union {"leave", "contract"}
OnlyPanel == {"panel"}

\* A part that does not move starts in one state.
Init ==
  /\ part \in Parts
  /\ TimesheetInit(IF part \in DOMAIN Bounds THEN Bounds[part].start ELSE 0)
  /\ part \notin {"declarations", "corrections", "sheet"} =>
       policy.correction /\ (policy.addition <=> part # "closing")
  /\ StatementInit /\ (part \notin {"sheet", "closing"} => contract.mode = "scheduled")
  /\ EditorInit /\ (part # "editor" => draftIntervals = <<>>)
  /\ LeaveInit
  /\ leavePlan.schedules # <<>> => leaveContract.mode = "scheduled"
  /\ part # "leave" => /\ leavePlan.schedules = <<>> /\ leaveContract.mode = "scheduled"
                       /\ \A y \in DOMAIN balance : balance[y] = 2
  /\ ContractInit
  /\ part # "contract" => date[1] = 2023 /\ terms.mode = "scheduled"

Next ==
  /\ UNCHANGED part
  /\ \/ /\ part \in DOMAIN Bounds \ {"editor"}
        /\ TimesheetNext(Bounds[part].requests, Bounds[part].drafts, Bounds[part].corrections,
                         Bounds[part].until, Bounds[part].most)
        /\ UNCHANGED <<statementVars, webTimeVars, leaveVars, contractVars>>
     \/ /\ part \in {"sheet", "closing"}
        /\ StatementNext(IF part = "closing" THEN Supervisors ELSE {},
                         IF part = "sheet" THEN NewSchedules ELSE {})
        /\ UNCHANGED <<timesheetVars, webTimeVars, leaveVars, contractVars>>
     \/ /\ part = "editor" /\ EditorNext
        /\ UNCHANGED <<timesheetVars, statementVars, leaveVars, contractVars>>
     \/ /\ part = "leave" /\ LeaveNext
        /\ UNCHANGED <<timesheetVars, statementVars, webTimeVars, contractVars>>
     \/ /\ part = "contract" /\ ContractNext
        /\ UNCHANGED <<timesheetVars, statementVars, webTimeVars, leaveVars>>

vars == <<part, timesheetVars, statementVars, webTimeVars, leaveVars, contractVars>>
Spec == Init /\ [][Next]_vars

-----------------------------------------------------------------------------
(* The properties: those of Timesheet, Statements, WebTime and Leave, and  *)
(* these, each in the part that can break it.                              *)

\* The records of the part that moves have the types its module states.
TypeOK ==
  CASE part \in DOMAIN Bounds -> TimesheetTypes /\ StatementTypes /\ EditorTypes
    [] part = "leave" -> LeaveTypes
    [] part = "contract" -> ContractTypes

\* WorkCalendar: a leave is charged for the days whose plan it takes away
\* (Leave), and a flexible week plans the contracted minutes to the last one
\* (Contracts).
PlansAddUp ==
  /\ part = "leave" => LeaveIsChargedByThePlan
  /\ part = "contract" => PlannedWeekIsContracted
=============================================================================
