------------------------------- MODULE Leave -------------------------------
(***************************************************************************)
(* The leave requests of one employee: what a request is charged, the      *)
(* checks of its creation, its cancellation and resolution, and the        *)
(* balance it is drawn from. A request is checked by a hook that reads     *)
(* outside a transaction and saved afterwards; the hook of an update reads *)
(* the record, and its save writes the columns it changed. Days of leave   *)
(* are counted in halves.                                                  *)
(***************************************************************************)
EXTENDS WorkCalendar

CONSTANTS
  Leaves,        \* leave_requests that may be made
  LeaveDrafts,   \* what may be asked for: [type, start, end, part]
  Reviewers,     \* update requests of managers handled at once
  YearLen,       \* days in a year
  LeavePlans,    \* schedules and holidays
  LeaveContracts, \* the employee's contract
  Blackouts,     \* leave_blackout_periods: [type, start, end], "any" for all types
  Entitlements   \* halves of a day a balance may grant

VARIABLES
  leavePlan, leaveContract,
  leaves,        \* leave_requests and the handlers creating them
  balance,       \* leave_balances of the vacation: year -> halves, or NoBalance
  leaveDesk,     \* what each update request holds between its two steps
  notices,       \* notifications created
  leaveBeside    \* ghost: pairs handled at once

leaveVars == <<leavePlan, leaveContract, leaves, balance, leaveDesk, notices, leaveBeside>>

NoBalance == -1
NoLeave == [stage |-> "none"]
AtRest == [op |-> "idle"]
YearOf(d) == d \div YearLen
Years == {YearOf(x.start) : x \in LeaveDrafts}

\* Two types of leave: the vacation deducts from a balance and needs approval,
\* as seeded; a notice does neither, as a company may configure a type.
deductsBalance(type) == type = "vacation"
requiresApproval(type) == type # "notice"

LeaveStored(l) == leaves[l].stage = "stored"
Standing(l) == LeaveStored(l) /\ leaves[l].status \in {"pending", "approved"}
Meets(x, y) == x.start <= y.end /\ x.end >= y.start

\* What is approved is drawn from the year in which it starts.
UsedIn(year) ==
  LET its == {l \in Leaves : /\ LeaveStored(l) /\ leaves[l].status = "approved"
                             /\ deductsBalance(leaves[l].type)
                             /\ YearOf(leaves[l].start) = year}
  IN SumFunction([l \in its |-> leaves[l].days])

-----------------------------------------------------------------------------
(* Creation.                                                               *)

InHandBeside(l) ==
  {{l, m} : m \in {m \in Leaves \ {l} : leaves[m].stage = "checked"}}
    \union {{l, leaveDesk[s].leave} : s \in {s \in DOMAIN leaveDesk : leaveDesk[s].op # "idle"}}

\* Mistake: what was used of the balance already is forgotten.
FitsEntitlement(x, days) ==
  LET limit == balance[YearOf(x.start)]
  IN (deductsBalance(x.type) /\ limit # NoBalance) => days <= limit

\* The days fit what is left of the balance of the year, if there is one.
FitsBalance(x, days) ==
  LET limit == balance[YearOf(x.start)]
  IN (deductsBalance(x.type) /\ limit # NoBalance) => days <= limit - UsedIn(YearOf(x.start))

\* Mistake: only approved leaves stand in the way of another.
OverlappingApproved(x) ==
  {m \in Leaves : LeaveStored(m) /\ leaves[m].status = "approved" /\ Meets(leaves[m], x)}

OverlappingLeaves(x) == {m \in Leaves : Standing(m) /\ Meets(leaves[m], x)}

\* Create request: by the employee, by a manager or by an administrator, who
\* need not mind the blocked periods and whose assignment is approved.
LeaveCheck(l, by, x) ==
  LET days == requestedDaysFor(leavePlan, leaveContract, x.start, x.end, x.part)
  IN /\ leaves[l].stage = "none"
     /\ x.start <= x.end /\ days > 0
     /\ by # "admin" => \A b \in Blackouts : ~(b.type \in {"any", x.type} /\ Meets(b, x))
     /\ FitsBalance(x, days) /\ OverlappingLeaves(x) = {}
     /\ leaves' = [leaves EXCEPT ![l] =
          [stage |-> "checked", type |-> x.type, start |-> x.start, end |-> x.end,
           part |-> x.part, days |-> days,
           auto |-> by # "owner" \/ ~requiresApproval(x.type)]]
     /\ leaveBeside' = leaveBeside \union InHandBeside(l)
     /\ UNCHANGED <<leavePlan, leaveContract, balance, leaveDesk, notices>>

\* The save, and the hook after it, which tells the supervisors.
LeaveSave(l) ==
  LET x == leaves[l]
  IN /\ x.stage = "checked"
     /\ leaves' = [leaves EXCEPT ![l] =
          [stage |-> "stored", status |-> IF x.auto THEN "approved" ELSE "pending",
           type |-> x.type, start |-> x.start, end |-> x.end, part |-> x.part,
           days |-> x.days, auto |-> x.auto]]
     /\ notices' = notices \union {[leave |-> l, to |-> "supervisors", says |-> "requested"]}
     /\ UNCHANGED <<leavePlan, leaveContract, balance, leaveDesk, leaveBeside>>

-----------------------------------------------------------------------------
(* Cancellation and resolution.                                            *)

\* Update request: the record it read is pending; the employee may only
\* cancel it, a manager may only approve or reject it.
LeaveUpdateRead(s, l, status) ==
  /\ leaveDesk[s].op = "idle"
  /\ LeaveStored(l) /\ leaves[l].status = "pending"
  /\ status \in IF s = "owner" THEN {"cancelled"} ELSE {"approved", "rejected"}
  /\ leaveDesk' = [leaveDesk EXCEPT ![s] = [op |-> "update", leave |-> l, status |-> status]]
  /\ leaveBeside' = leaveBeside \union InHandBeside(l)
  /\ UNCHANGED <<leavePlan, leaveContract, leaves, balance, notices>>

\* The save, and the hook after it: the last one wins and each is told.
LeaveUpdateSave(s) ==
  LET l == leaveDesk[s].leave
      status == leaveDesk[s].status
  IN /\ leaveDesk[s].op = "update"
     /\ leaves' = [leaves EXCEPT ![l] =
          [stage |-> "stored", status |-> status, type |-> leaves[l].type,
           start |-> leaves[l].start, end |-> leaves[l].end, part |-> leaves[l].part,
           days |-> leaves[l].days, auto |-> leaves[l].auto]]
     /\ leaveDesk' = [leaveDesk EXCEPT ![s] = AtRest]
     /\ notices' = notices \union {[leave |-> l, to |-> "employee", says |-> status]}
     /\ UNCHANGED <<leavePlan, leaveContract, balance, leaveBeside>>

\* An administrator creates or edits the balance of a year.
BalanceSet(year, entitled) ==
  /\ balance[year] # entitled
  /\ balance' = [balance EXCEPT ![year] = entitled]
  /\ leaveBeside' = leaveBeside \union
       {{l, "balance"} : l \in {l \in Leaves : leaves[l].stage = "checked"}}
  /\ UNCHANGED <<leavePlan, leaveContract, leaves, leaveDesk, notices>>

LeaveInit ==
  /\ leavePlan \in LeavePlans
  /\ leaveContract \in LeaveContracts
  /\ leaves = [l \in Leaves |-> NoLeave]
  /\ balance \in [Years -> {NoBalance} \union Entitlements]
  /\ leaveDesk = [s \in Reviewers \union {"owner"} |-> AtRest]
  /\ notices = {}
  /\ leaveBeside = {}

LeaveNext ==
  \/ \E l \in Leaves, by \in {"owner", "manager", "admin"}, x \in LeaveDrafts : LeaveCheck(l, by, x)
  \/ \E l \in Leaves : LeaveSave(l)
  \/ \E s \in Reviewers \union {"owner"}, l \in Leaves,
       status \in {"approved", "rejected", "cancelled"} : LeaveUpdateRead(s, l, status)
  \/ \E s \in Reviewers \union {"owner"} : LeaveUpdateSave(s)
  \/ \E year \in Years, entitled \in Entitlements : BalanceSet(year, entitled)

LeaveSpec == LeaveInit /\ [][LeaveNext]_leaveVars

-----------------------------------------------------------------------------

LeaveTypes ==
  /\ \A l \in Leaves : LeaveStored(l) =>
       leaves[l].status \in {"pending", "approved", "rejected", "cancelled"} /\ leaves[l].days > 0
  /\ balance \in [Years -> {NoBalance} \union Entitlements]
  /\ \A s \in DOMAIN leaveDesk : leaveDesk[s].op \in {"idle", "update"}

\* Two leaves that stand do not share a day, unless they were handled at once
\* or one of them was decided twice at once: a late decision revives a leave
\* whose days were given away after its cancellation.
NoOverlappingLeave ==
  \A l, m \in Leaves :
    (l # m /\ Standing(l) /\ Standing(m) /\ Meets(leaves[l], leaves[m]))
      => {{l}, {m}, {l, m}} \intersect leaveBeside # {}

\* A leave approved without a review leaves no year overdrawn: whoever assigns
\* it, what is approved of the year still fits the balance when it is saved,
\* unless something else was being handled meanwhile. (A review approves
\* whatever the balance.)
UnreviewedStepIsWithinBalance ==
  \A l \in Leaves, year \in Years :
    (/\ leaves[l].stage = "checked" /\ leaves'[l].stage = "stored"
     /\ leaves'[l].status = "approved" /\ deductsBalance(leaves[l].type)
     /\ YearOf(leaves[l].start) = year /\ balance[year] # NoBalance
     /\ \A pair \in leaveBeside : l \notin pair)
      => UsedIn(year)' <= balance'[year]
UnreviewedLeaveIsWithinBalance == [][UnreviewedStepIsWithinBalance]_leaveVars

\* A leave is charged for the days whose plan it takes away: as long as some
\* schedule is in force on every day asked for, the days charged are those
\* the timesheet had planned work on; and when one schedule alone is in
\* force and active, the form of the web announces the same days.
LeaveIsChargedByThePlan ==
  \A x \in LeaveDrafts :
    LET days == x.start .. x.end
        kept == {i \in DOMAIN leavePlan.schedules : \E d \in days :
                   recordDateInRange(leavePlan.schedules[i], d)}
        planned == {d \in days : d \notin leavePlan.holidays
                                  /\ plannedMinutes(leavePlan, leaveContract, d) > 0}
        charged == requestedDaysFor(leavePlan, leaveContract, x.start, x.end, x.part)
    IN /\ (\A d \in days : Applicable(leavePlan, d) # {} \/ leaveContract.mode = "weekly_flexible")
            => charged = InHalves(Cardinality(planned), x.part)
       /\ (Cardinality(kept) <= 1 /\ \A i \in kept : leavePlan.schedules[i].active)
            => countRequestedDays(leavePlan, leaveContract, x.start, x.end, x.part) = charged
=============================================================================
