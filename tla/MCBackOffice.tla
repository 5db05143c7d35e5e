---------------------------- MODULE MCBackOffice ----------------------------
(***************************************************************************)
(* The rest of the back office on small instances. Its parts share no      *)
(* state, so each behaviour is one of one part: part is chosen at the      *)
(* start, the steps of that part are taken, and the variables of the       *)
(* others keep their initial values.                                       *)
(***************************************************************************)
EXTENDS Export, HrSuite, Accounts, Simulator, Terminals, TLC

CONSTANTS h1, h2, e1, t1, g1, d1, i1, i2

VARIABLE part

-----------------------------------------------------------------------------

SomeColumns ==
  {"kind", "correctedKind", "corrects", "occurredAt", "previousHash", "breakPaid", "lost"}

AdminAndEmployee == [ada |-> "admin", ann |-> "employee"]
Paper(folder, employee, visibility, required) ==
  [folder |-> folder, employee |-> employee, visibility |-> visibility, required |-> required]
SomePapers ==
  {Paper("f1", "nobody", "folder", TRUE), Paper("none", "ann", "employee", TRUE),
   Paper("none", "ada", "company", FALSE)}

\* Of a start, a synchronisation and a clock a day old, the simulator meets
\* two at most beside its first start.
FewTroubles == boot + syncs + (IF ntp = "old" THEN 1 ELSE 0) <= 3

\* Nothing tells two requests or two invitations apart.
Symmetry == Permutations({h1, h2}) \union Permutations({i1, i2})

Parts == {"export", "expenses", "tasks", "goals", "documents", "accounts", "simulator",
          "tags", "pin"}

\* A part that does not move starts in one state.
Init ==
  /\ part \in Parts
  /\ ExportInit /\ (part # "export" => chain = <<>>)
  /\ HrInit
  /\ AccountInit /\ user.role = "employee" /\ user.email = "old"
  /\ SimulatorInit
  /\ TerminalsInit

Next ==
  /\ UNCHANGED part
  /\ \/ /\ part = "export" /\ ExportNext
        /\ UNCHANGED <<hrVars, accountVars, simVars, terminalVars>>
     \/ /\ \/ part = "expenses" /\ ExpenseNext
           \/ part = "tasks" /\ TaskNext
           \/ part = "goals" /\ GoalNext
           \/ part = "documents" /\ DocumentNext
        /\ UNCHANGED <<exportVars, accountVars, simVars, terminalVars>>
     \/ /\ part = "accounts" /\ AccountNext
        /\ UNCHANGED <<exportVars, hrVars, simVars, terminalVars>>
     \/ /\ part = "simulator" /\ SimulatorNext({"long"}, {"on_break"})
        /\ UNCHANGED <<exportVars, hrVars, accountVars, terminalVars>>
     \/ /\ \/ part = "tags" /\ TagNext
           \/ part = "pin" /\ PinNext
        /\ UNCHANGED <<exportVars, hrVars, accountVars, simVars>>

vars == <<part, exportVars, hrVars, accountVars, simVars, terminalVars>>
Spec == Init /\ [][Next]_vars

-----------------------------------------------------------------------------

\* The records of the part that moves have the types its module states. The
\* other properties are those of the modules.
TypeOK ==
  CASE part = "export" -> ExportTypes
    [] part = "accounts" -> AccountTypes
    [] part = "simulator" -> SimulatorTypes
    [] part \in {"tags", "pin"} -> TerminalTypes
    [] OTHER -> HrTypes
=============================================================================
