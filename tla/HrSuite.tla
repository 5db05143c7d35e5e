------------------------------ MODULE HrSuite ------------------------------
(***************************************************************************)
(* Expenses, tasks, goals and documents of one company: the hooks of each  *)
(* collection, the access rules of the API, and what the pages of the web  *)
(* offer. An update request reads the record, its hook decides what the    *)
(* record becomes, and the save writes the columns that the hook changed:  *)
(* two requests on one record may interleave between reading and saving.   *)
(* Amounts, texts and files count for what tells two of them apart.        *)
(***************************************************************************)
EXTENDS Integers

CONSTANTS
  People,        \* active users of the company
  RoleOf,        \* their role
  Handlers,      \* requests handled at once
  Expenses, Amounts, ExpenseLimit,  \* the limit of the category, 0 for none
  Tasks,
  Goals, TypedProgress,
  Folders, FolderLists,       \* the people a folder may be shared with
  Documents, DocumentInputs   \* [folder, employee, visibility, required] sent

VARIABLES
  expenses, tasks, goals, folders, documents,
  acknowledgements,  \* document_acknowledgements: how many of <<document, person>>
  hrDesk,        \* what each request holds between reading and saving
  told,          \* notifications: <<about, to>>
  seen,          \* ghost: the amount before the reviewer who approved it
  together       \* ghost: records that two requests had in hand at once

hrVars == <<expenses, tasks, goals, folders, documents, acknowledgements,
            hrDesk, told, seen, together>>

\* The kinds of records share no identifiers; of the two names of nothing,
\* "none" is no folder or document and "nobody" no person.
ASSUME HrData ==
  /\ RoleOf \in [People -> {"admin", "manager", "employee"}] /\ "nobody" \notin People
  /\ Expenses \intersect Goals = {} /\ "none" \notin Folders \union Documents
  /\ Amounts \subseteq Int /\ ExpenseLimit \in Int /\ TypedProgress \subseteq Int
  /\ FolderLists \subseteq SUBSET People
  /\ DocumentInputs \subseteq
       [folder : Folders \union {"none"}, employee : People \union {"nobody"},
        visibility : {"employee", "company", "management", "folder"}, required : BOOLEAN]

Absent == [stage |-> "none"]
Resting == [op |-> "idle"]
Exists(r) == r.stage = "stored"
Manages(p) == RoleOf[p] \in {"admin", "manager"}
Managers == {p \in People : Manages(p)}

\* What a save leaves of a record: the columns that differ from the record
\* that was read. The database keeps the others as they are by then.
Written(stored, original, new) ==
  [f \in DOMAIN stored |-> IF new[f] # original[f] THEN new[f] ELSE stored[f]]

\* A request has the records of its job in hand from its reading on.
TakesInHand(h, job) ==
  LET beside == {g \in Handlers : hrDesk[g].op # "idle" /\ hrDesk[g].on \intersect job.on # {}}
  IN /\ hrDesk[h].op = "idle"
     /\ hrDesk' = [hrDesk EXCEPT ![h] = job]
     /\ together' = together \union UNION {hrDesk[g].on \union job.on : g \in beside}

Updating(kind, x, original, new) ==
  [op |-> kind, on |-> {x}, record |-> x, original |-> original, new |-> new]

Leaves(h) == hrDesk' = [hrDesk EXCEPT ![h] = Resting] /\ UNCHANGED together

-----------------------------------------------------------------------------
(* Expenses.                                                               *)

Owner(e) == expenses[e].employee
ExpenseStatuses == {"draft", "pending", "changes_requested", "approved", "rejected", "paid"}
ExpenseRecords ==
  {Absent} \union
    [stage : {"stored"}, employee : People, amount : Amounts, status : ExpenseStatuses,
     outOfPolicy : BOOLEAN, reviewed : BOOLEAN, paid : BOOLEAN]

\* Create request, save and the notice to the managers.
ExpenseCreate(e, p, amount, status) ==
  /\ expenses[e] = Absent
  /\ status \in {"draft", "pending"}
  /\ expenses' = [expenses EXCEPT ![e] =
       [stage |-> "stored", employee |-> p, amount |-> amount, status |-> status,
        outOfPolicy |-> ExpenseLimit > 0 /\ amount > ExpenseLimit,
        reviewed |-> FALSE, paid |-> FALSE]]
  /\ told' = IF status = "pending" THEN told \union ({e} \X Managers) ELSE told
  /\ UNCHANGED <<tasks, goals, folders, documents, acknowledgements, hrDesk, seen, together>>

\* What the update hook makes of the record x for person p, who sent the
\* given status and amount; nothing when it refuses.
ExpenseUpdate(x, p, status, amount) ==
  LET owner    == x.employee = p /\ RoleOf[p] = "employee"
      edited   == [x EXCEPT !.status = status, !.amount = amount,
                            !.reviewed = FALSE, !.paid = FALSE]
      reviewed == [x EXCEPT !.status = status, !.reviewed = TRUE]
      paid     == [x EXCEPT !.status = status, !.paid = TRUE]
  IN CASE owner ->
            IF x.status \in {"draft", "changes_requested"} /\ status \in {"draft", "pending"}
            THEN {edited} ELSE {}
       [] ~owner /\ Manages(p) /\ x.status = "pending"
            /\ status \in {"changes_requested", "approved", "rejected"} -> {reviewed}
       [] ~owner /\ RoleOf[p] = "admin" /\ x.status = "approved" /\ status = "paid" -> {paid}
       [] OTHER -> {}

ExpenseUpdateRead(h, e, p, status, amount) ==
  /\ Exists(expenses[e])
  /\ \E new \in ExpenseUpdate(expenses[e], p, status, amount) :
       TakesInHand(h, Updating("expense", e, expenses[e], new))
  /\ UNCHANGED <<expenses, tasks, goals, folders, documents, acknowledgements, told, seen>>

\* The save, and the notice to the employee when the status changed.
ExpenseUpdateSave(h) ==
  LET job == hrDesk[h]
      e   == job.record
  IN /\ job.op = "expense"
     /\ expenses' = IF Exists(expenses[e])
                    THEN [expenses EXCEPT ![e] = Written(@, job.original, job.new)]
                    ELSE expenses
     /\ seen' = IF job.new.status = "approved" THEN [seen EXCEPT ![e] = job.original.amount]
                ELSE seen
     /\ told' = IF job.new.status # job.original.status
                THEN told \union {<<e, job.original.employee>>} ELSE told
     /\ Leaves(h)
     /\ UNCHANGED <<tasks, goals, folders, documents, acknowledgements>>

\* The rule of the collection: its employee may delete a draft.
ExpenseDelete(e) ==
  /\ Exists(expenses[e]) /\ expenses[e].status = "draft"
  /\ expenses' = [expenses EXCEPT ![e] = Absent]
  /\ UNCHANGED <<tasks, goals, folders, documents, acknowledgements, hrDesk, told, seen, together>>

\* The buttons of the page.
expenseOffers(p, e) ==
  {status \in ExpenseStatuses :
     \/ Manages(p) /\ expenses[e].status = "pending" /\ status \in {"approved", "rejected"}
     \/ RoleOf[p] = "admin" /\ expenses[e].status = "approved" /\ status = "paid"}

-----------------------------------------------------------------------------
(* Tasks and goals.                                                        *)

TaskStatuses == {"pending", "in_progress", "completed", "cancelled"}
TaskRecords ==
  {Absent} \union
    [stage : {"stored"}, assignee : People, creator : People, status : TaskStatuses,
     completedAt : BOOLEAN]

\* Create request of a manager, save and the notice to the assignee.
TaskCreate(t, by, p) ==
  /\ tasks[t] = Absent /\ Manages(by)
  /\ tasks' = [tasks EXCEPT ![t] =
       [stage |-> "stored", assignee |-> p, creator |-> by, status |-> "pending",
        completedAt |-> FALSE]]
  /\ told' = told \union {<<t, p>>}
  /\ UNCHANGED <<expenses, goals, folders, documents, acknowledgements, hrDesk, seen, together>>

\* Mistake: a task that is opened again keeps its time of completion.
TaskUpdateKeepsDate(x, p, status) ==
  {new \in {[x EXCEPT !.status = status, !.completedAt = (@ \/ status = "completed")]} :
     Manages(p) \/ (x.assignee = p /\ status \in {"in_progress", "completed"})}

\* The rule lets the assignee and the managers update a task.
TaskUpdate(x, p, status) ==
  LET owner == x.assignee = p /\ RoleOf[p] = "employee"
  IN IF (x.assignee = p \/ Manages(p)) /\ (owner => status \in {"in_progress", "completed"})
     THEN {[x EXCEPT !.status = status, !.completedAt = (status = "completed")]}
     ELSE {}

TaskUpdateRead(h, t, p, status) ==
  /\ Exists(tasks[t])
  /\ \E new \in TaskUpdate(tasks[t], p, status) :
       TakesInHand(h, Updating("task", t, tasks[t], new))
  /\ UNCHANGED <<expenses, tasks, goals, folders, documents, acknowledgements, told, seen>>

\* The save, and the notice to whoever created it, when it completes it.
TaskUpdateSave(h) ==
  LET job == hrDesk[h]
      t   == job.record
      completes == job.new.status = "completed" /\ job.original.status # "completed"
  IN /\ job.op = "task"
     /\ tasks' = [tasks EXCEPT ![t] = Written(@, job.original, job.new)]
     /\ told' = IF completes THEN told \union {<<t, job.new.creator>>} ELSE told
     /\ Leaves(h)
     /\ UNCHANGED <<expenses, goals, folders, documents, acknowledgements, seen>>

\* The page offers a task's assignee to begin it and to complete it.
taskOffers(p, t) ==
  {status \in TaskStatuses :
     /\ tasks[t].assignee = p
     /\ \/ tasks[t].status = "pending" /\ status = "in_progress"
        \/ tasks[t].status # "completed" /\ status = "completed"}

GoalStatuses == {"draft", "active", "completed", "cancelled"}
GoalRecords ==
  {Absent} \union
    [stage : {"stored"}, employee : People, progress : 0 .. 100, status : GoalStatuses]

\* Mistake: the progress is stored as it was typed.
AsTyped(n) == n

Clamped(n) == IF n < 0 THEN 0 ELSE IF n > 100 THEN 100 ELSE n

GoalCreate(g, by, p, progress) ==
  /\ goals[g] = Absent /\ Manages(by)
  /\ goals' = [goals EXCEPT ![g] =
       [stage |-> "stored", employee |-> p, progress |-> Clamped(progress),
        status |-> "active"]]
  /\ told' = told \union {<<g, p>>}
  /\ UNCHANGED <<expenses, tasks, folders, documents, acknowledgements, hrDesk, seen, together>>

\* The employee's progress decides the status; a manager sets both freely.
GoalUpdate(x, p, progress, status) ==
  LET owner == x.employee = p /\ RoleOf[p] = "employee"
      own   == [x EXCEPT !.progress = Clamped(progress),
                         !.status = IF Clamped(progress) = 100 THEN "completed" ELSE "active"]
      free  == [x EXCEPT !.progress = progress, !.status = status]
  IN CASE owner -> {own}
       [] ~owner /\ (x.employee = p \/ Manages(p)) /\ progress \in 0 .. 100 -> {free}
       [] OTHER -> {}

GoalUpdateRead(h, g, p, progress, status) ==
  /\ Exists(goals[g])
  /\ \E new \in GoalUpdate(goals[g], p, progress, status) :
       TakesInHand(h, [op |-> "goal", on |-> {g}, record |-> g, original |-> goals[g],
                       new |-> new, by |-> p])
  /\ UNCHANGED <<expenses, tasks, goals, folders, documents, acknowledgements, told, seen>>

GoalUpdateSave(h) ==
  LET job == hrDesk[h]
  IN /\ job.op = "goal"
     /\ goals' = [goals EXCEPT ![job.record] = Written(@, job.original, job.new)]
     /\ seen' = [seen EXCEPT ![job.record] = job.by]
     /\ Leaves(h)
     /\ UNCHANGED <<expenses, tasks, folders, documents, acknowledgements, told>>

-----------------------------------------------------------------------------
(* Folders and documents.                                                  *)

FolderRecords ==
  {Absent} \union
    [stage : {"stored"}, visibility : {"company", "selected", "management"},
     allowed : SUBSET People]
DocumentRecords ==
  {Absent} \union
    [stage : {"stored"}, folder : Folders \union {"none"},
     employee : People \union {"nobody"},
     visibility : {"employee", "company", "management", "folder"},
     required : BOOLEAN, acknowledged : BOOLEAN]

In(f) == {d \in Documents : Exists(documents[d]) /\ documents[d].folder = f}

\* Create or update request of a manager: only a folder for selected people
\* keeps a list, which is not empty.
FolderSave(f, visibility, allowed) ==
  /\ visibility = "selected" => allowed # {}
  /\ folders' = [folders EXCEPT ![f] =
       [stage |-> "stored", visibility |-> visibility,
        allowed |-> IF visibility = "selected" THEN allowed ELSE {}]]
  /\ folders' # folders
  /\ UNCHANGED <<expenses, tasks, goals, documents, acknowledgements, hrDesk, told, seen, together>>

\* Delete request: the hook counts the documents, then the folder is deleted
\* and a document that came meanwhile loses its reference.
FolderDeleteRead(h, f) ==
  /\ Exists(folders[f]) /\ In(f) = {}
  /\ TakesInHand(h, [op |-> "delete folder", on |-> {f}, record |-> f])
  /\ UNCHANGED <<expenses, tasks, goals, folders, documents, acknowledgements, told, seen>>

FolderDelete(h) ==
  LET f == hrDesk[h].record
  IN /\ hrDesk[h].op = "delete folder"
     /\ folders' = [folders EXCEPT ![f] = Absent]
     /\ documents' = [d \in Documents |->
          IF d \in In(f) THEN [documents[d] EXCEPT !.folder = "none"] ELSE documents[d]]
     /\ Leaves(h)
     /\ UNCHANGED <<expenses, tasks, goals, acknowledgements, told, seen>>

\* Who the API shows a document to.
Shown(p, x) ==
  \/ Manages(p)
  \/ x.folder = "none" /\ (x.visibility = "company" \/ x.employee = p)
  \/ x.folder # "none" /\ folders[x.folder].visibility = "company"
  \/ x.folder # "none" /\ folders[x.folder].visibility = "selected"
       /\ p \in folders[x.folder].allowed

\* Mistake: the managers are not among those told.
RecipientsOfFolder(x) ==
  IF x.folder = "none" THEN {x.employee} ELSE folders[x.folder].allowed

\* Who is told of a new one, whoever uploaded it aside.
Recipients(x) ==
  IF x.folder = "none" THEN {x.employee}
  ELSE Managers \union
         CASE folders[x.folder].visibility = "company" -> People
           [] folders[x.folder].visibility = "selected" -> folders[x.folder].allowed
           [] OTHER -> {}

\* What the create hook makes of what p sent; nothing when it refuses.
DocumentCreate(p, folder, employee, visibility, required) ==
  LET new(f, e, v) == [stage |-> "stored", folder |-> f, employee |-> e, visibility |-> v,
                       required |-> required, acknowledged |-> FALSE]
  IN CASE folder # "none" ->
            IF Manages(p) /\ Exists(folders[folder]) THEN {new(folder, "nobody", "folder")} ELSE {}
       [] folder = "none" /\ Manages(p) /\ visibility # "folder" ->
            {new("none", IF employee = "nobody" THEN p ELSE employee, visibility)}
       [] folder = "none" /\ ~Manages(p) /\ employee = p ->
            IF RoleOf[p] = "employee" THEN {new("none", p, "employee")}
            ELSE IF visibility # "folder" THEN {new("none", p, visibility)} ELSE {}
       [] OTHER -> {}

DocumentCreateRead(h, d, p, x) ==
  /\ documents[d] = Absent
  /\ \E new \in DocumentCreate(p, x.folder, x.employee, x.visibility, x.required) :
       TakesInHand(h, [op |-> "create document", on |-> {d, x.folder} \ {"none"}, record |-> d,
                       new |-> new, by |-> p])
  /\ UNCHANGED <<expenses, tasks, goals, folders, documents, acknowledgements, told, seen>>

\* The save, refused when the folder is gone, and the notices after it.
DocumentCreateSave(h) ==
  LET job == hrDesk[h]
      d   == job.record
      saved == /\ documents[d] = Absent
               /\ job.new.folder = "none" \/ Exists(folders[job.new.folder])
  IN /\ job.op = "create document"
     /\ documents' = IF saved THEN [documents EXCEPT ![d] = job.new] ELSE documents
     /\ told' = IF saved THEN told \union ({d} \X (Recipients(job.new) \ {job.by})) ELSE told
     /\ Leaves(h)
     /\ UNCHANGED <<expenses, tasks, goals, folders, acknowledgements, seen>>

\* An employee confirms the reading of a document of their own; a manager
\* moves or changes one and cannot touch its reading.
DocumentUpdate(x, p, folder, employee, visibility) ==
  LET owner == x.employee = p /\ RoleOf[p] = "employee"
  IN CASE owner ->
            IF x.folder = "none" /\ x.required THEN {[x EXCEPT !.acknowledged = TRUE]} ELSE {}
       [] ~owner /\ Manages(p) /\ folder # "none" ->
            IF Exists(folders[folder])
            THEN {[x EXCEPT !.folder = folder, !.employee = "nobody", !.visibility = "folder"]}
            ELSE {}
       [] ~owner /\ Manages(p) /\ folder = "none" ->
            IF employee # "nobody" /\ visibility # "folder"
            THEN {[x EXCEPT !.folder = "none", !.employee = employee, !.visibility = visibility]}
            ELSE {}
       [] OTHER -> {}

DocumentUpdateRead(h, d, p, x) ==
  /\ Exists(documents[d])
  /\ \E new \in DocumentUpdate(documents[d], p, x.folder, x.employee, x.visibility) :
       TakesInHand(h, [op |-> "document", on |-> {d, new.folder} \ {"none"}, record |-> d,
                       original |-> documents[d], new |-> new])
  /\ UNCHANGED <<expenses, tasks, goals, folders, documents, acknowledgements, told, seen>>

DocumentUpdateSave(h) ==
  LET job == hrDesk[h]
      d   == job.record
  IN /\ job.op = "document"
     /\ documents' =
          IF Exists(documents[d]) /\ (job.new.folder = "none" \/ Exists(folders[job.new.folder]))
          THEN [documents EXCEPT ![d] = Written(@, job.original, job.new)]
          ELSE documents
     /\ Leaves(h)
     /\ UNCHANGED <<expenses, tasks, goals, folders, acknowledgements, told, seen>>

\* The rule of the collection; the readings of the document go with it.
DocumentDelete(d, p) ==
  /\ Exists(documents[d])
  /\ RoleOf[p] = "admin" \/ (documents[d].folder = "none" /\ documents[d].employee = p)
  /\ documents' = [documents EXCEPT ![d] = Absent]
  /\ acknowledgements' = [a \in Documents \X People |->
       IF a[1] = d THEN 0 ELSE acknowledgements[a]]
  /\ UNCHANGED <<expenses, tasks, goals, folders, hrDesk, told, seen, together>>

\* Create request of a reading: the document is in a folder the person may
\* see, asks for it, and the person has not confirmed it.
AcknowledgementAccepted(d, p) ==
  LET x == documents[d]
      f == folders[x.folder]
  IN /\ x.folder # "none" /\ x.required
     /\ Manages(p) \/ f.visibility = "company" \/ (f.visibility = "selected" /\ p \in f.allowed)
     /\ acknowledgements[<<d, p>>] = 0

AcknowledgementRead(h, d, p) ==
  /\ Exists(documents[d]) /\ AcknowledgementAccepted(d, p)
  /\ TakesInHand(h, [op |-> "read", on |-> {}, record |-> d, by |-> p])
  /\ UNCHANGED <<expenses, tasks, goals, folders, documents, acknowledgements, told, seen>>

\* A second one is refused by the unique index.
AcknowledgementSave(h) ==
  LET reading == <<hrDesk[h].record, hrDesk[h].by>>
  IN /\ hrDesk[h].op = "read"
     /\ acknowledgements' =
          IF Exists(documents[reading[1]]) /\ acknowledgements[reading] = 0
          THEN [acknowledgements EXCEPT ![reading] = @ + 1] ELSE acknowledgements
     /\ Leaves(h)
     /\ UNCHANGED <<expenses, tasks, goals, folders, documents, told, seen>>

\* The page: whether it offers a person to confirm a document it shows, and
\* whose readings it counts.
canCurrentUserAcknowledge(d, p) ==
  LET x == documents[d]
  IN /\ x.required
     /\ x.folder # "none" \/ x.employee = p
     /\ IF x.folder = "none" THEN ~x.acknowledged ELSE acknowledgements[<<d, p>>] = 0
folderAudience(f) ==
  {p \in People : \/ Manages(p)
                  \/ folders[f].visibility = "company"
                  \/ folders[f].visibility = "selected" /\ p \in folders[f].allowed}

-----------------------------------------------------------------------------

HrInit ==
  /\ expenses = [e \in Expenses |-> Absent]
  /\ tasks = [t \in Tasks |-> Absent]
  /\ goals = [g \in Goals |-> Absent]
  /\ folders = [f \in Folders |-> Absent]
  /\ documents = [d \in Documents |-> Absent]
  /\ acknowledgements = [a \in Documents \X People |-> 0]
  /\ hrDesk = [h \in Handlers |-> Resting]
  /\ told = {}
  /\ seen = [x \in Expenses \union Goals |-> "nobody"]
  /\ together = {}

ExpenseNext ==
  \/ \E e \in Expenses, p \in People, amount \in Amounts, status \in ExpenseStatuses :
       ExpenseCreate(e, p, amount, status)
  \/ \E h \in Handlers, e \in Expenses, p \in People, amount \in Amounts,
       status \in ExpenseStatuses : ExpenseUpdateRead(h, e, p, status, amount)
  \/ \E h \in Handlers : ExpenseUpdateSave(h)
  \/ \E e \in Expenses : ExpenseDelete(e)

TaskNext ==
  \/ \E t \in Tasks, by, p \in People : TaskCreate(t, by, p)
  \/ \E h \in Handlers, t \in Tasks, p \in People, status \in TaskStatuses :
       TaskUpdateRead(h, t, p, status)
  \/ \E h \in Handlers : TaskUpdateSave(h)

GoalNext ==
  \/ \E g \in Goals, by, p \in People, progress \in TypedProgress : GoalCreate(g, by, p, progress)
  \/ \E h \in Handlers, g \in Goals, p \in People, progress \in TypedProgress,
       status \in GoalStatuses : GoalUpdateRead(h, g, p, progress, status)
  \/ \E h \in Handlers : GoalUpdateSave(h)

DocumentNext ==
  \/ \E f \in Folders, v \in {"company", "selected", "management"}, allowed \in FolderLists :
       FolderSave(f, v, allowed)
  \/ \E h \in Handlers, f \in Folders : FolderDeleteRead(h, f)
  \/ \E h \in Handlers, d \in Documents, p \in People, x \in DocumentInputs :
       DocumentCreateRead(h, d, p, x) \/ DocumentUpdateRead(h, d, p, x)
  \/ \E d \in Documents, p \in People : DocumentDelete(d, p)
  \/ \E h \in Handlers, d \in Documents, p \in People : AcknowledgementRead(h, d, p)
  \/ \E h \in Handlers : \/ FolderDelete(h) \/ DocumentCreateSave(h)
                          \/ DocumentUpdateSave(h) \/ AcknowledgementSave(h)

HrNext == ExpenseNext \/ TaskNext \/ GoalNext \/ DocumentNext
HrSpec == HrInit /\ [][HrNext]_hrVars

-----------------------------------------------------------------------------

HrTypes ==
  /\ expenses \in [Expenses -> ExpenseRecords]
  /\ tasks \in [Tasks -> TaskRecords]
  /\ goals \in [Goals -> GoalRecords]
  /\ folders \in [Folders -> FolderRecords]
  /\ documents \in [Documents -> DocumentRecords]
  /\ acknowledgements \in [Documents \X People -> Nat]
  /\ told \subseteq (Expenses \union Tasks \union Goals \union Documents) \X People

\* An expense that was approved or paid has the amount that was before its
\* reviewer, unless two requests had it in hand at once: it cannot be edited
\* once it was sent, and whoever reviews it edits nothing of it.
PaidIsWhatWasApproved ==
  \A e \in Expenses :
    (Exists(expenses[e]) /\ expenses[e].status \in {"approved", "paid"} /\ e \notin together)
      => expenses[e].reviewed /\ expenses[e].amount = seen[e]

\* A task has a time of completion exactly when it is complete, and whoever
\* set it was told, unless two requests had it in hand at once.
CompletedIsDatedAndTold ==
  \A t \in Tasks : (Exists(tasks[t]) /\ t \notin together) =>
    /\ tasks[t].completedAt <=> tasks[t].status = "completed"
    /\ tasks[t].completedAt => <<t, tasks[t].creator>> \in told

\* A goal its employee updated last is complete exactly at its end, likewise.
CompleteAtTheEnd ==
  \A g \in Goals :
    (/\ Exists(goals[g]) /\ g \notin together
     /\ seen[g] = goals[g].employee /\ RoleOf[seen[g]] = "employee")
      => (goals[g].status = "completed" <=> goals[g].progress = 100)

\* A document lies in a folder that exists or belongs to a person, unless it
\* was on its way into a folder while that was being deleted.
DocumentsHaveAPlace ==
  \A d \in Documents : (Exists(documents[d]) /\ d \notin together) =>
    IF documents[d].folder = "none" THEN documents[d].employee # "nobody"
    ELSE Exists(folders[documents[d].folder])

\* Every reading counts once, however many requests confirm it at once.
ReadOnce ==
  \A d \in Documents, p \in People : acknowledgements[<<d, p>>] <= 1

RecordsKeepTheirMeaning ==
  /\ PaidIsWhatWasApproved /\ CompletedIsDatedAndTold /\ CompleteAtTheEnd
  /\ DocumentsHaveAPlace /\ ReadOnce

\* What a page offers the server does: every button on an expense or a task is
\* accepted by the hook, and a reading that is offered on a document the API
\* shows is recorded (that of an employee, or of a document in a folder). The
\* people told of a document, those it is shown to and those whose readings
\* are counted are the same people.
PagesOfferWhatServerDoes ==
  /\ \A e \in Expenses, p \in People : Exists(expenses[e]) =>
       \A status \in expenseOffers(p, e) :
         ExpenseUpdate(expenses[e], p, status, expenses[e].amount) # {}
  /\ \A t \in Tasks, p \in People : Exists(tasks[t]) =>
       \A status \in taskOffers(p, t) : TaskUpdate(tasks[t], p, status) # {}
  /\ \A d \in Documents, p \in People :
       (/\ Exists(documents[d]) /\ Shown(p, documents[d]) /\ canCurrentUserAcknowledge(d, p)
        /\ documents[d].folder # "none" \/ RoleOf[p] = "employee") =>
         IF documents[d].folder # "none" THEN AcknowledgementAccepted(d, p)
         ELSE \E new \in DocumentUpdate(documents[d], p, "none", p, documents[d].visibility) :
                new.acknowledged
  /\ \A d \in Documents : (Exists(documents[d]) /\ documents[d].folder # "none") =>
       LET shown == {p \in People : Shown(p, documents[d])}
       IN Recipients(documents[d]) = shown /\ folderAudience(documents[d].folder) = shown
=============================================================================
