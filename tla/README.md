# OpenJornada, verified

This directory holds TLA+ models of OpenJornada, the TLC configurations that
check them on small instances and the TLAPS proofs of the theorems about them.
Paths are relative to the root of the repository.

## The system

OpenJornada records working time under Spanish law. It is one Go binary built
on PocketBase (SQLite, REST API, record hooks), with JavaScript hooks under
`backend/pb_hooks`, an Angular application under `web/src`, and the firmware of
an M5Stack terminal with an RFID reader under `firmware/terminal`.

| Component | State | Operations | Hard behaviour | What makes it correct |
|---|---|---|---|---|
| Terminal outbox (`storage/outbox_codec.cpp`) | two journals, of actions and of completions, three files each | `begin`, `append`, `complete`, `compact`, `list` | power loss between any two flash operations, failing operations, recovery of a recovery | what was confirmed survives, in order; nothing else is offered; a restart always works |
| Attendance ledger, terminal API (`internal/terminal/events.go`) | `work_events`, `terminal_action_receipts`, `terminal_sync_incidents` | `performAction`, `syncActions`, `recordTerminalAction`, `createIncident` | repeated and concurrent delivery, late delivery, several terminals, clocks ahead | each action recorded once; answers backed by receipts; legal sequences; one chain of hashes |
| Attendance ledger, web (`pb_hooks/main.pb.js`) | the same `work_events` | create hook: clocking, reviewed closing, correction | the hook reads before the request saves | the same sequence and chain |
| Terminal administration (`internal/terminal/admin.go`, `device.go`) | terminals, PIN attempts, admin sessions, tags, cache revision | create, rotate, revoke, PIN change, login, assign and revoke tags, cache, resolve incident | counters read and saved without a transaction, a session opened while the PIN changes, stale caches | lockout counts, revocation is immediate, one owner per tag |
| Terminal application (`app/app_controller.cpp`, `main.cpp`) | screen, pending job, clock, pending count | tick, tag, button, timers, results | answers arriving under another screen, ambiguous answers, reboot, clock ageing | every action stored before it is sent and completed only on a definitive answer |
| Network worker (`network/network_worker.cpp`) | four slots, a task | enqueue, poll, execute | loop and task share the slots | a job has one result, a slot is reused only after it |
| Cache and configuration stores (`storage/*_store.cpp`) | two slots and a selector | load, replace | power loss between the writes | a complete cache, never older than confirmed |
| Terminal simulator (`terminal-simulator.component.ts`) | queue, screens, link, clock, calls under way | scan, buttons, execute, synchronise, reboot | asynchronous calls in any order, lost and partial answers | nothing stored is dropped before it is decided; the queue can be delivered |
| Manual time requests and timesheet (`pb_hooks/timesheet.pb.js`, `timesheet_helpers.js`) | `manual_time_requests`, events that void and replace others | create, correct, resolve, cancel, the sheet | checks before the transaction, live clocking meanwhile | time declared once, decisions applied once, approved time counted |
| Leave and correction requests (`pb_hooks/operations.pb.js`) | requests, balances | create, update, review | checks before the save, work after the commit | balance and overlap respected, charge equal to the plan, approval applied |
| Monthly statements and export (`pb_hooks/compliance.pb.js`) | statements, versions, receipts, hashes | close, acknowledge, export | the previous version read outside the transaction, five writers of events | the month equals its sheet, one version sequence, a package valid exactly for what was written |
| Invitations and users (`pb_hooks/invitations_helpers.js`, `main.pb.js`) | invitations, users, contracts | issue, accept, expire, edit | several saves around a mail, two issues at once, a stale user saved | one live invitation, accepted once, a state that is true; contracts stored well |
| HR suite (`pb_hooks/hr_suite.pb.js`) | expenses, documents, tasks, goals | create, update, review, acknowledge | a record read before another request's save | paid is what was approved, read once, pages and hooks agree |
| Schedules (`pb_hooks/schedules.pb.js`) | `work_schedules` | publish, archive | the plan that the sheet, the month and the leave share | one plan |
| Retention, branding, labour calendar, MCP server, migrations, provisioning, display, other web pages | | validation, import, read-only tools, schema, presentation | | |

Interaction: a terminal stores an action in its outbox, sends it, and completes
it when the answer is definitive. The server records it in one SQLite
transaction together with its receipt. Browsers write the same ledger through
PocketBase's record API, whose create and update hooks run *before* the save.
SQLite serialises the transactions and the saves, and nothing else is
serialised: this is the source of most of the hazards in `PROJECT.json`.

## Modules

| Module | Models | Correspondence |
|---|---|---|
| `DurableQueue` | what the outbox promises | the actions accepted, how many have a known outcome, how many are no longer offered |
| `Outbox` | `storage/outbox_codec.cpp` over `littlefs_outbox.cpp` | a file is its whole frames and whether a torn one follows; each C++ function is a *program*, a sequence of primitive instructions, and one step runs one primitive; `Fail` is a primitive reporting failure with the code's own repair, `PowerLoss` stops anything anywhere, `Plan` is `recoverJournal`'s decision |
| `Outbox_proofs` | theorems about `Outbox` | |
| `ActionRegister` | what the server promises a terminal | the outcome of an action is decided once |
| `Ledger` | `internal/terminal/events.go`, the create hook of `work_events` in `pb_hooks/main.pb.js`, `integrityTipHash` in both languages | an event is its employee, effective kind and time, correction target, predecessor in the chain, and origin; a request in flight stands at the point where the code has read but not yet written: `PerformAction` and `SyncAction` up to the transaction, `Commit` is the transaction, `Report` and `SaveIncident` the two halves of `createIncident`; `WebClock` and `WebCorrect` are the hook, `WebSave` the save after it |
| `Ledger_proofs` | theorems about `Ledger` | |
| `TerminalApp` | `app/app_controller.cpp`, `network/network_worker.cpp`, the loop of `main.cpp`, and of the server what this terminal's requests meet | a step handles one result or one event, as `tick` does: `TakeResult` is `processNetworkResult`, the three actions of `handleTimer`, `ScanCard` is `handleTag`, and one action for each button that does something; `DoJob` is one turn of the network task with the server's handler inside; the outbox is used only through the operations of `DurableQueue` |
| `TerminalApp_proofs` | theorems about `TerminalApp` | |
| `WorkCalendar` | the calendar in `timesheet_helpers.js`, `leave_balance_helpers.js`, `compliance_helpers.js`, `leave-calculations.ts` | schedules in force on a day, holidays, planned minutes, flexible weeks, weekdays of dates; operators only |
| `Timesheet` | `timesheet.pb.js`, `timesheet_helpers.js`, correction requests of `operations.pb.js` | the log of one employee; `...Check` is what a handler reads and refuses, `RequestSave`, `CorrectionSave` what it stores; `Resolve` and `Cancel` are transactions; `CorrectionRead`, `CorrectionResolve`, `CorrectionApply` are an update's hook, its save and the hook after it; `effectiveEvents`, `workSpans`, `normalizeIntervals`, `editableDays` keep their names |
| `Timesheet_proofs` | theorems about `Timesheet` | |
| `Statements` | the sheet of `timesheet.pb.js`, `monthlyStatementData`, closing and acknowledgement, schedules | extends `Timesheet`; `CloseRead`, `CloseNumber`, `CloseSave` are the three points at which the closing reads or writes |
| `WebTime` | `time-calculations.ts`, `timesheet-calculations.ts`, the editor of `timesheet.component.ts` | extends `Timesheet`; the browser's own copy of the rules |
| `Leave` | leave requests and balances of `operations.pb.js`, `leave_balance_helpers.js` | `LeaveCheck` is the create hook, `LeaveSave` the save; `LeaveUpdateRead` and `LeaveUpdateSave` the same of an update |
| `WorkTime_proofs` | theorems about `Statements`, `Leave` and `Contracts` | |
| `Contracts` | contract fields in the hooks of `users` (`main.pb.js`), the weeks they are spread over | a person's terms beside a walk over real dates |
| `Export` | the recipes of the writers of events and `workEventExportData` in `compliance_helpers.js` | each writer is an action that appends a row with its hash; `Damage` changes a column or loses a row afterwards |
| `HrSuite` | `hr_suite.pb.js`, its helpers, the access rules of the migrations, the pages | one action per hook, read and save apart where the hook reads first |
| `Accounts` | `invitations_helpers.js`, the hooks of `users` | issuing is six steps, each a save or a mail; accepting is one transaction |
| `BackOffice_proofs` | theorems about `Accounts`, `HrSuite` and `Export` | |
| `Simulator` | `terminal-simulator.component.ts`, `terminal-simulator.state.ts`, the batch check of `events.go` | each call and signature has a step that begins it and steps that end it |
| `Terminals` | tags, cache, PIN and sessions in `admin.go`, `device.go`, `domain.go` | a request about the PIN or the cache is read and answered in different steps |
| `Devices_proofs` | theorems about `Simulator` and `Terminals` | |
| `Counting` | lemmas the proofs share: least elements, greatest indexes, sums over finite sets, folds of sequences | |
| `MCWorkTime` | `Timesheet`, `Statements`, `WebTime`, `Leave` and `Contracts` composed | see Runs |
| `MCBackOffice` | `Export`, `HrSuite`, `Accounts`, `Simulator` and `Terminals` | see Runs |
| `MCOutbox`, `MCLedger`, `MCTerminalApp` | constants, symmetry and state constraints for TLC | |

`Outbox` is shown to implement `DurableQueue`, and `Ledger` to implement
`ActionRegister`, by an `INSTANCE ... WITH` whose specification is checked as a
property and proved (of the outbox, as far as `Benign` below lets a primitive
fail). `TerminalApp` stands on `DurableQueue`, so what it shows holds above the
real outbox as far as `Outbox` implements it.

Operators whose comment starts with "Mistake:" are wrong variants of a
definition; no specification uses them. They show that each property would
notice a plausible bug.

### Abstractions worth knowing

- `Outbox`: damage to data that was flushed (wrong magic, version, checksum) is
  not modelled; a read that fails is modelled where a program verifies a file,
  not while a boot inspects the files. An append is torn or whole. LittleFS
  renames are atomic.
- `Ledger`: instants are integers and each request is received at an instant of
  its own; a hash is the index of its event, so two events never share a hash.
  Whether a tag is assigned, its owner active and the device's clock recent is a
  free choice at each request. The batch's signature and chain check, the scan
  context, audit records and notifications are left out. The tie between equal
  times, decided by the order of a Go map and an unstable sort, is a free choice.
- `TerminalApp`: the results ready at a tick are handled one by one, and an
  event only when none is left. `Second` moments make a second; a deadline is
  always seen before time runs on, because the loop turns fifty times a second.
  Whether a shift counts as long is a free choice. What the code leaves behind
  of a picker or an active action and sets again before reading is cleared.
  Each action is sent once, so the server's answer to a duplicate does not
  occur; local hashes, signatures, the synchronisation (not written yet in the
  firmware) and the boot gestures are left out. A request that fails in any way
  the code calls ambiguous is one outcome, `lost`, whether or not the server
  acted.
- `Timesheet`, `Statements`: time counts in ticks of a minute, four to a day
  and two days to a month; one employee; records as this version stores them
  (`iana_v1`), so neither older rows nor the change to summer time occur. The
  checks of a handler are one step, except in the closing, whose three reads
  are three steps: what the handlers read is read within one synchronous hook.
  Names, notes, audit records and mails are left out; a notification counts
  only where a property is about it.
- `Leave` counts days in halves and has years of three days, so that requests
  cross them; `Contracts` has real dates, since months and leap years matter.
- `Export`: a hash is the sequence of what is hashed, which makes two equal
  exactly when their texts are. A time is text of one of two forms, as the code
  writes it or as the database returns it.
- `HrSuite`, `Accounts`, `Leave`: PocketBase writes the columns of a record
  that changed since the request read it; this is why an old value is not
  always put back. It is taken from the library's documentation of `Save` and
  marked external in the map, like the clock.
- `Accounts`: one account, and one update by a manager under way at a time.
- `Simulator`: a signature stands for the number of the action it signs; the
  card, its owner and the tag stay as they are. A message and the idle screen,
  which take the same buttons, count as one. `holding` are the calls that will
  set the state of the scan that is shown: a call keeps the object it began
  with, and a new scan makes another. A shift becomes long at any moment it is
  brought up to date; the timer of a message may end whatever is shown after it.
  Whether `clockTrusted`, a computed value that reads no signal, is ever
  computed again is a matter of Angular and a constant, `ClockIsReread`. `TRUE`
  is how the code uses it, and what the run instantiates, since with `FALSE`
  nothing is ever stored (see Observations); the theorem holds for both.
- `Terminals`: a tick is three minutes; a company's activation of a person
  raises no revision of the cache, so `moved` keeps those people apart.

Ghost variables (`beside`, `disturbed`, `overlapped`, `entangled`, ...) record
that two requests were being handled at the same moment. A property that
excludes them says so: what the code does then is listed under Observations.

## Runs

| Run | Instance | What it shows |
|---|---|---|
| `outbox` | 4 actions, capacity 2, one failing write, rename, creation or removal other than the two below, 2 power losses | confirmed actions survive in order, completions always match the actions, no power cut alone ever leaves an unusable outbox, an interrupted recovery changes nothing, the outbox implements `DurableQueue`, and it comes up in the end |
| `outbox_promote` (violation) | one failing verification, 3 power losses | confirmed actions lost through an empty journal left by `promoteTruncatedOld` |
| `outbox_discard` (violation) | one failing removal of the superseded journal, 1 power loss | actions confirmed later are rolled back |
| `ledger` | 2 terminals, 2 actions of one employee, 2 requests at a time, 4 instants, clocks up to 1 ahead | one record per action, answers backed, linear chain, legal sequence, `ActionRegister` implemented |
| `ledger_web` | one browser, 5 instants, 2 corrections at any time | linear chain and legal sequence with times in any order |
| `ledger_fork` (violation) | one terminal action and one browser | the chain forks |
| `ledger_tie` (violation) | three actions, one request at a time | a command the sequence forbids is accepted after a tie |
| `terminal_app` | 1 card, 2 people, capacity 2, 3 moments, 5 jobs; one restart, or one clocking elsewhere, or the card revoked and given to the colleague | one job at a time and none forgotten; nothing sent before it is stored, dropped undecided or confirmed unrecorded; one action per scan, recorded for the person shown; no wait without an end |
| `terminal_picker` (violation) | the same, nothing changing elsewhere | the end of a break confirmed on an open time picker is refused |
| `worktime` | eight parts, below | time declared once, decisions applied once, approved time counted, month equal to sheet, versions in a chain, leave within balance, charged by the plan and without overlap, flexible weeks exact, browser and server in agreement |
| `worktime_panel` (violation) | one request and two clockings of today | the panel counts a shift that was annulled |
| `backoffice` | nine parts, below | exports valid exactly for what was written, records that keep their meaning, pages that offer what hooks accept, honest invitations, a simulator that loses nothing, devices in step with the company |

`MCWorkTime` and `MCBackOffice` check several components in one run. A variable
`part` is chosen at the start; the steps of that part are taken and the
variables of the others stay as they are, so the run is the union of smaller
ones. A property speaks of the variables of one module, and is broken in the
parts that move them.

| Part | Instance |
|---|---|
| `declarations` | two requests (a morning, a day with a break typed out of order, a night; or a replacement by nothing) beside two clockings, with and without approval |
| `corrections` | one request (a paid break among the drafts) and one correction, to a time past or still to come, with two supervisors |
| `moved` | one clocking, one correction that may move it to another day, two requests that annul a day |
| `restored` | a shift clocked today, two requests that replace it, and a correction of one event asked for and decided at any moment between them |
| `sheet` | one request and two clockings across the end of a month, while a schedule is published and archived |
| `closing` | two supervisors closing the same months, two receipts |
| `editor` | every draft of up to three intervals that the editor's buttons build |
| `leave` | two requests of four kinds by owner, manager or administrator, one reviewer beside the owner, three plans |
| `contract` | 70 days across three turns of the year, three contracts as sent |
| `export` | three events by any of five writers, then one damage |
| `expenses`, `tasks`, `goals`, `documents` | one record (and one folder), two people, two requests at once |
| `accounts` | two invitations, two addresses, one expiry |
| `simulator` | two actions, two calls at once; of a second start, two synchronisations and a clock a day old, two at most at a time |
| `tags` | two people and tags, room for one, two devices, two changes |
| `pin` | two PINs, two devices, two attempts at once, four in all |

Each part of `worktime` is small because its races are between two requests
about the same day, month or balance: the second request is the one that reads
what the first is about to change. Three intervals let a break be joined at
both ends; two days to a month let a shift cross its end. Two synchronisations
let an answer be lost and the batch be sent again; two revisions let a download
begin before and end after a change; four attempts reach the second waiting
time. Symmetry in `backoffice` is over requests and invitations.

Why the bounds of the other runs are enough. Outbox: a queue of two fills, compacts with one and
with two completions and fills again with four actions; the second power loss
falls into the recovery from the first, which is where a repair may undo a
repair. Ledger: two requests suffice for every race, since each race is between
two requests about one action or two actions of one employee; four instants let
each action be refused, repeated and answered again. Terminal: five jobs are a
bootstrap, a scan, the end of the break, the scan that refreshes it and the
closing, the longest path between two idle screens, and also two scans with an
action each, which fills the queue when an answer is lost; a scan is valid for
one moment and the picker for two, as ten seconds are to thirty. The state constraint
`DistinctTimes` keeps `ledger` and `ledger_web` clear of equal times, which
`ledger_tie` is about; the violation runs exist because the constraint and the
choice of `Faultable` would otherwise hide what they show. The
constraint `Small` of `terminal_app` lets one disturbance into a behaviour and
fixes whose the card is at first; `FewTroubles` of `backoffice` keeps the
simulator from meeting all its disturbances in one behaviour. Symmetry is over handlers and browsers only,
which no property names.

Fairness. `FairSpec` of `Outbox` states weak fairness of `Boot` and `Execute`. The terminal's only storage task runs a call to its end, and the
bootloader starts the firmware when there is power. Nothing obliges the power
to stay, so `EventuallyReady` relies on the bound on power losses: after the
last one. `FairSpec` of `TerminalApp` states weak fairness of `DoJob`, because
every request has a timeout (`NetworkWorkerPolicy::timeoutMs`) and the network
task has no other work, and of `TakeResult`, because the main loop polls on
every turn. Nothing is assumed of the network or of the person. The bounded specifications stop when their counters are exhausted, so
no run checks for deadlock.

## Proofs

The theorems hold for every value of the constants, that is for any number of
requests, devices, people and power losses, under the hypotheses each states.
Each rests on an inductive invariant that TLC checked first. The argument of
each module, from the device to the server:

`Outbox_proofs`, under `Benign`: no verification and no removal of a superseded
journal fails (findings 1 and 2 are about those), and where a rename may fail,
one primitive fails at most, since a second failed rename loses actions too (see
Observations); other failures and power losses may come any number of times.

- `OutboxIsAQueue`: `Outbox` implements `DurableQueue`. The invariant says at
  which *shape* each journal may be found: `NoSwap`, `Aside` (the old journal
  renamed, the new one not yet in place), `Replaced`; and ties the shape to the
  position of the running program (`DropAt`, `RepairAt`, `ActivateAt`,
  `AppendAt`, `CompleteAt`, `Compacting`, `PutBackAt`). `Sound` says that a
  recovery started now would find the actions held by the abstract queue. Each
  primitive keeps the recovered frames, or changes them as one step of the
  queue does (`QueueStep`), and the recovered frames are the accepted actions
  from some position on (`HeadIs`).
- `OutboxTypeCorrect`, `ConfirmedActionsSurvive`, `CompletionsStayInStep`,
  `OutboxIsUsable` and `RecoveryCanBeRepeated` are read off the same invariant.

`TerminalApp_proofs`: the invariant says of each screen what job is awaited
(`OneJobAtATime`), what an action under way was built from (`Shown`, `Kept`,
`Flight`) and what a result still to be handled promises (`Promises`). From it
follow `OneJobIsAwaited`, `StorageComesFirst`, `ThePersonShownIsRecorded`,
`UndecidedActionsAreKept`, `ConfirmationIsTrue` and `ScansAreSpent`.

`Ledger_proofs`, from `LedgerAssumption` (an action is a terminal with a
request; `None` is none of the values it stands beside; the bounds are
naturals):

- `TypeCorrect`: the inductive invariant is `IInv`, which adds `Drafts`: what a
  browser is about to save has no terminal origin and belongs to an employee
  who uses the web. Without it a saved draft could stand for a terminal action.
  That a new event's predecessor is a natural needs `TipIsAnIndex`.
- `RecordedExactlyOnce`: every step leaves the records alone or records one
  action that has no receipt (`StepRecords`); with `ExactlyOnce` before it, that
  action had no event and no incident.
- `AnswersAreBacked`: a receipt never changes (`ReceiptsStay`) and every answer
  agrees with the receipt (`StepAnswers`).
- `LedgerIsARegister`: the refinement, with the outcome read off the receipt
  (`OutcomeIsRecorded`).
- `TerminalsNeverFork`: `ChainIsLinear` is invariant if no employee clocks from
  the web. A new event follows the tip, which nobody follows (`LinkedToTip`).
  With the web application it is false: see `ledger_fork`.
- `TerminalsRecordLegally`: if no employee clocks from the web and while
  `DistinctTimes` holds, the effective events of a person are a legal
  succession: there are no corrections then, and each event the transaction
  appends is the latest and follows what was the latest. Without `DistinctTimes`
  it is false: see `ledger_tie`.

`Devices_proofs`, for `TerminalSpec`:

- `CachesStayTrue`: `CacheInv` adds that no label, in a device or in a download
  under way, is newer than the company's revision: a change of a tag then makes
  every label stale (`TagChangeKeepsCaches`), and an answer whose label is still
  the revision was read after the last change (`AnswerKeepsCaches`).
- `SessionsKeepThePin`: `SessionInv` adds that without overlap at most one
  request is in hand and a right one has the PIN in force, so that the session
  it opens has it too.
- `DevicesStayInStep` is the whole property, for finite sets of people and
  devices, `"organization"` the name of no device and a capacity that is a
  natural. `CountInv` adds that a counted request holds the counters as they are
  plus one, and that the company had waited long enough when the request was
  let in. The sum over the devices is the number of a set of units
  (`SumIsCount` in `Counting`), so one more failure is one more unit.

And for `SimulatorSpec`, `WhatIsStoredIsDelivered`. `SimulatorInv` adds that the
numbers in the queue ascend, that each action names the one before it
(`ChainOK`) and that an answer under way is about what was sent (`CallOK`). What
the server decided comes first in the queue unless it turned something down, so
that what is left is a chain still. That removing actions keeps the order
(`WithoutKeepsOrder`) is proved position by position, with the function that
places what is left in the queue.

`Timesheet_proofs`, from `TimesheetAssumption` (requests, corrections and the
live clock have names of their own; times and bounds are naturals):

- `LogIsAsDecided`: `LogFollowsDecisions` holds of any number of requests,
  corrections and supervisors. First, what reading the log returns
  (`EffectiveEvents`): the events in order of their times, each as the last
  correction read leaves it, and none whose last correction read is a void
  (`VoidedIsLeftOut`). It rests on what sorting and selecting keep
  (`StableByTimeArranges`, `OnlyKeepsOrder`) and on the corrections taken one by
  one (`DecidedOneMore`). The inductive invariant `LogInv` says that the log is
  well formed (`LogIs`), that an event is voided again only after it was
  restored or moved back (`VoidsOnce`), what each request wrote, by its status,
  with targets that are events, each once (`RequestsInv`), and what the requests
  for a correction wrote and may still write (`CorrectionsInv`). The step that
  needs it all is the approval of a replacement: the fingerprint it compares
  says that its targets are shown now, so that one of them which had been voided
  was restored or moved back since (`VoidedAndShown`).
- `TimesheetIsTyped`: `TimesheetTypes`, from the same invariant
  (`LogIsInvariant`).

The same module says what a log that is read further shows (`ReadFurther`): the
events it showed, in the same order, and then later ones, provided that no
correction moves an event across the limit (`NoneMovesAcross`). So its spans of
work are the same up to there (`SpansReadFurther`, `WorkSpansBeyond`) and its
anomalous days too (`AnomaliesReadFurther`).

`WorkTime_proofs`:

- `MonthsFormAChain`, whatever the log, the plans and the clock do.
  `StatementInv` adds that versions grow with their positions (`Ascending`) and
  that a closing under way holds the number after the one of the statement it
  read (`Numbered`), which may be old. A number that is free in the unique
  index is the next one of the month all the same (`FreeVersionIsNext`): the
  index, not the reading, is what keeps the chain.
- `ClosedMonthsMatch`: `ClosedMonthMatchesSheet`, from `TimesheetSpec` and
  `StatementSpec` together, whose steps may come in any order or at once, and
  from `StatementAssumption` (contracts, schedules and leaves have the fields of
  their collections). Both handlers' spans begin with the same ones, and what
  either adds begins after the month, so that it adds no minute to a day of the
  month, nor to the week of one (`BothReadings`, `WorkedBeforeLimit`). Day by day
  the minutes worked, ordinary and beyond are then the same (`DayCountsAlike`);
  they are naturals because what is planned is one (`PlannedIsNatural`, from
  `PlanInv`: schedules stay well formed as they are published and archived), and
  sums of naturals add up (`SumsAdd`, on the smallest set of days on which they
  would not).
- `BrowserAgrees`: `WebAgreesWithServer`, from `TimesheetSpec` and `EditorSpec`
  together and from `WebTimeAssumption`. Of the editor: `EditorInv` says what its
  rows may be; both sides put the same intervals in the same order, since each
  sorts by the time they begin and accepts only what is apart, and the sums of
  work and of breaks are the same sums. Of the panel: it reads the log of one
  day with corrections applied in its own way, and finds each event where the
  server's reading has it (`EffectiveIsUnique`); over a legal day its own fold
  of clockings then gives the minutes of `workSpans`.
- `LeavesDoNotOverlap`, for drafts that are whole days. `LeaveInv` adds that
  what made its checks has nothing standing in its way but what is handled
  beside it (`CheckedIsClear`), and that the leave an update request holds is
  still pending or has been decided by a request beside it (`DesksHold`).
- `LeaveIsWithinBalance`, for finitely many leaves. `ChargeFits`: what a leave
  was charged at its check still fits the balance when nothing is handled beside
  it, since every step that changes what is used or the balance is marked.
- `WeeksArePlanned`, from `ContractData` (walks begin on true dates that fall on
  `FirstWeekday`, minutes are naturals), for a calendar of any length. A year
  adds one to the weekday of its dates and two after a leap day (`YearsShift`),
  so that Zeller's congruence follows the calendar past every month, year and
  century (`WeekdayOfNextDate`). The minutes of the first weekdays of a week are
  their shares and what was given out of the remainder (`OneWeekdayMore`,
  `GivenGrows`); after the seventh day that is the week contracted
  (`WeekAddsUp`). `ContractInv` adds that the contract stored works on some
  weekday, whatever was sent. It is the `contract` part of `PlansAddUp`; the
  other part, what a leave is charged, is not true of every plan (a schedule of
  no minutes, fewer minutes a week than weekdays), so it stays with the runs.

`BackOffice_proofs`:

- `LinksAreHonest`. Whatever overlaps, a link is used once and an update never
  changes a role it did not mean to. As long as nothing overlaps or fails
  (`Calm`), what the one request in hand has read is how things are
  (`InHandOK`), the last link mailed is the only one that may work (`OneLink`)
  and the status says so (`StatusOK`). A save writes the columns it changed; it
  leaves exactly the new record because nothing changed meanwhile
  (`SavedUsers`).
- `RecordsMean` and `PagesAndServerAgree`, from `HrData` (the kinds of records
  share no identifiers; `"none"` and `"nobody"` stand for no folder and no
  person). `HrInv` adds that two requests that share a record are known to
  (`DeskOK`), and of each request that a record it alone holds is as it was
  read: with one exception, an expense read as a draft may have been deleted and
  another created in its place, over which its save writes a draft or a request
  for payment, never an approval (`ExpenseJob`). A folder that is being deleted
  holds only documents that are known to have come meanwhile (`FolderJob`), and
  no document names a folder that is gone, whatever overlaps (`FoldersExist`):
  the pages rest on this.
- `PackageIsHonest` (the property `PackageTellsWhatWasWritten` of `Export`). The
  invariant says of an undamaged record that every row holds the hash its writer
  works out from the row's own columns (`WellSealed`, one disjunct per recipe),
  that each row names the hash of the one before and that no two rows have the
  same request (`WellLinked`). Each recipe has the request in a place of its own,
  so a hash tells its request (`HashTellsRequest`) and no two rows share a hash;
  the tip is then the last row (`TipIsLast`), and a row appended to it keeps the
  chain (`ChainGrows`). A changed column or a lost row breaks a hash or a link
  (`DamageIsSeen`). It rests on hashes that are equal only when their texts are.

What is only model-checked: `LegalSequence` and `ChainIsLinear` with browsers;
that time is declared once and approved time counted; the charge of a leave. Most of these fold, sort and add up sequences. The library's
induction theorems take an operator as a parameter, which the installed provers
cannot instantiate; a least counterexample over naturals or over subsets of a
finite set does the same work by hand, as in `Counting`, `Devices_proofs` and
`Timesheet_proofs`, and is long wherever events are sorted. Liveness (`EventuallyReady`, and that the application
does not wait for ever) stays with TLC: the provers cannot handle fairness.

## Findings

1. A power cut while a torn journal is promoted loses confirmed actions
   (`outbox_promote`, `outbox_codec.cpp:523`).
2. A failed removal after a compaction makes a later torn append roll back
   confirmed actions (`outbox_discard`, `outbox_codec.cpp:573`).
3. A terminal action between the web hook and its save forks the chain of
   hashes (`ledger_fork`, `main.pb.js:336`).
4. Events at the same instant have no order (`ledger_tie`, `events.go:104`).
5. The end of a break chosen on the time picker is refused once the scan it
   came from has expired, ten seconds after it, and leaves the outbox; the
   picker stays open for thirty seconds after each press (`terminal_picker`,
   `app_controller.cpp:510`).
6. The panel of today counts a shift that was replaced by nothing
   (`worktime_panel`, `time-calculations.ts:3`).

The property of finding 5 has a second counterexample, with `Second = 2` and a
`ScanTTL` long enough: `parseRfc3339` drops the fraction of a second of the
state's `since`, so the earliest time the picker offers
(`app_controller.cpp:454`) may be before the last event, and the server refuses
it (`events.go:193`). The web hook allows for the same rounding
(`main.pb.js:304`).

Because the outbox completes in order, one lost answer keeps every later action
in the queue until it is synchronised. The firmware's plan lists the
synchronisation as pending (`docs/superpowers/plans/2026-08-21-m5stack-firmware.md`),
so this is no finding.

## Observations

What the models show beside the findings. A property that such a case would
break names the exclusion. Most of these no text of the repository speaks of;
where a text says otherwise in general terms, it is named.

- Requests for time that touch, approved in reverse order, lose work: the two
  events at the same instant have no order (`timesheet_helpers.js:365`).
- The clock of the web goes on from the latest event by time, voided or not
  (`main.pb.js:255-275`): after an open shift was replaced by nothing, the next
  clocking may be the break or the exit of the shift that no longer counts. And
  a replacement may void a shift in parts: the editor of a day shows only some
  of its events when another shift lies in its break, or when the shift goes on
  past the two days it reads. What such a log counts is no longer what was
  declared, so `TimeIsDeclaredOnce` and `ApprovedTimeIsCountedInAPlainLog` ask
  for logs in which neither happened (`ShiftsAreWhole`) and whose order is
  certain (`OrderIsCertain`).
- The clock may end a break at a time past, while a request for that time has
  made its checks and is not stored yet: the break becomes work by the request's
  side, and both count (`beside` holds the request).
- A correction of one event may be asked for while a replacement of its day is
  pending, or after the event was voided (`operations.pb.js:538-560` looks for
  another pending correction only), and is applied whatever became of the event:
  a correction of a voided event reads it back (`timesheet_helpers.js:325`), so
  that it counts beside what replaced it, and may be voided a second time.
- The server accepts any time a correction asks for (`operations.pb.js:541-577`);
  the panel of today applies one to a time more than a day ahead, which the
  server does not read yet.
- A void carries the time its target was first recorded at
  (`timesheet_helpers.js:806`). An event that a correction moved back to an
  earlier day is voided by the replacement of that day, but the editor of the
  day, which reads no further than two days on, offers it again, and a second
  replacement voids it again (`docs/FEATURES.md:53-56` does not mention the
  case).
- The sheet and the statement read the log up to different times
  (`timesheet_helpers.js:283-290`). A correction that takes an event across the
  limit of the statement is applied in one of the two only (`NoneCrosses`); and
  a shift of the month that is still open at that limit is counted by the
  statement to the end of the month, by the sheet not at all when the next entry
  begins another shift (`NoneLeftOpen`). The anomaly of such a shift is dated
  after the month, so the month can be closed, although the message of the
  check asks to correct incomplete sequences first (`compliance_helpers.js:210`).
- The panel of today and the server disagree about a break of which one end only
  is paid.
- Two attempts at a PIN handled at once may be counted once, and a session
  opened with the old PIN may survive its change (`device.go:140`, `:66`).
- A person activated again with a tag may exceed the capacity of 30
  (`docs/superpowers/specs/2026-08-18-rfid-terminal-design.md:34`), and the
  device learns of a deactivation only with the next change of a tag.
- Two renames that fail one after the other, the one that puts the new journal
  in place and the one that puts the old one back (`outbox_codec.cpp:911-912`),
  leave an outbox that reports itself ready without a current journal; the next
  action creates one, and the next start takes it for the whole outbox. Both
  must fail without a loss of power, so `outbox` lets one of them fail.
- Two invitations issued at once revoke each other's link.
- The simulator sends its whole queue, up to 10000 actions
  (`terminal-simulator.component.ts:333`), of which the server takes 500 in a
  batch (`events.go:347`); two signatures under way at once, or an action turned
  down in the middle of a queue, leave a queue that is refused for ever.
- A picked end of a shift shows no message and leaves the simulator's picker
  open over a shift that has ended (`terminal-simulator.component.ts:301-308`):
  B stores the end again.
- `clockTrusted` of the simulator (`:73-75`) is an Angular computed value that
  reads no signal. It is first read when the page is drawn, before any answer of
  a server; where Angular keeps that value, as its documentation of `computed`
  has it, no card is ever read offline and nothing is stored, although
  `2026-08-18-rfid-terminal-design.md:250` has the simulator go through every
  offline state. For the same reason the labels of its buttons (`:66-69`) stay as
  they were when the state is replaced inside the scanned object (`:400`): after
  four hours C reads "Terminar" and opens the picker.
- A leave decided twice at once may revive after its cancellation, when its
  days have been given away.
- A manager's reading of an own document without a folder is confirmed on the
  page and never recorded (`hr_suite.pb.js:437-441`); a document that is moved
  to another person keeps the reading of the previous one; a manager's own
  expense draft can never be submitted; an edited expense keeps its
  out-of-policy verdict.
- The export does not notice the loss of the last row, nor a change of a column
  no recipe seals: whether a break is paid, and the kind of a void.

## What is left

- A proof of `TimeIsDeclaredOnce` of `Timesheet`, which needs the spans of a log
  that requests and the live clock wrote in turns. `LegalSequence` with browsers
  needs the order of corrected events.
- `CacheStore`, once the firmware uses its cache; the synchronisation of the
  firmware, once it is written.
- Break types, categories, legal holds, announcements: one save each.

## Not modelled

- The cache store of the firmware (`cache_store.cpp`): the program only formats
  and clears it; nothing calls `load` or `replaceAtomically`.
- Creating, renaming, revoking a terminal and rotating its key; the resolution
  of incidents: single saves that other requests read when they authenticate.
- Formatting, drawing, provisioning pages, the migration of existing data, the
  MCP server's read-only tools, the labour calendar's import, branding, legal
  holds, announcements, the pages of the web application that only show
  collections: they keep little state, and none that two actors share.
- Sign-in and password reset are PocketBase's. Backups, TLS and the operating
  system are outside the repository.
