---------------------------- MODULE TerminalApp ----------------------------
(***************************************************************************)
(* The application of the M5Stack terminal (firmware/terminal/src/app/     *)
(* app_controller.cpp) between four others: the person at the reader and   *)
(* the buttons, the network task with its job slots (network_worker.cpp),  *)
(* the durable outbox, of which it needs only what DurableQueue promises,  *)
(* and the server's resolve and actions endpoints.                         *)
(*                                                                         *)
(* The main loop calls tick(), which handles the results that are ready    *)
(* and then one event.  A step of this specification is the handling of    *)
(* one result, or of one event when no result is left.  The network task,  *)
(* the clock, the network, other users of the server and a restart may     *)
(* step in between.                                                        *)
(*                                                                         *)
(* Time is a counter of moments, Second of them to the second.  Only one   *)
(* deadline counts on any screen, so one variable stands for the four of   *)
(* the code.  The screen "busy" is a message that waits for a result and   *)
(* has no deadline.  A stored action is named by its number, and jobs are  *)
(* numbered on after a restart, which no earlier job survives.             *)
(***************************************************************************)
EXTENDS Integers, Sequences, FiniteSets

CONSTANTS Tag,              \* RFID cards
          Employee,         \* the people who clock
          None,             \* no card, employee, scan, result or chosen time
          Capacity,         \* how many pending actions the outbox takes
          Slots,            \* NetworkWorker::kQueueCapacity
          Second,           \* moments in a second
          ScanTTL,          \* scanContextTTL
          SelectionTime,    \* kActionSelectionMs
          InteractionTime,  \* kInteractionInactivityMs
          MessageTime,      \* kMessageMs, kSuccessMessageMs
          RetryTime,        \* the wait before another bootstrap
          ClockTrust,       \* maxOfflineDuration
          Steps,            \* how far one press or hold moves the time picker
          MaxNow,           \* bound: moments
          MaxJobs,          \* bound: jobs
          MaxRestarts,      \* bound: restarts
          MaxChanges        \* bound: changes made elsewhere on the server

ASSUME TerminalAppAssumption ==
  /\ None \notin Tag /\ None \notin Employee /\ None \notin Int
  /\ {Capacity, Slots, Second} \subseteq Nat \ {0}
  /\ {ScanTTL, SelectionTime, InteractionTime, MessageTime, RetryTime, ClockTrust,
      MaxNow, MaxJobs, MaxRestarts, MaxChanges} \subseteq Nat
  /\ Steps \subseteq Nat

Command == {"clock_in", "break_start", "break_end", "clock_out"}
Work == {"idle", "working", "on_break"}
Screen == {"boot", "idle", "busy", "message", "actions", "picker", "confirm"}

\* terminalState and allowedCommands: the state each command needs and leaves.
Needs(c) == CASE c = "clock_in" -> "idle"
              [] c \in {"break_start", "clock_out"} -> "working"
              [] c = "break_end" -> "on_break"
Leaves(c) == CASE c \in {"clock_in", "break_end"} -> "working"
               [] c = "break_start" -> "on_break"
               [] c = "clock_out" -> "idle"

VARIABLES
  now,          \* the clock
  online,       \* Wi-Fi is connected
  clockSet,     \* the device's clock has a plausible time (NTP)
  screen,       \* screen_.kind
  deadline,     \* when the screen gives up, or None
  says,         \* what a message tells the person: "confirmed", "saved", "error"
  ready,        \* bootstrapReady_
  retryAt,      \* bootstrapRetryAtMs_
  synced,       \* clockSyncedAt_, or None
  job,          \* activeJobId_, 0 if none
  nextJob,      \* nextJobId_
  uid,          \* currentUid_, or None
  resolved,     \* resolved_: the last scan's answer, or None
  closing,      \* closeExpectedEmployeeId_ while resolveForClockOut_, or None
  picker,       \* the time picker's command, range and choice
  active,       \* activeActionRequestId_ (0 if none) and activeActionClosesBreak_
  jobs,         \* the network task's queue of jobs
  results,      \* its queue of results
  accepted, known, head,    \* the outbox, as in DurableQueue
  owner,        \* server: whose card each is
  work,         \* server: each employee's state and the time of the last event
  events,       \* server: the events this terminal's actions became
  changes,      \* changes made elsewhere so far
  restarts,     \* restarts so far
  person,       \* history: whose name the screen has shown since the last scan
  pressed,      \* history: who confirmed each stored action, after which scan
  decided       \* history: the actions the server recorded or refused

outboxVars == <<accepted, known, head>>
workerVars == <<jobs, results>>
serverVars == <<owner, work, events, changes, decided>>
worldVars == <<now, online, clockSet, restarts>>
bootVars == <<ready, retryAt, synced>>
scanVars == <<uid, resolved, closing, picker, active, person>>
vars == <<worldVars, screen, deadline, says, bootVars, job, nextJob, scanVars,
          workerVars, outboxVars, serverVars, pressed>>

Queue == INSTANCE DurableQueue WITH Action <- Nat

WholeSecond(t) == t - (t % Second)      \* parseRfc3339 and isoUtc drop fractions

\* Mistake: the time picker is only kept from going past the present.
ClampHigh(t, low, high) == IF t > high THEN high ELSE t

Clamp(t, low, high) == IF t < low THEN low ELSE IF t > high THEN high ELSE t

NoPicker == [command |-> "clock_out", closesBreak |-> FALSE, min |-> 0, max |-> 0, selected |-> 0]
NoActive == [request |-> 0, closesBreak |-> FALSE]

-----------------------------------------------------------------------------
(***************************************************************************)
(* Screens.                                                                *)
(***************************************************************************)
Show(s, until) == /\ screen' = s
                  /\ deadline' = until
                  /\ says' = "nothing"

ShowMessage(what) == /\ screen' = "message"
                     /\ deadline' = now + MessageTime
                     /\ says' = what

ShowBusy == Show("busy", None)

\* returnToIdle forgets the scan and whatever was under way with it.  (What it
\* leaves of the picker and the active action is set again before it is read.)
ReturnToIdle == /\ Show("idle", None)
                /\ uid' = None
                /\ resolved' = None
                /\ closing' = None
                /\ picker' = NoPicker
                /\ active' = NoActive
                /\ person' = None

(***************************************************************************)
(* Jobs.  enqueue() refuses when every slot is taken, or for lack of       *)
(* memory.                                                                 *)
(***************************************************************************)
NewJob(kind, tag, action) == [id |-> nextJob, kind |-> kind, tag |-> tag, action |-> action]

CanEnqueue == Len(jobs) + Len(results) < Slots

Enqueue(j) == /\ CanEnqueue
              /\ jobs' = Append(jobs, j)
              /\ job' = j.id

\* Mistake: the job counts as under way before the task has taken it.
DontEnqueueMarks(current) == /\ job' = nextJob
                             /\ UNCHANGED jobs

DontEnqueue(current) == /\ job' = current
                        /\ UNCHANGED jobs

CountJob == /\ nextJob <= MaxJobs
            /\ nextJob' = nextJob + 1

-----------------------------------------------------------------------------
(***************************************************************************)
(* executeAction: the action is stored and only then sent.  current is the *)
(* job still under way.                                                    *)
(***************************************************************************)
Prepared(who, current) == /\ who # None /\ uid # None /\ ready
                          /\ current = 0 /\ clockSet /\ synced # None

Pending == Len(accepted) - head

NewAction(who, command, applied) ==
  [request |-> Len(accepted) + 1, card |-> uid, employee |-> who.employee,
   expires |-> who.expires, command |-> command, captured |-> WholeSecond(now),
   applied |-> applied, synced |-> synced]

NotStored(current) == /\ ShowMessage("error")
                      /\ DontEnqueue(current)
                      /\ UNCHANGED <<nextJob, active, outboxVars, pressed>>

\* Mistake: what could not be stored is sent all the same.
StoreOrNot(who, command) ==
  \/ /\ Pending < Capacity
     /\ Queue!Accept(Len(accepted) + 1)
     /\ pressed' = Append(pressed, [by |-> person, scan |-> who.scan, command |-> command])
  \/ UNCHANGED <<outboxVars, pressed>>

Store(who, command) ==
  /\ Pending < Capacity
  /\ Queue!Accept(Len(accepted) + 1)
  /\ pressed' = Append(pressed, [by |-> person, scan |-> who.scan, command |-> command])

\* Mistake: an action that could not be sent leaves the person at the buttons.
SendKeepsScreen(who, command, applied, closesBreak, current) ==
  \/ /\ online
     /\ Enqueue(NewJob("action", uid, NewAction(who, command, applied)))
     /\ active' = [request |-> Len(accepted) + 1, closesBreak |-> closesBreak]
     /\ ShowBusy
  \/ /\ DontEnqueue(current)
     /\ active' = NoActive
     /\ UNCHANGED <<screen, deadline, says>>

Send(who, command, applied, closesBreak, current) ==
  \/ /\ online
     /\ Enqueue(NewJob("action", uid, NewAction(who, command, applied)))
     /\ active' = [request |-> Len(accepted) + 1, closesBreak |-> closesBreak]
     /\ ShowBusy
  \/ /\ DontEnqueue(current)
     /\ active' = NoActive
     /\ ShowMessage("saved")

Execute(who, command, applied, closesBreak, current) ==
  \/ /\ ~Prepared(who, current)
     /\ NotStored(current)
  \/ /\ Prepared(who, current)
     /\ NotStored(current)
  \/ /\ Prepared(who, current)
     /\ Store(who, command)
     /\ CountJob
     /\ Send(who, command, applied, closesBreak, current)

-----------------------------------------------------------------------------
(***************************************************************************)
(* Events.  Each is handled when no result is waiting.                     *)
(***************************************************************************)
Expired == /\ screen \in {"message", "actions", "picker", "confirm"}
           /\ now >= deadline

GiveUp == IF screen = "message" /\ ~ready
          THEN Show("boot", None) /\ UNCHANGED scanVars
          ELSE ReturnToIdle

BootstrapDue == ~ready /\ job = 0 /\ online /\ now >= retryAt

\* handleTimer: asks for the bootstrap, or looks at the deadline.
StartBootstrap ==
  /\ results = <<>> /\ BootstrapDue
  /\ CountJob /\ Enqueue(NewJob("bootstrap", None, None))
  /\ Show("boot", None)
  /\ UNCHANGED <<worldVars, bootVars, scanVars, results, outboxVars, serverVars, pressed>>

BootstrapPutOff ==
  /\ results = <<>> /\ BootstrapDue
  /\ CountJob /\ DontEnqueue(job)
  /\ retryAt' = now + RetryTime
  /\ IF Expired THEN GiveUp ELSE UNCHANGED <<screen, deadline, says, scanVars>>
  /\ UNCHANGED <<worldVars, ready, synced, results, outboxVars, serverVars, pressed>>

DeadlinePasses ==
  /\ results = <<>> /\ ~BootstrapDue
  /\ Expired /\ GiveUp
  /\ UNCHANGED <<worldVars, bootVars, job, nextJob, workerVars, outboxVars, serverVars, pressed>>

\* handleTag.
ScanCard(t) ==
  /\ results = <<>>
  /\ ready /\ online /\ job = 0 /\ screen = "idle"
  /\ CountJob
  /\ \/ /\ Enqueue(NewJob("resolve", t, None))
        /\ uid' = t
        /\ ShowBusy
     \/ /\ DontEnqueue(job)
        /\ ShowMessage("error")
        /\ UNCHANGED uid
  /\ UNCHANGED <<worldVars, bootVars, resolved, closing, picker, active, person,
                 results, outboxVars, serverVars, pressed>>

\* The buttons of the actions screen, by the scanned state.
Offered == CASE resolved.work = "idle"     -> {"clock_in"}
             [] resolved.work = "working"  -> {"break_start", "clock_out"}
             [] resolved.work = "on_break" -> {"break_end"}

ChooseAction(c) ==
  /\ results = <<>>
  /\ screen = "actions" /\ job = 0 /\ resolved # None
  /\ c \in Offered
  /\ Execute(resolved, c, None, FALSE, job)
  /\ UNCHANGED <<worldVars, bootVars, uid, resolved, closing, picker, person, results, serverVars>>

\* openTimePicker: a long shift that ended earlier, or the end of a break.
AskTime ==
  LET latest == IF clockSet THEN WholeSecond(now) ELSE 0
      since == WholeSecond(resolved.since)
  IN /\ results = <<>>
     /\ screen = "actions" /\ job = 0 /\ resolved # None
     /\ \/ resolved.work = "working" /\ resolved.long
        \/ resolved.work = "on_break"
     /\ picker' = [command |-> IF resolved.work = "working" THEN "clock_out" ELSE "break_end",
                   closesBreak |-> resolved.work = "on_break",
                   min |-> IF since > latest THEN latest ELSE since,
                   max |-> latest, selected |-> latest]
     /\ Show("picker", now + InteractionTime)
     /\ UNCHANGED <<worldVars, bootVars, job, nextJob, uid, resolved, closing, active, person,
                    workerVars, outboxVars, serverVars, pressed>>

MoveTime ==
  /\ results = <<>>
  /\ screen = "picker"
  /\ \E step \in Steps, sign \in {-1, 1} :
       picker' = [picker EXCEPT !.selected = Clamp(@ + sign * step, picker.min, picker.max)]
  /\ Show("picker", now + InteractionTime)
  /\ UNCHANGED <<worldVars, bootVars, job, nextJob, uid, resolved, closing, active, person,
                 workerVars, outboxVars, serverVars, pressed>>

ConfirmTime ==
  /\ results = <<>>
  /\ screen = "picker"
  /\ Execute(resolved, picker.command, picker.selected, picker.closesBreak, job)
  /\ picker' = NoPicker
  /\ UNCHANGED <<worldVars, bootVars, uid, resolved, closing, person, results, serverVars>>

DeclineClose ==
  /\ results = <<>>
  /\ screen = "confirm" /\ job = 0
  /\ ReturnToIdle
  /\ UNCHANGED <<worldVars, bootVars, job, nextJob, workerVars, outboxVars, serverVars, pressed>>

\* enqueueCloseRefresh: the card is resolved again before the day is closed.
AcceptClose ==
  /\ results = <<>>
  /\ screen = "confirm" /\ job = 0
  /\ \/ /\ online /\ uid # None /\ resolved # None
        /\ CountJob
        /\ Enqueue(NewJob("resolve", uid, None))
        /\ closing' = resolved.employee
        /\ ShowBusy
     \/ /\ IF online THEN CountJob ELSE UNCHANGED nextJob
        /\ DontEnqueue(job)
        /\ ShowMessage("error")
        /\ UNCHANGED closing
  /\ UNCHANGED <<worldVars, bootVars, uid, resolved, picker, active, person,
                 results, outboxVars, serverVars, pressed>>

-----------------------------------------------------------------------------
(***************************************************************************)
(* Results: processNetworkResult, handleActionResult.  The active job is   *)
(* over before its result is looked at.                                    *)
(***************************************************************************)
Unqueue == /\ results' = Tail(results)
           /\ UNCHANGED <<worldVars, serverVars>>

BootstrapAnswered(r) ==
  /\ IF r.outcome = "ok"
     THEN /\ ready' = TRUE
          /\ synced' = r.time
          /\ ReturnToIdle
          /\ UNCHANGED retryAt
     ELSE /\ ShowMessage("error")
          /\ retryAt' = now + RetryTime
          /\ UNCHANGED <<ready, synced, scanVars>>
  /\ DontEnqueue(0)
  /\ UNCHANGED <<nextJob, outboxVars, pressed>>

ScanAnswered(r) ==
  /\ IF r.outcome = "ok"
     THEN /\ resolved' = r.scan
          /\ person' = r.scan.employee
          /\ Show("actions", now + SelectionTime)
     ELSE /\ ShowMessage("error")
          /\ UNCHANGED <<resolved, person>>
  /\ DontEnqueue(0)
  /\ UNCHANGED <<bootVars, nextJob, uid, closing, picker, active, outboxVars, pressed>>

\* Mistake: whoever owns the card now is taken for the person who asked.
AnyPerson(r) == TRUE

\* The person asked to close the day: the card must still be the same person's.
SamePerson(r) == r.scan.employee = closing

CloseRefreshed(r) ==
  LET same == r.outcome = "ok" /\ SamePerson(r)
  IN /\ closing' = None
     /\ resolved' = IF same THEN r.scan ELSE resolved
     /\ IF same /\ r.scan.work = "working"
        THEN Execute(r.scan, "clock_out", None, FALSE, 0)
        ELSE NotStored(0)
     /\ UNCHANGED <<bootVars, uid, picker, person>>

\* Outbox::complete takes the oldest pending action only, and may fail to write.
Complete(request, stored) ==
  \/ /\ stored
     /\ head < Len(accepted) /\ accepted[head + 1] = request
     /\ Queue!Resolve
  \/ /\ ~stored
     /\ UNCHANGED outboxVars

\* Mistake: no answer is taken for a refusal.
NothingAmbiguous(r) == FALSE

\* What the server says of a request that failed without an answer is unknown.
Ambiguous(r) == r.outcome = "lost"

\* Mistake: a confirmation on the screen does not wait for the outbox.
ConfirmsAnyway(stored) == TRUE

Confirms(stored) == stored

ActionAnswered(r) ==
  /\ active' = NoActive
  /\ \/ /\ Ambiguous(r)
        /\ ShowMessage("saved")
        /\ UNCHANGED <<resolved, outboxVars>>
     \/ /\ ~Ambiguous(r)
        /\ resolved' = IF r.work = None THEN resolved ELSE [resolved EXCEPT !.work = r.work]
        /\ \E stored \in BOOLEAN :
             /\ Complete(active.request, stored)
             /\ IF r.outcome # "ok" THEN ShowMessage("error")
                ELSE IF ~Confirms(stored) THEN ShowMessage("saved")
                ELSE IF active.closesBreak THEN Show("confirm", now + InteractionTime)
                ELSE ShowMessage("confirmed")
  /\ DontEnqueue(0)
  /\ UNCHANGED <<bootVars, nextJob, uid, closing, picker, person, pressed>>

TakeResult ==
  /\ results # <<>>
  /\ Unqueue
  /\ LET r == Head(results)
     IN \/ r.id = job /\ r.kind = "bootstrap" /\ BootstrapAnswered(r)
        \/ r.id = job /\ r.kind = "resolve" /\ closing = None /\ ScanAnswered(r)
        \/ r.id = job /\ r.kind = "resolve" /\ closing # None /\ CloseRefreshed(r)
        \/ r.id = job /\ r.kind = "action" /\ ActionAnswered(r)
        \/ r.id # job /\ UNCHANGED <<screen, deadline, says, bootVars, job, nextJob, scanVars,
                                     jobs, outboxVars, pressed>>

-----------------------------------------------------------------------------
(***************************************************************************)
(* The server: resolveTag, performAction and recordTerminalAction, as far  *)
(* as they concern this terminal.                                          *)
(***************************************************************************)
Effective(a) == IF a.applied = None THEN now ELSE a.applied

Verdict(a) ==
  CASE WholeSecond(now) > WholeSecond(a.expires)                    -> "expired"
    [] owner[a.card] # a.employee                                   -> "unknown_tag"
    [] a.synced > a.captured \/ a.captured - a.synced > ClockTrust  -> "clock_untrusted"
    [] work[a.employee].state # Needs(a.command)                    -> "state_conflict"
    [] \/ a.applied # None /\ a.applied > a.captured
       \/ Effective(a) < work[a.employee].since                     -> "bad_time"
    [] OTHER                                                        -> "accepted"

Record(a) ==
  IF Verdict(a) = "accepted"
  THEN /\ work' = [work EXCEPT ![a.employee] = [state |-> Leaves(a.command), since |-> Effective(a)]]
       /\ events' = events \cup {[request |-> a.request, employee |-> a.employee, command |-> a.command]}
  ELSE UNCHANGED <<work, events>>

\* The server's part of a job: only an action changes anything.
Serve(j) ==
  IF j.kind = "action"
  THEN /\ Record(j.action)
       /\ decided' = decided \cup {j.action.request}
       /\ UNCHANGED <<owner, changes>>
  ELSE UNCHANGED serverVars

Lost(j) == [id |-> j.id, kind |-> j.kind, outcome |-> "lost", why |-> "none",
            scan |-> None, work |-> None, time |-> now]

ScanOf(j, long) ==
  LET e == owner[j.tag]
  IN [scan |-> j.id, employee |-> e, expires |-> now + ScanTTL,
      work |-> work[e].state, since |-> work[e].since,
      long |-> long /\ work[e].state = "working"]

\* How long a shift is depends on earlier events: either is possible.
Answers(j) ==
  CASE j.kind = "bootstrap" -> {[Lost(j) EXCEPT !.outcome = "ok"]}
    [] j.kind = "resolve" ->
         IF owner[j.tag] = None
         THEN {[Lost(j) EXCEPT !.outcome = "refused", !.why = "unknown_tag"]}
         ELSE {[Lost(j) EXCEPT !.outcome = "ok", !.scan = ScanOf(j, long)] : long \in BOOLEAN}
    [] j.kind = "action" ->
         LET verdict == Verdict(j.action)
         IN IF verdict = "accepted"
            THEN {[Lost(j) EXCEPT !.outcome = "ok", !.why = verdict,
                                  !.work = Leaves(j.action.command)]}
            ELSE {[Lost(j) EXCEPT !.outcome = "refused", !.why = verdict,
                     !.work = IF verdict = "state_conflict" THEN work[j.action.employee].state ELSE None]}

\* Mistake: a request that fails leaves no result behind.
DoJobForgets ==
  /\ jobs # <<>>
  /\ jobs' = Tail(jobs)
  /\ LET j == Head(jobs)
     IN \/ /\ online /\ Serve(j)
           /\ \E r \in Answers(j) : results' = Append(results, r)
        \/ UNCHANGED <<results, serverVars>>
  /\ UNCHANGED <<worldVars, screen, deadline, says, bootVars, job, nextJob, scanVars,
                 outboxVars, pressed>>

(***************************************************************************)
(* The network task takes the oldest job, asks the server and queues the   *)
(* result.  Request or answer may be lost; either way there is a result.   *)
(***************************************************************************)
DoJob ==
  /\ jobs # <<>>
  /\ jobs' = Tail(jobs)
  /\ LET j == Head(jobs)
     IN \/ /\ online /\ Serve(j)
           /\ \E r \in Answers(j) \cup {Lost(j)} : results' = Append(results, r)
        \/ /\ results' = Append(results, Lost(j))
           /\ UNCHANGED serverVars
  /\ UNCHANGED <<worldVars, screen, deadline, says, bootVars, job, nextJob, scanVars,
                 outboxVars, pressed>>

-----------------------------------------------------------------------------
(***************************************************************************)
(* The world around the terminal.                                          *)
(***************************************************************************)
terminalVars == <<screen, deadline, says, bootVars, job, nextJob, scanVars, workerVars,
                  outboxVars, pressed>>

\* The main loop looks at the deadline 50 times a second: time does not run on
\* while one has passed unseen.
Tick == /\ now < MaxNow /\ ~Expired
        /\ now' = now + 1
        /\ UNCHANGED <<online, clockSet, restarts, terminalVars, serverVars>>

NetworkChanges == /\ online' = ~online
                  /\ UNCHANGED <<now, clockSet, restarts, terminalVars, serverVars>>

ClockIsSet == /\ ~clockSet /\ online
              /\ clockSet' = TRUE
              /\ UNCHANGED <<now, online, restarts, terminalVars, serverVars>>

\* The person clocks from the web or at another terminal.
ClockElsewhere(e, c) ==
  /\ changes < MaxChanges
  /\ work[e].state = Needs(c)
  /\ work' = [work EXCEPT ![e] = [state |-> Leaves(c), since |-> now]]
  /\ changes' = changes + 1
  /\ UNCHANGED <<worldVars, terminalVars, owner, events, decided>>

\* A card in use is not given to anyone else; a replacement frees the old one.
AssignRFID(t, e) ==
  /\ changes < MaxChanges
  /\ owner[t] = None
  /\ owner' = [x \in Tag |-> IF x = t THEN e ELSE IF owner[x] = e THEN None ELSE owner[x]]
  /\ changes' = changes + 1
  /\ UNCHANGED <<worldVars, terminalVars, work, events, decided>>

RevokeRFID(e) ==
  /\ changes < MaxChanges
  /\ \E t \in Tag : owner[t] = e
  /\ owner' = [t \in Tag |-> IF owner[t] = e THEN None ELSE owner[t]]
  /\ changes' = changes + 1
  /\ UNCHANGED <<worldVars, terminalVars, work, events, decided>>

\* Power loss or reset, and setup() up to start(): only the outbox survives.
Restart ==
  /\ restarts < MaxRestarts
  /\ restarts' = restarts + 1
  /\ clockSet' = FALSE /\ online' = FALSE
  /\ Show("boot", None)
  /\ ready' = FALSE /\ retryAt' = now /\ synced' = None
  /\ job' = 0
  /\ uid' = None /\ resolved' = None /\ closing' = None /\ person' = None
  /\ picker' = NoPicker /\ active' = NoActive
  /\ jobs' = <<>> /\ results' = <<>>
  /\ Queue!OfferKnown
  /\ UNCHANGED <<now, nextJob, serverVars, pressed>>

Init ==
  /\ now = 0 /\ online = FALSE /\ clockSet = FALSE /\ restarts = 0
  /\ screen = "boot" /\ deadline = None /\ says = "nothing"
  /\ ready = FALSE /\ retryAt = 0 /\ synced = None
  /\ job = 0 /\ nextJob = 1
  /\ uid = None /\ resolved = None /\ closing = None /\ person = None
  /\ picker = NoPicker /\ active = NoActive
  /\ jobs = <<>> /\ results = <<>>
  /\ Queue!Init
  /\ owner \in [Tag -> Employee]
  /\ work \in [Employee -> [state : Work, since : {0}]]
  /\ events = {} /\ changes = 0 /\ decided = {}
  /\ pressed = <<>>

Next ==
  \/ StartBootstrap
  \/ BootstrapPutOff
  \/ DeadlinePasses
  \/ \E t \in Tag : ScanCard(t)
  \/ \E c \in Command : ChooseAction(c)
  \/ AskTime
  \/ MoveTime
  \/ ConfirmTime
  \/ DeclineClose
  \/ AcceptClose
  \/ TakeResult
  \/ DoJob
  \/ Tick
  \/ NetworkChanges
  \/ ClockIsSet
  \/ \E e \in Employee, c \in Command : ClockElsewhere(e, c)
  \/ \E t \in Tag, e \in Employee : AssignRFID(t, e)
  \/ \E e \in Employee : RevokeRFID(e)
  \/ Restart

Spec == Init /\ [][Next]_vars

\* The network task answers every job in a bounded time, and the main loop
\* takes the results on every turn.
FairSpec == Spec /\ WF_vars(DoJob) /\ WF_vars(TakeResult)

-----------------------------------------------------------------------------
(***************************************************************************)
(* What makes the application correct.                                     *)
(***************************************************************************)
Maybe(S) == S \cup {None}
Scan == [scan : 1 .. MaxJobs, employee : Employee, expires : Nat,
         work : Work, since : Nat, long : BOOLEAN]
Action == [request : Nat, card : Tag, employee : Employee, expires : Nat, command : Command,
           captured : Nat, applied : Maybe(Nat), synced : Nat]
Job == [id : Nat, kind : {"bootstrap", "resolve", "action"}, tag : Maybe(Tag), action : Maybe(Action)]
Reason == {"none", "expired", "unknown_tag", "clock_untrusted", "state_conflict", "bad_time", "accepted"}
Result == [id : Nat, kind : {"bootstrap", "resolve", "action"}, outcome : {"ok", "refused", "lost"},
           why : Reason, scan : Maybe(Scan), work : Maybe(Work), time : Nat]

WorldTypes ==
  now \in 0 .. MaxNow /\ online \in BOOLEAN /\ clockSet \in BOOLEAN /\ restarts \in 0 .. MaxRestarts
ScreenTypes ==
  /\ screen \in Screen /\ deadline \in Maybe(Nat)
  /\ says \in {"nothing", "confirmed", "saved", "error"}
BootTypes == ready \in BOOLEAN /\ retryAt \in Nat /\ synced \in Maybe(Nat)
JobTypes ==
  /\ job \in 0 .. MaxJobs /\ nextJob \in 1 .. MaxJobs + 1
  /\ jobs \in Seq(Job) /\ results \in Seq(Result)
ScanTypes ==
  /\ uid \in Maybe(Tag) /\ resolved \in Maybe(Scan) /\ closing \in Maybe(Employee)
  /\ person \in Maybe(Employee)
  /\ picker \in [command : Command, closesBreak : BOOLEAN, min : Nat, max : Nat, selected : Nat]
  /\ active \in [request : Nat, closesBreak : BOOLEAN]
OutboxTypes ==
  /\ accepted \in Seq(Nat) /\ known \in 0 .. Len(accepted) /\ head \in 0 .. known
  /\ pressed \in Seq([by : Maybe(Employee), scan : 1 .. MaxJobs, command : Command])
ServerTypes ==
  /\ owner \in [Tag -> Maybe(Employee)]
  /\ work \in [Employee -> [state : Work, since : Nat]]
  /\ events \subseteq [request : Nat, employee : Employee, command : Command]
  /\ changes \in 0 .. MaxChanges
  /\ decided \subseteq Nat

\* Types of the variables.
TypeOK == /\ WorldTypes /\ ScreenTypes /\ BootTypes /\ JobTypes
          /\ ScanTypes /\ OutboxTypes /\ ServerTypes

\* Whatever is pressed, scanned, timed out or lost, at most one job is under
\* way, and it is the one the application waits for.  Were it to wait for a job
\* that nobody has, every card would be ignored until the next restart
\* (activeJobId_).
OneJobAtATime ==
  IF job = 0 THEN jobs = <<>> /\ results = <<>> /\ screen # "busy"
  ELSE \/ Len(jobs) = 1 /\ jobs[1].id = job /\ results = <<>>
       \/ Len(results) = 1 /\ results[1].id = job /\ jobs = <<>>

\* What the server is asked to record, or has recorded, is in the outbox
\* (executeAction appends before it sends).
StoredBeforeSent ==
  /\ \A i \in DOMAIN jobs : jobs[i].kind = "action" => jobs[i].action.request <= Len(accepted)
  /\ \A ev \in events : ev.request <= Len(accepted)

\* What the server recorded is what the person whose name was on the screen
\* confirmed, also when the card changed hands between the end of the break
\* and the end of the day.
RecordedForThePersonShown ==
  \A ev \in events :
    ev.request \in DOMAIN pressed =>
      /\ pressed[ev.request].by = ev.employee
      /\ pressed[ev.request].command = ev.command

\* An action leaves the outbox only when the server has decided it: a lost
\* answer is not a refusal (handleActionResult, ambiguous).
NeverDroppedUndecided == \A i \in 1 .. known : accepted[i] \in decided

\* The screen confirms, or goes on to the end of the day, only when the server
\* recorded the person's action and the outbox will not send it again.
ConfirmedIsRecorded ==
  says = "confirmed" \/ screen = "confirm" =>
    /\ head = Len(accepted)
    /\ \E ev \in events : ev.request = Len(accepted) /\ ev.employee = person

\* One scan of a card makes one action at most, however often and fast the
\* buttons are pressed.
OneActionPerScan ==
  \A i, j \in DOMAIN pressed : pressed[i].scan = pressed[j].scan => i = j

\* Nobody is left in front of a message that waits: the result always comes.
AlwaysAnswered == screen = "busy" ~> screen # "busy"

\* While nothing changes elsewhere, the server takes the end of a break that
\* the person confirmed on the time picker.
PickedTimeAccepted ==
  \A i \in DOMAIN results :
    active.closesBreak => results[i].why \notin {"expired", "bad_time"}
=============================================================================
