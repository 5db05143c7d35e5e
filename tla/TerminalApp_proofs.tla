------------------------- MODULE TerminalApp_proofs -------------------------
(***************************************************************************)
(* Theorems about TerminalApp, for every set of cards and people, every    *)
(* capacity, every duration and every bound.                               *)
(***************************************************************************)
EXTENDS TerminalApp, SequenceTheorems, TLAPS

-----------------------------------------------------------------------------
(* The inductive invariant.                                                *)

\* No action was made of this scan.
Unused(scan) == \A i \in DOMAIN pressed : pressed[i].scan # scan

\* The screen is still the one that waits for this job or result.
Awaited(x) ==
  /\ x.id = job
  /\ x.kind = "bootstrap" => screen = "boot"
  /\ x.kind = "resolve" => screen = "busy" /\ Unused(x.id)
  /\ x.kind = "action" =>
       /\ screen = "busy" /\ active.request = Len(accepted)
       /\ resolved \in Scan /\ person = resolved.employee /\ resolved.scan < nextJob

\* A job says what the person on the screen asked for.
JobFits(j) ==
  /\ j.kind = "resolve" => j.tag \in Tag
  /\ j.kind = "action" =>
       /\ j.action \in Action
       /\ j.action.request = Len(accepted) /\ Len(accepted) > 0
       /\ j.action.employee = person
       /\ pressed[Len(accepted)].by = person
       /\ pressed[Len(accepted)].command = j.action.command

\* A result says what the server did of it.
ResultFits(r) ==
  /\ r.kind = "resolve" /\ r.outcome = "ok" => r.scan \in Scan /\ r.scan.scan = r.id
  /\ r.kind = "action" /\ r.outcome # "lost" => Len(accepted) \in decided
  /\ r.kind = "action" /\ r.outcome = "ok" =>
       \E ev \in events : ev.request = Len(accepted) /\ ev.employee = person

Flight ==
  /\ job < nextJob
  /\ \A i \in DOMAIN jobs : Awaited(jobs[i]) /\ JobFits(jobs[i])
  /\ \A i \in DOMAIN results : Awaited(results[i]) /\ ResultFits(results[i])

\* The name on the screen is that of the scan in hand, of which no action was
\* made while the buttons are offered.
Shown ==
  /\ resolved # None => person = resolved.employee /\ resolved.scan < nextJob
  /\ closing # None => closing = person
  /\ screen \in {"actions", "picker"} =>
       /\ resolved \in Scan /\ person = resolved.employee
       /\ resolved.scan < nextJob /\ Unused(resolved.scan)

\* Every stored action was pressed by somebody, after an earlier scan.
Kept ==
  /\ Len(pressed) = Len(accepted)
  /\ \A i \in DOMAIN accepted : accepted[i] = i
  /\ \A i \in DOMAIN pressed : pressed[i].scan < nextJob

Promises == /\ StoredBeforeSent /\ RecordedForThePersonShown /\ NeverDroppedUndecided
            /\ ConfirmedIsRecorded /\ OneActionPerScan

IInv == TypeOK /\ OneJobAtATime /\ Flight /\ Shown /\ Kept /\ Promises

-----------------------------------------------------------------------------
(* Sequences of one element, and time.                                     *)

LEMMA Single ==
  ASSUME NEW S, NEW s \in Seq(S), Len(s) = 1
  PROVE  Head(s) = s[1] /\ Tail(s) = <<>> /\ DOMAIN s = {1} /\ s # <<>> /\ s[1] \in S
<1>1. Len(Tail(s)) = 0 /\ Tail(s) \in Seq(S)
  OBVIOUS
<1>2. Tail(s) = <<>>
  BY <1>1, EmptySeq
<1>3. Head(s) = s[1] /\ DOMAIN s = {1} /\ s[1] \in S
  OBVIOUS
<1>4. s # <<>>
  OBVIOUS
<1> QED
  BY <1>2, <1>3, <1>4

LEMMA AppendToNone ==
  ASSUME NEW S, NEW s, s = <<>>, NEW e \in S
  PROVE  /\ Append(s, e) \in Seq(S) /\ Len(Append(s, e)) = 1
         /\ Append(s, e)[1] = e /\ DOMAIN Append(s, e) = {1}
  OBVIOUS

LEMMA WholeSecondIsNat ==
  ASSUME NEW t \in Nat PROVE WholeSecond(t) \in Nat
  BY TerminalAppAssumption DEF WholeSecond

LEMMA Bounds ==
  /\ {ScanTTL, SelectionTime, InteractionTime, MessageTime, RetryTime} \subseteq Nat
  /\ MaxNow \in Nat /\ MaxJobs \in Nat /\ MaxRestarts \in Nat /\ MaxChanges \in Nat
  BY TerminalAppAssumption

\* The scans that actions were made of, and the deadlines.
LEMMA PressedScans ==
  ASSUME OutboxTypes
  PROVE  \A i \in DOMAIN pressed : pressed[i].scan \in 1 .. MaxJobs
<1> SUFFICES ASSUME NEW i \in DOMAIN pressed PROVE pressed[i].scan \in 1 .. MaxJobs
  OBVIOUS
<1> DEFINE Press == [by : Maybe(Employee), scan : 1 .. MaxJobs, command : Command]
<1>1. pressed \in Seq(Press)
  BY DEF OutboxTypes
<1>2. pressed[i] \in Press
  <2> HIDE DEF Press
  <2> QED
    BY <1>1
<1> QED
  BY <1>2

LEMMA NothingChosen ==
  /\ NoPicker \in [command : Command, closesBreak : BOOLEAN, min : Nat, max : Nat, selected : Nat]
  /\ NoActive \in [request : Nat, closesBreak : BOOLEAN]
  BY DEF NoPicker, NoActive, Command

-----------------------------------------------------------------------------
(* The first state.                                                        *)

LEMMA InitTypes == Init => TypeOK
<1> SUFFICES ASSUME Init PROVE TypeOK
  OBVIOUS
<1>1. WorldTypes
  <2>1. now = 0 /\ online = FALSE /\ clockSet = FALSE /\ restarts = 0
    BY DEF Init
  <2>2. now \in 0 .. MaxNow /\ restarts \in 0 .. MaxRestarts
    BY <2>1, Bounds
  <2>3. online \in BOOLEAN /\ clockSet \in BOOLEAN
    BY <2>1
  <2> QED
    BY <2>2, <2>3 DEF WorldTypes
<1>2. ScreenTypes /\ BootTypes
  BY DEF Init, ScreenTypes, BootTypes, Maybe, Screen
<1>3. JobTypes
  BY Bounds DEF Init, JobTypes
<1>4. ScanTypes
  BY NothingChosen DEF Init, ScanTypes, Maybe
<1>5. OutboxTypes
  BY DEF Init, OutboxTypes, Queue!Init
<1>6. ServerTypes
  BY TerminalAppAssumption DEF Init, ServerTypes, Maybe
<1> QED
  BY <1>1, <1>2, <1>3, <1>4, <1>5, <1>6 DEF TypeOK

LEMMA InitIInv == Init => IInv
<1> SUFFICES ASSUME Init PROVE IInv
  OBVIOUS
<1>1. TypeOK
  BY InitTypes
<1>2. OneJobAtATime
  BY DEF Init, OneJobAtATime
<1>3. Flight /\ Kept
  BY DEF Init, Flight, Kept, Queue!Init
<1>4. Shown
  BY DEF Init, Shown
<1>5. Promises
  BY DEF Init, Promises, StoredBeforeSent, RecordedForThePersonShown, NeverDroppedUndecided,
         ConfirmedIsRecorded, OneActionPerScan, Queue!Init
<1> QED
  BY <1>1, <1>2, <1>3, <1>4, <1>5 DEF IInv

-----------------------------------------------------------------------------
(* Steps at which no job and no action begins or ends.                     *)

\* While the screen is any but these, the application waits for nothing.
LEMMA NothingAwaited ==
  ASSUME IInv, screen \notin {"boot", "busy"}
  PROVE  job = 0
<1>1. ASSUME job # 0, Len(jobs) = 1
      PROVE  FALSE
  <2>1. jobs[1] \in Job /\ 1 \in DOMAIN jobs
    BY <1>1, Single DEF IInv, TypeOK, JobTypes
  <2>2. Awaited(jobs[1])
    BY <2>1 DEF IInv, Flight
  <2> QED
    BY <2>1, <2>2 DEF Awaited, Job
<1>2. ASSUME job # 0, Len(results) = 1
      PROVE  FALSE
  <2>1. results[1] \in Result /\ 1 \in DOMAIN results
    BY <1>2, Single DEF IInv, TypeOK, JobTypes
  <2>2. Awaited(results[1])
    BY <2>1 DEF IInv, Flight
  <2> QED
    BY <2>1, <2>2 DEF Awaited, Result
<1> QED
  BY <1>1, <1>2 DEF IInv, OneJobAtATime

\* What a step between two jobs may do to the screen and to the scan in hand.
Between ==
  /\ ScreenTypes' /\ BootTypes' /\ ScanTypes'
  /\ screen' # "busy"
  /\ screen' = "confirm" \/ says' = "confirmed" => UNCHANGED <<screen, says, person>>
  /\ \/ UNCHANGED <<resolved, closing, person>>
     \/ resolved' = None /\ closing' = None /\ person' = None
  /\ screen' \in {"actions", "picker"} =>
       screen \in {"actions", "picker"} /\ UNCHANGED <<resolved, person>>

\* After a step that leaves no job, no result and nothing new in the outbox.
LEMMA SettledStep ==
  ASSUME IInv, ScreenTypes', BootTypes', ScanTypes', Shown',
         screen' # "busy",
         screen' = "confirm" \/ says' = "confirmed" => UNCHANGED <<screen, says, person>>,
         job' = 0, jobs' = <<>>, results' = <<>>, nextJob' \in nextJob .. MaxJobs + 1,
         UNCHANGED <<worldVars, outboxVars, pressed, serverVars>>
  PROVE  IInv'
<1>1. UNCHANGED <<accepted, known, head, events, decided>>
  BY DEF outboxVars, serverVars
<1>2. TypeOK'
  <2>1. JobTypes'
    BY Bounds DEF IInv, TypeOK, JobTypes
  <2> QED
    BY <2>1 DEF IInv, TypeOK, WorldTypes, OutboxTypes, ServerTypes, worldVars, outboxVars, serverVars
<1>3. OneJobAtATime' /\ Flight'
  BY DEF IInv, TypeOK, JobTypes, OneJobAtATime, Flight
<1>4. Kept'
  <2>1. \A i \in DOMAIN pressed : pressed[i].scan < nextJob'
    BY PressedScans DEF IInv, Kept, TypeOK, JobTypes
  <2> QED
    BY <1>1, <2>1 DEF IInv, Kept
<1>5. Promises'
  BY <1>1 DEF IInv, Promises, StoredBeforeSent, RecordedForThePersonShown,
              NeverDroppedUndecided, ConfirmedIsRecorded, OneActionPerScan
<1> QED
  BY <1>2, <1>3, <1>4, <1>5 DEF IInv

LEMMA QuietStep ==
  ASSUME IInv, job = 0, Between, nextJob' \in nextJob .. MaxJobs + 1,
         UNCHANGED <<worldVars, job, workerVars, outboxVars, pressed, serverVars>>
  PROVE  IInv'
<1>1. jobs' = <<>> /\ results' = <<>>
  BY DEF IInv, OneJobAtATime, workerVars
<1>2. Shown'
  BY SMTT(20) DEF IInv, Between, Shown, Unused, TypeOK, JobTypes, ScanTypes, Maybe, Scan
<1> QED
  BY <1>1, <1>2, SettledStep DEF Between

\* A message is shown, and the scan in hand is left alone.
LEMMA MessageBetween ==
  ASSUME IInv, NEW what \in {"saved", "error"}, ShowMessage(what),
         BootTypes', ScanTypes', UNCHANGED <<resolved, closing, person>>
  PROVE  Between
<1>1. ScreenTypes'
  BY Bounds DEF ShowMessage, IInv, TypeOK, WorldTypes, ScreenTypes, Maybe, Screen
<1> QED
  BY <1>1 DEF Between, ShowMessage

LEMMA GiveUpBetween ==
  ASSUME IInv, GiveUp, BootTypes'
  PROVE  Between
<1>1. ScreenTypes'
  BY DEF GiveUp, ReturnToIdle, Show, ScreenTypes, Maybe, Screen
<1>2. ScanTypes'
  <2>1. ScanTypes
    BY DEF IInv, TypeOK
  <2>2. \/ UNCHANGED scanVars
        \/ /\ uid' = None /\ resolved' = None /\ closing' = None /\ person' = None
           /\ picker' = NoPicker /\ active' = NoActive
    BY DEF GiveUp, ReturnToIdle
  <2> QED
    BY <2>1, <2>2, NothingChosen DEF ScanTypes, scanVars, Maybe
<1> QED
  BY <1>1, <1>2 DEF Between, GiveUp, ReturnToIdle, Show, scanVars

LEMMA DeadlineIInv ==
  ASSUME IInv, DeadlinePasses
  PROVE  IInv'
<1>1. job = 0
  BY NothingAwaited DEF DeadlinePasses, Expired
<1>2. Between
  BY GiveUpBetween DEF DeadlinePasses, bootVars, IInv, TypeOK, BootTypes
<1>3. nextJob' \in nextJob .. MaxJobs + 1
  BY Bounds DEF DeadlinePasses, IInv, TypeOK, JobTypes
<1> QED
  BY <1>1, <1>2, <1>3, QuietStep DEF DeadlinePasses

LEMMA PutOffIInv ==
  ASSUME IInv, BootstrapPutOff
  PROVE  IInv'
<1>1. job = 0
  BY DEF BootstrapPutOff, BootstrapDue
<1>2. BootTypes'
  BY Bounds DEF BootstrapPutOff, IInv, TypeOK, WorldTypes, BootTypes
<1>3. CASE Expired
  <2>1. Between
    BY <1>2, <1>3, GiveUpBetween DEF BootstrapPutOff
  <2> QED
    BY <1>1, <2>1, QuietStep, Bounds DEF BootstrapPutOff, DontEnqueue, CountJob, workerVars,
       IInv, TypeOK, JobTypes
<1>4. CASE ~Expired
  <2>1. job' = job /\ jobs' = jobs /\ nextJob' \in nextJob .. MaxJobs + 1
    BY Bounds DEF BootstrapPutOff, DontEnqueue, CountJob, IInv, TypeOK, JobTypes
  <2>2. ScreenTypes' /\ ScanTypes'
    BY <1>4 DEF BootstrapPutOff, IInv, TypeOK, ScreenTypes, ScanTypes, scanVars
  <2>3. screen # "busy"
    BY <1>1 DEF IInv, OneJobAtATime
  <2>4. Between
    BY <1>2, <1>4, <2>2, <2>3 DEF BootstrapPutOff, Between, scanVars
  <2> QED
    BY <1>1, <2>1, <2>4, QuietStep DEF BootstrapPutOff, workerVars
<1> QED
  BY <1>3, <1>4

LEMMA DeclineIInv ==
  ASSUME IInv, DeclineClose
  PROVE  IInv'
<1>1. ScreenTypes' /\ ScanTypes'
  BY NothingChosen DEF DeclineClose, ReturnToIdle, Show, ScreenTypes, ScanTypes, Maybe, Screen
<1>2. BootTypes'
  BY DEF DeclineClose, IInv, TypeOK, BootTypes, bootVars
<1>3. Between
  BY <1>1, <1>2 DEF DeclineClose, Between, ReturnToIdle, Show
<1>4. nextJob' \in nextJob .. MaxJobs + 1
  BY Bounds DEF DeclineClose, IInv, TypeOK, JobTypes
<1> QED
  BY <1>3, <1>4, QuietStep DEF DeclineClose

LEMMA AskTimeIInv ==
  ASSUME IInv, AskTime
  PROVE  IInv'
<1>1. ScreenTypes'
  BY Bounds DEF AskTime, Show, IInv, TypeOK, WorldTypes, ScreenTypes, Maybe, Screen
<1>2. resolved \in Scan /\ now \in Nat
  BY Bounds DEF AskTime, IInv, TypeOK, ScanTypes, WorldTypes, Maybe
<1>3. picker' \in [command : Command, closesBreak : BOOLEAN, min : Nat, max : Nat, selected : Nat]
  <2>1. resolved.since \in Nat
    BY <1>2 DEF Scan
  <2>2. WholeSecond(now) \in Nat /\ WholeSecond(resolved.since) \in Nat
    BY <1>2, <2>1, WholeSecondIsNat
  <2> DEFINE latest == IF clockSet THEN WholeSecond(now) ELSE 0
             since == WholeSecond(resolved.since)
             low == IF since > latest THEN latest ELSE since
             command == IF resolved.work = "working" THEN "clock_out" ELSE "break_end"
  <2>3. latest \in Nat /\ low \in Nat /\ command \in Command
    BY <2>2 DEF Command
  <2>4. picker' = [command |-> command, closesBreak |-> resolved.work = "on_break",
                   min |-> low, max |-> latest, selected |-> latest]
    BY DEF AskTime
  <2>5. (resolved.work = "on_break") \in BOOLEAN
    OBVIOUS
  <2> HIDE DEF latest, low, command
  <2> QED
    BY <2>3, <2>4, <2>5
<1>4. ScanTypes'
  BY <1>3 DEF AskTime, IInv, TypeOK, ScanTypes
<1>5. BootTypes'
  BY DEF AskTime, IInv, TypeOK, BootTypes, bootVars
<1>6. Between
  BY <1>1, <1>4, <1>5 DEF AskTime, Between, Show
<1>7. nextJob' \in nextJob .. MaxJobs + 1
  BY Bounds DEF AskTime, IInv, TypeOK, JobTypes
<1> QED
  BY <1>6, <1>7, QuietStep DEF AskTime

LEMMA MoveTimeIInv ==
  ASSUME IInv, MoveTime
  PROVE  IInv'
<1>1. job = 0
  BY NothingAwaited DEF MoveTime
<1>2. ScreenTypes'
  BY Bounds DEF MoveTime, Show, IInv, TypeOK, WorldTypes, ScreenTypes, Maybe, Screen
<1>3. picker' \in [command : Command, closesBreak : BOOLEAN, min : Nat, max : Nat, selected : Nat]
  <2>1. PICK step \in Steps, sign \in {-1, 1} :
          picker' = [picker EXCEPT !.selected = Clamp(@ + sign * step, picker.min, picker.max)]
    BY DEF MoveTime
  <2>2. step \in Nat
    BY TerminalAppAssumption
  <2>3. picker \in [command : Command, closesBreak : BOOLEAN, min : Nat, max : Nat, selected : Nat]
    BY DEF IInv, TypeOK, ScanTypes
  <2>4. Clamp(picker.selected + sign * step, picker.min, picker.max) \in Nat
    BY <2>2, <2>3 DEF Clamp
  <2> QED
    BY <2>1, <2>3, <2>4
<1>4. ScanTypes'
  BY <1>3 DEF MoveTime, IInv, TypeOK, ScanTypes
<1>5. BootTypes'
  BY DEF MoveTime, IInv, TypeOK, BootTypes, bootVars
<1>6. Between
  BY <1>2, <1>4, <1>5 DEF MoveTime, Between, Show
<1>7. nextJob' \in nextJob .. MaxJobs + 1
  BY Bounds DEF MoveTime, IInv, TypeOK, JobTypes
<1> QED
  BY <1>1, <1>6, <1>7, QuietStep DEF MoveTime

-----------------------------------------------------------------------------
(* The world around the terminal.                                          *)

LEMMA WorldStep ==
  ASSUME IInv, WorldTypes', ServerTypes', UNCHANGED <<terminalVars, events, decided>>
  PROVE  IInv'
<1>1. UNCHANGED <<screen, says, ready, job, nextJob, resolved, closing, active, person, jobs,
                  results, accepted, known, head, pressed, events, decided>>
  BY DEF terminalVars, bootVars, scanVars, workerVars, outboxVars
<1>2. TypeOK'
  BY DEF IInv, TypeOK, ScreenTypes, BootTypes, JobTypes, ScanTypes, OutboxTypes,
         terminalVars, bootVars, scanVars, workerVars, outboxVars
<1>3. OneJobAtATime'
  BY <1>1 DEF IInv, OneJobAtATime
<1>4. Flight'
  BY <1>1 DEF IInv, Flight, Awaited, Unused, JobFits, ResultFits
<1>5. Shown' /\ Kept'
  BY <1>1 DEF IInv, Shown, Unused, Kept
<1>6. Promises'
  BY <1>1 DEF IInv, Promises, StoredBeforeSent, RecordedForThePersonShown,
              NeverDroppedUndecided, ConfirmedIsRecorded, OneActionPerScan
<1> QED
  BY <1>2, <1>3, <1>4, <1>5, <1>6 DEF IInv

\* Whatever a command leaves is a state of work.
LEMMA LeavesIsWork ==
  ASSUME NEW c \in Command PROVE Leaves(c) \in Work
  BY DEF Command, Leaves, Work

LEMMA WorldIInv ==
  ASSUME IInv,
         \/ Tick \/ NetworkChanges \/ ClockIsSet
         \/ \E e \in Employee, c \in Command : ClockElsewhere(e, c)
         \/ \E t \in Tag, e \in Employee : AssignRFID(t, e)
         \/ \E e \in Employee : RevokeRFID(e)
  PROVE  IInv'
<1>0. WorldTypes /\ ServerTypes
  BY DEF IInv, TypeOK
<1>1. CASE Tick
  <2>1. now' \in 0 .. MaxNow /\ UNCHANGED <<online, clockSet, restarts>>
    BY <1>0, <1>1, Bounds DEF Tick, WorldTypes
  <2>2. WorldTypes'
    BY <1>0, <2>1 DEF WorldTypes
  <2> QED
    BY <1>0, <1>1, <2>2, WorldStep DEF Tick, serverVars, ServerTypes
<1>2. CASE NetworkChanges \/ ClockIsSet
  <2>1. WorldTypes'
    BY <1>0, <1>2 DEF NetworkChanges, ClockIsSet, WorldTypes
  <2> QED
    BY <1>0, <1>2, <2>1, WorldStep DEF NetworkChanges, ClockIsSet, serverVars, ServerTypes
<1>3. ASSUME NEW e \in Employee, NEW c \in Command, ClockElsewhere(e, c)
      PROVE  IInv'
  <2>1. work' \in [Employee -> [state : Work, since : Nat]]
    BY <1>0, <1>3, LeavesIsWork DEF ClockElsewhere, WorldTypes, ServerTypes
  <2>2. changes' \in 0 .. MaxChanges
    BY <1>0, <1>3, Bounds DEF ClockElsewhere, ServerTypes
  <2>3. ServerTypes' /\ WorldTypes'
    BY <1>0, <1>3, <2>1, <2>2 DEF ClockElsewhere, ServerTypes, WorldTypes, worldVars
  <2> QED
    BY <1>3, <2>3, WorldStep DEF ClockElsewhere
<1>4. ASSUME NEW t \in Tag, NEW e \in Employee, AssignRFID(t, e) \/ RevokeRFID(e)
      PROVE  IInv'
  <2>1. owner' \in [Tag -> Maybe(Employee)]
    BY <1>0, <1>4 DEF AssignRFID, RevokeRFID, ServerTypes, Maybe
  <2>2. changes' \in 0 .. MaxChanges
    BY <1>0, <1>4, Bounds DEF AssignRFID, RevokeRFID, ServerTypes
  <2>3. ServerTypes' /\ WorldTypes'
    BY <1>0, <1>4, <2>1, <2>2 DEF AssignRFID, RevokeRFID, ServerTypes, WorldTypes, worldVars
  <2> QED
    BY <1>4, <2>3, WorldStep DEF AssignRFID, RevokeRFID
<1>5. ASSUME NEW e \in Employee, RevokeRFID(e)
      PROVE  IInv'
  BY <1>4, <1>5 DEF RevokeRFID
<1> QED
  BY <1>1, <1>2, <1>3, <1>4, <1>5

-----------------------------------------------------------------------------
(* A job begins: the bootstrap is asked for, or a card is resolved.        *)

LEMMA AskStep ==
  ASSUME IInv, job = 0, ScreenTypes', ScanTypes',
         NEW kind \in {"bootstrap", "resolve"}, NEW tag \in Maybe(Tag),
         CountJob, Enqueue(NewJob(kind, tag, None)),
         kind = "bootstrap" => screen' = "boot",
         kind = "resolve" => tag \in Tag /\ screen' = "busy",
         says' = "nothing", UNCHANGED <<resolved, person>>,
         closing' = closing \/ closing' = person,
         UNCHANGED <<worldVars, bootVars, results, outboxVars, serverVars, pressed>>
  PROVE  IInv'
<1> DEFINE j == NewJob(kind, tag, None)
<1>1. UNCHANGED <<accepted, known, head, events, decided>>
  BY DEF outboxVars, serverVars
<1>2. nextJob \in 1 .. MaxJobs /\ nextJob' = nextJob + 1 /\ job' = nextJob
  BY Bounds DEF CountJob, Enqueue, NewJob, IInv, TypeOK, JobTypes
<1>3. j \in Job /\ j.id = nextJob /\ j.kind = kind /\ j.tag = tag
  BY <1>2, Bounds DEF NewJob, Job, Maybe
<1>4. /\ jobs' \in Seq(Job) /\ Len(jobs') = 1 /\ jobs'[1] = j /\ DOMAIN jobs' = {1}
      /\ results' = <<>>
  <2>1. jobs = <<>> /\ results = <<>>
    BY DEF IInv, OneJobAtATime
  <2>2. jobs' = Append(jobs, j)
    BY DEF Enqueue
  <2> HIDE DEF j
  <2> QED
    BY <1>3, <2>1, <2>2, AppendToNone
<1>5. TypeOK'
  <2>1. JobTypes'
    BY <1>2, <1>4, Bounds DEF IInv, TypeOK, JobTypes
  <2> QED
    BY <2>1 DEF IInv, TypeOK, WorldTypes, BootTypes, OutboxTypes, ServerTypes,
                worldVars, bootVars, outboxVars, serverVars
<1>6. OneJobAtATime'
  BY <1>2, <1>3, <1>4 DEF OneJobAtATime
<1>7. \A i \in DOMAIN pressed : pressed[i].scan < nextJob /\ pressed[i].scan \in 1 .. MaxJobs
  BY PressedScans DEF IInv, Kept, TypeOK
<1>8. Flight'
  <2>1. job' < nextJob'
    BY <1>2
  <2>2. \A i \in DOMAIN pressed' : pressed'[i].scan # job'
    BY <1>2, <1>7
  <2>3. Awaited(jobs[1])' /\ JobFits(jobs[1])'
    BY <1>2, <1>3, <1>4, <2>2 DEF Awaited, JobFits, Unused
  <2> QED
    BY <1>4, <2>1, <2>3 DEF Flight
<1>9. Shown'
  BY <1>2 DEF IInv, Shown, TypeOK, ScanTypes, Maybe, Scan
<1>10. Kept'
  BY <1>1, <1>2, <1>7 DEF IInv, Kept
<1>11. Promises'
  <2>1. \A i \in DOMAIN jobs' : jobs'[i].kind # "action"
    BY <1>3, <1>4
  <2>2. screen' # "confirm"
    OBVIOUS
  <2> QED
    BY <1>1, <2>1, <2>2 DEF IInv, Promises, StoredBeforeSent, RecordedForThePersonShown,
       NeverDroppedUndecided, ConfirmedIsRecorded, OneActionPerScan
<1> QED
  BY <1>5, <1>6, <1>8, <1>9, <1>10, <1>11 DEF IInv

LEMMA StartBootstrapIInv ==
  ASSUME IInv, StartBootstrap
  PROVE  IInv'
<1>1. ScreenTypes' /\ screen' = "boot" /\ says' = "nothing"
  BY DEF StartBootstrap, Show, ScreenTypes, Maybe, Screen
<1>2. ScanTypes' /\ UNCHANGED <<resolved, person, closing>>
  BY DEF StartBootstrap, IInv, TypeOK, ScanTypes, scanVars
<1>3. job = 0 /\ CountJob /\ Enqueue(NewJob("bootstrap", None, None))
  BY DEF StartBootstrap, BootstrapDue
<1>4. None \in Maybe(Tag)
  BY DEF Maybe
<1> QED
  BY <1>1, <1>2, <1>3, <1>4, AskStep DEF StartBootstrap

LEMMA ScanCardIInv ==
  ASSUME IInv, NEW t \in Tag, ScanCard(t)
  PROVE  IInv'
<1>1. CASE Enqueue(NewJob("resolve", t, None)) /\ uid' = t /\ ShowBusy
  <2>1. ScreenTypes' /\ screen' = "busy" /\ says' = "nothing"
    BY <1>1 DEF ShowBusy, Show, ScreenTypes, Maybe, Screen
  <2>2. ScanTypes'
    BY <1>1 DEF ScanCard, IInv, TypeOK, ScanTypes, Maybe
  <2>3. t \in Maybe(Tag)
    BY DEF Maybe
  <2>4. job = 0 /\ CountJob
    BY DEF ScanCard
  <2> QED
    BY <1>1, <2>1, <2>2, <2>3, <2>4, AskStep DEF ScanCard
<1>2. CASE DontEnqueue(job) /\ ShowMessage("error") /\ UNCHANGED uid
  <2>1. BootTypes' /\ ScanTypes'
    BY <1>2 DEF ScanCard, IInv, TypeOK, BootTypes, ScanTypes, bootVars
  <2>2. Between
    BY <1>2, <2>1, MessageBetween DEF ScanCard
  <2>3. nextJob' \in nextJob .. MaxJobs + 1
    BY Bounds DEF ScanCard, CountJob, IInv, TypeOK, JobTypes
  <2> QED
    BY <1>2, <2>2, <2>3, QuietStep DEF ScanCard, DontEnqueue, workerVars
<1> QED
  BY <1>1, <1>2 DEF ScanCard

LEMMA AcceptCloseIInv ==
  ASSUME IInv, AcceptClose
  PROVE  IInv'
<1>1. CASE /\ online /\ uid # None /\ resolved # None /\ CountJob
           /\ Enqueue(NewJob("resolve", uid, None))
           /\ closing' = resolved.employee /\ ShowBusy
  <2>1. ScreenTypes' /\ screen' = "busy" /\ says' = "nothing"
    BY <1>1 DEF ShowBusy, Show, ScreenTypes, Maybe, Screen
  <2>2. uid \in Tag /\ uid \in Maybe(Tag) /\ resolved \in Scan
    BY <1>1 DEF IInv, TypeOK, ScanTypes, Maybe
  <2>3. ScanTypes'
    BY <1>1, <2>2 DEF AcceptClose, IInv, TypeOK, ScanTypes, Maybe, Scan
  <2>4. closing' = person
    BY <1>1 DEF IInv, Shown
  <2>5. job = 0
    BY DEF AcceptClose
  <2> QED
    BY <1>1, <2>1, <2>2, <2>3, <2>4, <2>5, AskStep DEF AcceptClose
<1>2. CASE /\ IF online THEN CountJob ELSE UNCHANGED nextJob
           /\ DontEnqueue(job) /\ ShowMessage("error") /\ UNCHANGED closing
  <2>1. BootTypes' /\ ScanTypes'
    BY <1>2 DEF AcceptClose, IInv, TypeOK, BootTypes, ScanTypes, bootVars
  <2>2. Between
    BY <1>2, <2>1, MessageBetween DEF AcceptClose
  <2>3. nextJob' \in nextJob .. MaxJobs + 1
    BY <1>2, Bounds DEF CountJob, IInv, TypeOK, JobTypes
  <2> QED
    BY <1>2, <2>2, <2>3, QuietStep DEF AcceptClose, DontEnqueue, workerVars
<1> QED
  BY <1>1, <1>2 DEF AcceptClose

-----------------------------------------------------------------------------
(* An action is stored and sent: executeAction.                            *)

PickerType == [command : Command, closesBreak : BOOLEAN, min : Nat, max : Nat, selected : Nat]
PressType == [by : Maybe(Employee), scan : 1 .. MaxJobs, command : Command]

\* Storing adds the action to the outbox, with who pressed it after which scan.
LEMMA Stores ==
  ASSUME IInv, NEW who \in Scan, NEW command \in Command, Store(who, command),
         who.scan < nextJob, Unused(who.scan), nextJob' = nextJob + 1,
         UNCHANGED <<events, decided>>
  PROVE  /\ OutboxTypes' /\ Kept'
         /\ Len(accepted') = Len(accepted) + 1
         /\ pressed'[Len(accepted')].by = person /\ pressed'[Len(accepted')].command = command
         /\ \A i \in DOMAIN pressed' : pressed'[i].scan < nextJob'
         /\ \A ev \in events' : ev.request <= Len(accepted')
         /\ RecordedForThePersonShown' /\ NeverDroppedUndecided' /\ OneActionPerScan'
<1> DEFINE n == Len(accepted)
           press == [by |-> person, scan |-> who.scan, command |-> command]
<1>1. /\ accepted \in Seq(Nat) /\ n \in Nat /\ known \in 0 .. n /\ head \in 0 .. known
      /\ pressed \in Seq(PressType) /\ Len(pressed) = n
      /\ \A i \in 1 .. n : accepted[i] = i
  BY SMTT(20) DEF IInv, TypeOK, OutboxTypes, Kept, PressType
<1>2. press \in PressType /\ press.by = person /\ press.scan = who.scan
      /\ press.command = command
  BY DEF IInv, TypeOK, ScanTypes, PressType, Scan
<1>3. /\ accepted' = Append(accepted, n + 1) /\ pressed' = Append(pressed, press)
      /\ UNCHANGED <<known, head>>
  BY DEF Store, Queue!Accept
<1> HIDE DEF press
<1>4. /\ accepted' \in Seq(Nat) /\ Len(accepted') = n + 1
      /\ \A i \in 1 .. n : accepted'[i] = accepted[i]
      /\ accepted'[n + 1] = n + 1
  BY <1>1, <1>3
<1>5. /\ pressed' \in Seq(PressType) /\ Len(pressed') = n + 1
      /\ \A i \in 1 .. n : pressed'[i] = pressed[i]
      /\ pressed'[n + 1] = press
  <2> HIDE DEF n
  <2> QED
    BY <1>1, <1>2, <1>3
<1>6. DOMAIN pressed = 1 .. n /\ DOMAIN pressed' = 1 .. (n + 1) /\ DOMAIN accepted' = 1 .. (n + 1)
  BY <1>1, <1>4, <1>5
<1>7. OutboxTypes'
  BY <1>1, <1>3, <1>4, <1>5 DEF OutboxTypes, PressType
<1>8. \A i \in 1 .. n : pressed[i].scan < nextJob /\ pressed[i].scan \in 1 .. MaxJobs
  BY <1>6, PressedScans DEF IInv, TypeOK, Kept
<1>9. who.scan \in 1 .. MaxJobs /\ nextJob \in Nat
  BY Bounds DEF Scan, IInv, TypeOK, JobTypes
<1>10. \A i \in 1 .. (n + 1) : pressed'[i].scan < nextJob'
  <2> SUFFICES ASSUME NEW i \in 1 .. (n + 1) PROVE pressed'[i].scan < nextJob'
    OBVIOUS
  <2>1. CASE i \in 1 .. n
    BY SMTT(20), <1>5, <1>8, <1>9, <2>1, Bounds
  <2>2. CASE i = n + 1
    BY <1>2, <1>5, <1>9, <2>2, Bounds
  <2> QED
    BY <1>1, <2>1, <2>2
<1>11. Kept'
  <2>1. \A i \in 1 .. (n + 1) : i \in 1 .. n \/ i = n + 1
    BY <1>1
  <2>2. \A i \in 1 .. (n + 1) : accepted'[i] = i
    BY <1>1, <1>4, <2>1
  <2> QED
    BY <1>4, <1>5, <1>6, <1>10, <2>2 DEF Kept
<1>12. \A ev \in events : ev.request \in Nat /\ ev.request <= n
  BY DEF IInv, TypeOK, ServerTypes, Promises, StoredBeforeSent
<1>13. RecordedForThePersonShown'
  BY <1>1, <1>5, <1>6, <1>12 DEF IInv, Promises, RecordedForThePersonShown
<1>14. NeverDroppedUndecided'
  BY <1>1, <1>3, <1>4 DEF IInv, Promises, NeverDroppedUndecided
<1>15. OneActionPerScan'
  <2>1. \A i \in 1 .. n : pressed[i].scan # who.scan
    BY <1>6 DEF Unused
  <2>2. \A i, j \in 1 .. n : pressed[i].scan = pressed[j].scan => i = j
    BY <1>6 DEF IInv, Promises, OneActionPerScan
  <2>3. \A i \in 1 .. (n + 1) : i \in 1 .. n \/ i = n + 1
    BY <1>1
  <2> HIDE DEF n
  <2> QED
    BY <1>2, <1>5, <1>6, <2>1, <2>2, <2>3 DEF OneActionPerScan
<1> QED
  BY <1>1, <1>2, <1>4, <1>5, <1>6, <1>7, <1>10, <1>11, <1>12, <1>13, <1>14, <1>15

\* What executeAction finds and what it may leave, besides the action: nobody
\* else's scan, no result, and the rest of the world as it was.
ExecuteStep(who, command, applied, closesBreak) ==
  /\ who \in Scan /\ command \in Command /\ applied \in Maybe(Nat) /\ closesBreak \in BOOLEAN
  /\ who.employee = person /\ who.scan < nextJob /\ Unused(who.scan)
  /\ jobs = <<>> /\ results' = <<>>
  /\ Execute(who, command, applied, closesBreak, 0)
  /\ resolved' \in Scan /\ resolved'.employee = person /\ resolved'.scan < nextJob
  /\ UNCHANGED <<person, uid>> /\ (closing' = closing \/ closing' = None)
  /\ picker' \in PickerType
  /\ UNCHANGED <<worldVars, bootVars, serverVars>>

\* What could not be stored is shown as an error.
LEMMA NotStoredIInv ==
  ASSUME IInv, NEW who, NEW command, NEW applied, NEW closesBreak,
         ExecuteStep(who, command, applied, closesBreak), NotStored(0)
  PROVE  IInv'
<1>1. ScreenTypes'
  BY Bounds DEF NotStored, ShowMessage, IInv, TypeOK, WorldTypes, ScreenTypes, Maybe, Screen
<1>2. screen' = "message" /\ says' = "error"
  BY DEF NotStored, ShowMessage
<1>3. /\ job' = 0 /\ jobs' = <<>> /\ results' = <<>> /\ nextJob' \in nextJob .. MaxJobs + 1
      /\ UNCHANGED <<nextJob, active, outboxVars, pressed>>
  BY Bounds DEF ExecuteStep, NotStored, DontEnqueue, IInv, TypeOK, JobTypes
<1>4. ScanTypes'
  BY <1>3 DEF ExecuteStep, PickerType, IInv, TypeOK, ScanTypes, Maybe
<1>5. BootTypes'
  BY DEF ExecuteStep, IInv, TypeOK, BootTypes, bootVars
<1>6. Shown'
  BY <1>2, <1>3 DEF ExecuteStep, IInv, Shown
<1> QED
  BY <1>1, <1>2, <1>3, <1>4, <1>5, <1>6, SettledStep DEF ExecuteStep

\* What is stored is sent, or said to be saved.
LEMMA StoredIInv ==
  ASSUME IInv, NEW who, NEW command, NEW applied, NEW closesBreak,
         ExecuteStep(who, command, applied, closesBreak), Prepared(who, 0),
         Store(who, command), CountJob, Send(who, command, applied, closesBreak, 0)
  PROVE  IInv'
<1> DEFINE action == NewAction(who, command, applied)
           j == NewJob("action", uid, action)
           n == Len(accepted)
<1>1. nextJob \in 1 .. MaxJobs /\ nextJob' = nextJob + 1
  BY Bounds DEF CountJob, IInv, TypeOK, JobTypes
<1>2. UNCHANGED <<owner, work, events, changes, decided, person, uid>>
  BY DEF ExecuteStep, serverVars
<1>3. /\ OutboxTypes' /\ Kept'
      /\ Len(accepted') = n + 1
      /\ pressed'[n + 1].by = person /\ pressed'[n + 1].command = command
      /\ \A i \in DOMAIN pressed' : pressed'[i].scan < nextJob'
      /\ \A ev \in events' : ev.request <= Len(accepted')
      /\ RecordedForThePersonShown' /\ NeverDroppedUndecided' /\ OneActionPerScan'
  BY <1>1, <1>2, Stores DEF ExecuteStep
<1>4. n \in Nat
  BY DEF IInv, TypeOK, OutboxTypes
<1>5. uid \in Tag /\ uid \in Maybe(Tag) /\ synced \in Nat
  BY DEF Prepared, IInv, TypeOK, ScanTypes, BootTypes, Maybe
<1>6. action \in Action /\ action.request = n + 1 /\ action.employee = person
      /\ action.command = command
  <2>1. WholeSecond(now) \in Nat
    BY WholeSecondIsNat, Bounds DEF IInv, TypeOK, WorldTypes
  <2>2. who.employee \in Employee /\ who.expires \in Nat
    BY DEF ExecuteStep, Scan
  <2> QED
    BY <1>4, <1>5, <2>1, <2>2 DEF NewAction, Action, ExecuteStep
<1>7. j \in Job /\ j.id = nextJob /\ j.kind = "action" /\ j.action = action
  <2>1. action \in Maybe(Action)
    BY <1>6 DEF Maybe
  <2> HIDE DEF action
  <2> QED
    BY <1>1, <1>5, <2>1 DEF NewJob, Job
<1> HIDE DEF action, j
<1>8. WorldTypes' /\ BootTypes' /\ ServerTypes'
  BY DEF ExecuteStep, IInv, TypeOK, WorldTypes, BootTypes, ServerTypes, worldVars, bootVars, serverVars
<1>9. /\ uid' \in Maybe(Tag) /\ resolved' \in Maybe(Scan) /\ closing' \in Maybe(Employee)
      /\ person' \in Maybe(Employee) /\ picker' \in PickerType
  BY DEF ExecuteStep, IInv, TypeOK, ScanTypes, Maybe
<1>10. resolved'.scan < nextJob'
  BY <1>1, Bounds DEF ExecuteStep, Scan
<1>11. CASE Enqueue(j) /\ ShowBusy /\ active' = [request |-> n + 1, closesBreak |-> closesBreak]
  <2>1. screen' = "busy" /\ says' = "nothing" /\ ScreenTypes'
    BY <1>11 DEF ShowBusy, Show, ScreenTypes, Maybe, Screen
  <2>2. /\ job' = nextJob /\ jobs' \in Seq(Job) /\ Len(jobs') = 1 /\ jobs'[1] = j
        /\ DOMAIN jobs' = {1} /\ results' = <<>>
    BY <1>7, <1>11, AppendToNone DEF Enqueue, ExecuteStep
  <2>3. active' \in [request : Nat, closesBreak : BOOLEAN] /\ active'.request = n + 1
    BY <1>4, <1>11 DEF ExecuteStep
  <2>4. TypeOK'
    <3>1. JobTypes'
      BY <1>1, <2>2, Bounds DEF JobTypes
    <3>2. ScanTypes'
      BY <1>9, <2>3 DEF ScanTypes, PickerType
    <3> QED
      BY <1>3, <1>8, <2>1, <3>1, <3>2 DEF TypeOK
  <2>5. OneJobAtATime'
    BY <1>1, <1>7, <2>2 DEF OneJobAtATime
  <2>6. Flight'
    <3>1. Awaited(jobs[1])'
      <4>1. j.kind = "action" /\ j.id = nextJob /\ jobs'[1] = j
        BY <1>7, <2>2
      <4>2. resolved' \in Scan /\ person' = resolved'.employee /\ resolved'.scan < nextJob'
        BY <1>10 DEF ExecuteStep
      <4> QED
        BY <1>3, <2>1, <2>2, <2>3, <4>1, <4>2 DEF Awaited
    <3>2. JobFits(jobs[1])'
      BY <1>2, <1>3, <1>4, <1>6, <1>7, <2>2 DEF JobFits
    <3> QED
      BY <1>1, <2>2, <3>1, <3>2 DEF Flight
  <2>7. Shown'
    BY <1>10, <2>1 DEF ExecuteStep, IInv, Shown
  <2>8. StoredBeforeSent' /\ ConfirmedIsRecorded'
    BY <1>3, <1>4, <1>6, <1>7, <2>1, <2>2 DEF StoredBeforeSent, ConfirmedIsRecorded
  <2> QED
    BY <1>3, <2>4, <2>5, <2>6, <2>7, <2>8 DEF IInv, Promises
<1>12. CASE DontEnqueue(0) /\ active' = NoActive /\ ShowMessage("saved")
  <2>1. screen' = "message" /\ says' = "saved" /\ ScreenTypes'
    BY <1>12, Bounds DEF ShowMessage, IInv, TypeOK, WorldTypes, ScreenTypes, Maybe, Screen
  <2>2. job' = 0 /\ jobs' = <<>> /\ results' = <<>>
    BY <1>12 DEF DontEnqueue, ExecuteStep
  <2>3. TypeOK'
    <3>1. JobTypes'
      BY <1>1, <2>2, Bounds DEF JobTypes
    <3>2. ScanTypes'
      BY <1>9, <1>12, NothingChosen DEF ScanTypes, PickerType
    <3> QED
      BY <1>3, <1>8, <2>1, <3>1, <3>2 DEF TypeOK
  <2>4. OneJobAtATime' /\ Flight'
    BY <1>1, <2>1, <2>2 DEF OneJobAtATime, Flight
  <2>5. Shown'
    BY <1>10, <2>1 DEF ExecuteStep, IInv, Shown
  <2>6. StoredBeforeSent' /\ ConfirmedIsRecorded'
    BY <1>3, <2>1, <2>2 DEF StoredBeforeSent, ConfirmedIsRecorded
  <2> QED
    BY <1>3, <2>3, <2>4, <2>5, <2>6 DEF IInv, Promises
<1> QED
  BY <1>11, <1>12 DEF Send, j, action

LEMMA ExecuteIInv ==
  ASSUME IInv, NEW who, NEW command, NEW applied, NEW closesBreak,
         ExecuteStep(who, command, applied, closesBreak)
  PROVE  IInv'
BY NotStoredIInv, StoredIInv DEF ExecuteStep, Execute

LEMMA ChooseActionIInv ==
  ASSUME IInv, NEW c \in Command, ChooseAction(c)
  PROVE  IInv'
<1>1. resolved \in Scan /\ results' = <<>> /\ job = 0
  BY DEF ChooseAction, IInv, TypeOK, ScanTypes, Maybe
<1>2. jobs = <<>>
  BY <1>1 DEF IInv, OneJobAtATime
<1>3. Unused(resolved.scan) /\ resolved.employee = person /\ resolved.scan < nextJob
  BY DEF ChooseAction, IInv, Shown
<1>4. Execute(resolved, c, None, FALSE, 0) /\ picker' \in PickerType
  BY <1>1 DEF ChooseAction, IInv, TypeOK, ScanTypes, PickerType
<1>5. None \in Maybe(Nat)
  BY DEF Maybe
<1>6. ExecuteStep(resolved, c, None, FALSE)
  BY <1>1, <1>2, <1>3, <1>4, <1>5 DEF ChooseAction, ExecuteStep
<1> QED
  BY <1>6, ExecuteIInv

LEMMA ConfirmTimeIInv ==
  ASSUME IInv, ConfirmTime
  PROVE  IInv'
<1>1. job = 0
  BY NothingAwaited DEF ConfirmTime
<1>2. jobs = <<>> /\ results' = <<>>
  BY <1>1 DEF ConfirmTime, IInv, OneJobAtATime
<1>3. resolved \in Scan /\ Unused(resolved.scan)
  BY DEF ConfirmTime, IInv, Shown
<1>4. resolved.employee = person /\ resolved.scan < nextJob
  BY DEF ConfirmTime, IInv, Shown
<1>5. /\ picker.command \in Command /\ picker.closesBreak \in BOOLEAN
      /\ picker.selected \in Maybe(Nat) /\ picker' \in PickerType
  BY NothingChosen DEF ConfirmTime, IInv, TypeOK, ScanTypes, PickerType, Maybe
<1>6. ExecuteStep(resolved, picker.command, picker.selected, picker.closesBreak)
  BY <1>1, <1>2, <1>3, <1>4, <1>5 DEF ConfirmTime, ExecuteStep
<1> QED
  BY <1>6, ExecuteIInv

-----------------------------------------------------------------------------
(* A result is taken.                                                      *)

\* The result at the head of the queue.
Taken(r) ==
  /\ r \in Result /\ Awaited(r) /\ ResultFits(r) /\ r.id = job /\ job \in 1 .. MaxJobs
  /\ job < nextJob /\ jobs = <<>> /\ results' = <<>>

LEMMA ResultTaken ==
  ASSUME IInv, results # <<>>, Unqueue
  PROVE  Taken(Head(results))
<1>1. Len(results) = 1 /\ results \in Seq(Result) /\ job # 0 /\ job \in 0 .. MaxJobs /\ jobs = <<>>
  BY DEF IInv, OneJobAtATime, TypeOK, JobTypes
<1>2. Head(results) = results[1] /\ results' = <<>> /\ DOMAIN results = {1} /\ results[1] \in Result
  BY <1>1, Single DEF Unqueue
<1>3. job \in 1 .. MaxJobs
  BY <1>1, Bounds
<1>4. Awaited(results[1]) /\ ResultFits(results[1]) /\ job < nextJob
  BY <1>2 DEF IInv, Flight
<1> QED
  BY <1>1, <1>2, <1>3, <1>4 DEF Taken, Awaited

\* The job that has been answered is over, and no other begins.
LEMMA NothingNew ==
  ASSUME IInv, NEW r, Taken(r), DontEnqueue(0), UNCHANGED nextJob
  PROVE  job' = 0 /\ jobs' = <<>> /\ results' = <<>> /\ nextJob' \in nextJob .. MaxJobs + 1
BY Bounds DEF Taken, DontEnqueue, IInv, TypeOK, JobTypes

LEMMA MessageTypes ==
  ASSUME IInv, NEW what \in {"confirmed", "saved", "error"}, ShowMessage(what)
  PROVE  ScreenTypes' /\ screen' = "message" /\ says' = what
BY Bounds DEF ShowMessage, IInv, TypeOK, WorldTypes, ScreenTypes, Maybe, Screen

LEMMA ShowTypes ==
  ASSUME IInv, NEW s \in Screen, NEW wait \in Nat, Show(s, now + wait)
  PROVE  ScreenTypes' /\ screen' = s /\ says' = "nothing"
BY Bounds DEF Show, IInv, TypeOK, WorldTypes, ScreenTypes, Maybe

LEMMA BootstrapAnsweredIInv ==
  ASSUME IInv, NEW r, Taken(r), BootstrapAnswered(r), UNCHANGED <<worldVars, serverVars>>
  PROVE  IInv'
<1>1. /\ job' = 0 /\ jobs' = <<>> /\ results' = <<>> /\ nextJob' \in nextJob .. MaxJobs + 1
      /\ UNCHANGED <<outboxVars, pressed>>
  BY NothingNew DEF BootstrapAnswered
<1>2. CASE r.outcome = "ok"
  <2>1. ReturnToIdle /\ ready' = TRUE /\ synced' = r.time /\ UNCHANGED retryAt
    BY <1>2 DEF BootstrapAnswered
  <2>2. ScreenTypes' /\ ScanTypes' /\ screen' = "idle" /\ says' = "nothing"
    BY <2>1, NothingChosen DEF ReturnToIdle, Show, ScreenTypes, ScanTypes, Maybe, Screen
  <2>3. BootTypes'
    BY <2>1 DEF Taken, Result, IInv, TypeOK, BootTypes, Maybe
  <2>4. Shown'
    BY <2>1, <2>2 DEF ReturnToIdle, Shown
  <2> QED
    BY <1>1, <2>2, <2>3, <2>4, SettledStep
<1>3. CASE r.outcome # "ok"
  <2>1. ShowMessage("error") /\ retryAt' = now + RetryTime /\ UNCHANGED <<ready, synced, scanVars>>
    BY <1>3 DEF BootstrapAnswered
  <2>2. ScreenTypes' /\ screen' = "message" /\ says' = "error"
    BY <2>1, MessageTypes
  <2>3. BootTypes'
    BY <2>1, Bounds DEF IInv, TypeOK, BootTypes, WorldTypes
  <2>4. ScanTypes'
    BY <2>1 DEF IInv, TypeOK, ScanTypes, scanVars
  <2>5. Shown'
    BY <1>1, <2>1, <2>2 DEF IInv, Shown, scanVars, TypeOK, JobTypes, BootstrapAnswered
  <2> QED
    BY <1>1, <2>2, <2>3, <2>4, <2>5, SettledStep
<1> QED
  BY <1>2, <1>3

LEMMA ScanAnsweredIInv ==
  ASSUME IInv, NEW r, Taken(r), r.kind = "resolve", closing = None, ScanAnswered(r),
         UNCHANGED <<worldVars, serverVars>>
  PROVE  IInv'
<1>1. /\ job' = 0 /\ jobs' = <<>> /\ results' = <<>> /\ nextJob' \in nextJob .. MaxJobs + 1
      /\ UNCHANGED <<nextJob, outboxVars, pressed, closing>>
  BY NothingNew DEF ScanAnswered
<1>2. BootTypes'
  BY DEF ScanAnswered, IInv, TypeOK, BootTypes, bootVars
<1>3. CASE r.outcome = "ok"
  <2>1. resolved' = r.scan /\ person' = r.scan.employee /\ Show("actions", now + SelectionTime)
    BY <1>3 DEF ScanAnswered
  <2>2. ScreenTypes' /\ screen' = "actions" /\ says' = "nothing"
    BY <2>1, ShowTypes, Bounds DEF Screen
  <2>3. r.scan \in Scan /\ r.scan.scan = job /\ Unused(job) /\ job < nextJob
    BY <1>3 DEF Taken, ResultFits, Awaited
  <2>4. ScanTypes'
    BY <2>1, <2>3 DEF ScanAnswered, IInv, TypeOK, ScanTypes, Maybe, Scan
  <2>5. Shown'
    BY <1>1, <2>1, <2>2, <2>3 DEF Shown, Unused
  <2> QED
    BY <1>1, <1>2, <2>2, <2>4, <2>5, SettledStep
<1>4. CASE r.outcome # "ok"
  <2>1. ShowMessage("error") /\ UNCHANGED <<resolved, person>>
    BY <1>4 DEF ScanAnswered
  <2>2. ScreenTypes' /\ screen' = "message" /\ says' = "error"
    BY <2>1, MessageTypes
  <2>3. ScanTypes'
    BY <2>1 DEF ScanAnswered, IInv, TypeOK, ScanTypes
  <2>4. Shown'
    BY <1>1, <2>1, <2>2 DEF IInv, Shown
  <2> QED
    BY <1>1, <1>2, <2>2, <2>3, <2>4, SettledStep
<1> QED
  BY <1>3, <1>4

LEMMA CloseRefreshedIInv ==
  ASSUME IInv, NEW r, Taken(r), r.kind = "resolve", closing # None, CloseRefreshed(r),
         UNCHANGED <<worldVars, serverVars>>
  PROVE  IInv'
<1> DEFINE same == r.outcome = "ok" /\ SamePerson(r)
<1>1. /\ closing' = None /\ resolved' = IF same THEN r.scan ELSE resolved
      /\ UNCHANGED <<bootVars, uid, picker, person>>
  BY DEF CloseRefreshed
<1>2. same => /\ r.scan \in Scan /\ r.scan.scan = job /\ Unused(job) /\ job < nextJob
              /\ r.scan.employee = person
  BY DEF Taken, ResultFits, Awaited, SamePerson, IInv, Shown
<1>3. picker' \in PickerType
  BY <1>1 DEF IInv, TypeOK, ScanTypes, PickerType
<1>4. CASE same /\ r.scan.work = "working"
  <2>1. Execute(r.scan, "clock_out", None, FALSE, 0)
    BY <1>4 DEF CloseRefreshed
  <2>2. "clock_out" \in Command /\ None \in Maybe(Nat)
    BY DEF Command, Maybe
  <2>3. ExecuteStep(r.scan, "clock_out", None, FALSE)
    BY <1>1, <1>2, <1>3, <1>4, <2>1, <2>2 DEF ExecuteStep, Taken
  <2> QED
    BY <2>3, ExecuteIInv
<1>5. CASE ~(same /\ r.scan.work = "working")
  <2>1. NotStored(0)
    BY <1>5 DEF CloseRefreshed
  <2>2. /\ job' = 0 /\ jobs' = <<>> /\ results' = <<>> /\ nextJob' \in nextJob .. MaxJobs + 1
        /\ UNCHANGED <<nextJob, active, outboxVars, pressed>>
    BY <2>1, NothingNew DEF NotStored
  <2>3. ScreenTypes' /\ screen' = "message" /\ says' = "error"
    BY <2>1, MessageTypes DEF NotStored
  <2>4. ScanTypes'
    BY <1>1, <1>2, <2>2 DEF IInv, TypeOK, ScanTypes, Maybe
  <2>5. BootTypes'
    BY <1>1 DEF IInv, TypeOK, BootTypes, bootVars
  <2>6. Shown'
    BY <1>1, <1>2, <2>2, <2>3 DEF IInv, Shown
  <2> QED
    BY <2>2, <2>3, <2>4, <2>5, <2>6, SettledStep
<1> QED
  BY <1>4, <1>5

LEMMA ActionAnsweredIInv ==
  ASSUME IInv, NEW r, Taken(r), r.kind = "action", ActionAnswered(r),
         UNCHANGED <<worldVars, serverVars>>
  PROVE  IInv'
<1> DEFINE n == Len(accepted)
<1>1. /\ job' = 0 /\ jobs' = <<>> /\ results' = <<>> /\ nextJob' \in nextJob .. MaxJobs + 1
      /\ UNCHANGED <<nextJob, uid, closing, picker, person, pressed>> /\ active' = NoActive
  BY NothingNew DEF ActionAnswered
<1>2. resolved \in Scan /\ active.request = n /\ r.outcome \in {"ok", "refused", "lost"}
      /\ r.work \in Maybe(Work) /\ person = resolved.employee /\ resolved.scan < nextJob
  BY DEF Taken, Awaited, Result
<1>3. BootTypes'
  BY DEF ActionAnswered, IInv, TypeOK, BootTypes, bootVars
<1>4. CASE Ambiguous(r) /\ ShowMessage("saved") /\ UNCHANGED <<resolved, outboxVars>>
  <2>1. ScreenTypes' /\ screen' = "message" /\ says' = "saved"
    BY <1>4, MessageTypes
  <2>2. ScanTypes'
    BY <1>1, <1>4, NothingChosen DEF IInv, TypeOK, ScanTypes
  <2>3. Shown'
    BY <1>1, <1>4, <2>1 DEF IInv, Shown
  <2> QED
    BY <1>1, <1>3, <1>4, <2>1, <2>2, <2>3, SettledStep
<1>5. ASSUME ~Ambiguous(r), NEW stored \in BOOLEAN, Complete(active.request, stored),
             resolved' = IF r.work = None THEN resolved ELSE [resolved EXCEPT !.work = r.work],
             IF r.outcome # "ok" THEN ShowMessage("error")
             ELSE IF ~Confirms(stored) THEN ShowMessage("saved")
             ELSE IF active.closesBreak THEN Show("confirm", now + InteractionTime)
             ELSE ShowMessage("confirmed")
      PROVE  IInv'
  <2>1. /\ ScreenTypes' /\ screen' \in {"message", "confirm"}
        /\ says' = "confirmed" \/ screen' = "confirm" => r.outcome = "ok" /\ stored
    <3>1. CASE ShowMessage("error")
      BY <3>1, MessageTypes
    <3>2. CASE ShowMessage("saved")
      BY <3>2, MessageTypes
    <3>3. CASE r.outcome = "ok" /\ stored /\ Show("confirm", now + InteractionTime)
      BY <3>3, ShowTypes, Bounds DEF Screen
    <3>4. CASE r.outcome = "ok" /\ stored /\ ShowMessage("confirmed")
      BY <3>4, MessageTypes
    <3> QED
      BY <1>5, <3>1, <3>2, <3>3, <3>4 DEF Confirms
  <2>2. /\ resolved' \in Scan /\ resolved'.employee = resolved.employee
        /\ resolved'.scan = resolved.scan
    <3>1. CASE r.work = None
      BY <1>2, <1>5, <3>1
    <3>2. CASE r.work # None
      BY <1>2, <1>5, <3>2 DEF Scan, Maybe
    <3> QED
      BY <3>1, <3>2
  <2>3. ScanTypes'
    BY <1>1, <2>2, NothingChosen DEF IInv, TypeOK, ScanTypes, Maybe
  <2>4. Shown'
    <3>1. person' = resolved'.employee /\ resolved'.scan < nextJob'
      BY <1>1, <1>2, <2>2
    <3>2. closing' # None => closing' = person'
      BY <1>1 DEF IInv, Shown
    <3> QED
      BY <2>1, <3>1, <3>2 DEF Shown
  <2>5. CASE UNCHANGED outboxVars /\ ~stored
    BY <1>1, <1>3, <2>1, <2>3, <2>4, <2>5, SettledStep
  <2>6. CASE /\ head < n /\ accepted[head + 1] = n /\ UNCHANGED accepted
             /\ head' = head + 1 /\ known' = IF known < head' THEN head' ELSE known
    <3>1. /\ accepted \in Seq(Nat) /\ n \in Nat /\ known \in 0 .. n /\ head \in 0 .. known
          /\ \A i \in 1 .. n : accepted[i] = i
      BY DEF IInv, TypeOK, OutboxTypes, Kept
    <3>2. head + 1 = n /\ head' = n /\ known' = n
      BY <2>6, <3>1
    <3>3. UNCHANGED <<accepted, pressed, events, decided>>
      BY <1>1, <2>6 DEF serverVars
    <3>4. OutboxTypes'
      BY <3>1, <3>2, <3>3 DEF IInv, TypeOK, OutboxTypes
    <3>5. TypeOK'
      <4>1. JobTypes'
        BY <1>1, Bounds DEF IInv, TypeOK, JobTypes
      <4> QED
        BY <1>3, <2>1, <2>3, <3>4, <4>1 DEF IInv, TypeOK, WorldTypes, ServerTypes, worldVars, serverVars
    <3>6. OneJobAtATime' /\ Flight'
      BY <1>1, <2>1 DEF IInv, TypeOK, JobTypes, OneJobAtATime, Flight
    <3>7. Kept'
      BY <1>1, <3>3 DEF IInv, Kept
    <3>8. NeverDroppedUndecided'
      <4>1. n \in decided
        BY <1>2, <1>5 DEF Taken, ResultFits, Ambiguous
      <4>2. \A i \in 1 .. (n - 1) : accepted[i] \in decided
        <5>1. known = n - 1 \/ known = n
          BY <3>1, <3>2
        <5> QED
          BY <3>1, <5>1 DEF IInv, Promises, NeverDroppedUndecided
      <4> QED
        BY <3>1, <3>2, <3>3, <4>1, <4>2 DEF NeverDroppedUndecided
    <3>9. ConfirmedIsRecorded'
      <4>1. r.outcome = "ok" => \E ev \in events : ev.request = n /\ ev.employee = person
        BY DEF Taken, ResultFits
      <4> QED
        BY <1>1, <2>1, <3>2, <3>3, <4>1 DEF ConfirmedIsRecorded
    <3>10. StoredBeforeSent' /\ RecordedForThePersonShown' /\ OneActionPerScan'
      BY <1>1, <3>3 DEF IInv, Promises, StoredBeforeSent, RecordedForThePersonShown, OneActionPerScan
    <3> QED
      BY <2>4, <3>5, <3>6, <3>7, <3>8, <3>9, <3>10 DEF IInv, Promises
  <2> QED
    BY <1>2, <1>5, <2>5, <2>6 DEF Complete, Queue!Resolve
<1> QED
  BY <1>4, <1>5 DEF ActionAnswered

LEMMA TakeResultIInv ==
  ASSUME IInv, TakeResult
  PROVE  IInv'
<1>1. Taken(Head(results)) /\ UNCHANGED <<worldVars, serverVars>>
  BY ResultTaken DEF TakeResult, Unqueue
<1>2. Head(results).id = job
  BY <1>1 DEF Taken
<1> QED
  BY <1>1, <1>2, BootstrapAnsweredIInv, ScanAnsweredIInv, CloseRefreshedIInv, ActionAnsweredIInv
     DEF TakeResult

-----------------------------------------------------------------------------
(* The network task and the server.                                        *)

LEMMA LostIsResult ==
  ASSUME IInv, NEW j \in Job
  PROVE  /\ Lost(j) \in Result /\ Lost(j).id = j.id /\ Lost(j).kind = j.kind
         /\ Lost(j).outcome = "lost"
<1>1. now \in Nat
  BY Bounds DEF IInv, TypeOK, WorldTypes
<1>2. j.id \in Nat /\ j.kind \in {"bootstrap", "resolve", "action"}
  BY DEF Job
<1>3. None \in Maybe(Scan) /\ None \in Maybe(Work)
  BY DEF Maybe
<1>4. Lost(j) = [id |-> j.id, kind |-> j.kind, outcome |-> "lost", why |-> "none",
                 scan |-> None, work |-> None, time |-> now]
  BY DEF Lost
<1> QED
  BY <1>1, <1>2, <1>3, <1>4 DEF Result, Reason

\* The answer to a request for a card.
LEMMA ScanIsScan ==
  ASSUME IInv, NEW j \in Job, j.tag \in Tag, j.id \in 1 .. MaxJobs, owner[j.tag] # None,
         NEW long \in BOOLEAN
  PROVE  ScanOf(j, long) \in Scan /\ ScanOf(j, long).scan = j.id
<1> DEFINE e == owner[j.tag]
<1>1. e \in Employee
  BY DEF IInv, TypeOK, ServerTypes, Maybe
<1>2. now + ScanTTL \in Nat
  BY Bounds DEF IInv, TypeOK, WorldTypes
<1>3. work[e].state \in Work /\ work[e].since \in Nat
  BY <1>1 DEF IInv, TypeOK, ServerTypes
<1>4. (long /\ work[e].state = "working") \in BOOLEAN
  OBVIOUS
<1> QED
  BY <1>1, <1>2, <1>3, <1>4 DEF ScanOf, Scan

\* What the server answers, besides what it records.
LEMMA AnswerIsResult ==
  ASSUME IInv, NEW j \in Job, j.id \in 1 .. MaxJobs, JobFits(j), NEW r \in Answers(j)
  PROVE  /\ r \in Result /\ r.id = j.id /\ r.kind = j.kind
         /\ r.kind = "resolve" /\ r.outcome = "ok" => r.scan \in Scan /\ r.scan.scan = r.id
         /\ r.kind = "action" /\ r.outcome = "ok" => Verdict(j.action) = "accepted"
<1> DEFINE lost == Lost(j)
<1>1. /\ lost \in Result /\ lost.id = j.id /\ lost.kind = j.kind /\ lost.outcome = "lost"
  BY LostIsResult
<1>2. CASE j.kind = "bootstrap"
  <2>1. r = [lost EXCEPT !.outcome = "ok"]
    BY <1>2 DEF Answers
  <2> HIDE DEF lost
  <2> QED
    BY <1>1, <1>2, <2>1 DEF Result
<1>3. CASE j.kind = "resolve"
  <2>1. CASE owner[j.tag] = None
    <3>1. r = [lost EXCEPT !.outcome = "refused", !.why = "unknown_tag"]
      BY <1>3, <2>1 DEF Answers
    <3> HIDE DEF lost
    <3> QED
      BY <1>1, <1>3, <3>1 DEF Result, Reason
  <2>2. CASE owner[j.tag] # None
    <3>1. PICK long \in BOOLEAN : r = [lost EXCEPT !.outcome = "ok", !.scan = ScanOf(j, long)]
      BY <1>3, <2>2 DEF Answers
    <3>2. ScanOf(j, long) \in Scan /\ ScanOf(j, long).scan = j.id
      BY <1>3, <2>2, ScanIsScan DEF JobFits
    <3>3. ScanOf(j, long) \in Maybe(Scan)
      BY <3>2 DEF Maybe
    <3> DEFINE s == ScanOf(j, long)
    <3>4. s \in Maybe(Scan) /\ s \in Scan /\ s.scan = j.id
          /\ r = [lost EXCEPT !.outcome = "ok", !.scan = s]
      BY <3>1, <3>2, <3>3
    <3> HIDE DEF lost, s
    <3>5. r.scan = s /\ r.id = j.id /\ r.kind = j.kind /\ r \in Result
      BY <1>1, <3>4 DEF Result
    <3> QED
      BY <1>3, <3>4, <3>5
  <2> QED
    BY <2>1, <2>2
<1>4. CASE j.kind = "action"
  <2>1. j.action \in Action
    BY <1>4 DEF JobFits
  <2>2. Verdict(j.action) \in Reason
    BY DEF Verdict, Reason
  <2>3. Leaves(j.action.command) \in Maybe(Work) /\ work[j.action.employee].state \in Maybe(Work)
        /\ None \in Maybe(Work)
    BY <2>1, LeavesIsWork DEF Action, Maybe, IInv, TypeOK, ServerTypes
  <2>4. CASE Verdict(j.action) = "accepted"
    <3>1. r = [lost EXCEPT !.outcome = "ok", !.why = Verdict(j.action),
                           !.work = Leaves(j.action.command)]
      BY <1>4, <2>4 DEF Answers
    <3> HIDE DEF lost
    <3> QED
      BY <1>1, <1>4, <2>2, <2>3, <2>4, <3>1 DEF Result
  <2>5. CASE Verdict(j.action) # "accepted"
    <3>1. PICK w \in Maybe(Work) :
            r = [lost EXCEPT !.outcome = "refused", !.why = Verdict(j.action), !.work = w]
      BY <1>4, <2>3, <2>5 DEF Answers
    <3> HIDE DEF lost
    <3> QED
      BY <1>1, <1>4, <2>2, <3>1 DEF Result
  <2> QED
    BY <2>4, <2>5
<1> QED
  BY <1>2, <1>3, <1>4 DEF Job

\* The job that the network task takes.
Asked(j) ==
  /\ j \in Job /\ Awaited(j) /\ JobFits(j) /\ j.id = job /\ job \in 1 .. MaxJobs
  /\ results = <<>> /\ jobs' = <<>>

LEMMA JobAsked ==
  ASSUME IInv, jobs # <<>>, jobs' = Tail(jobs)
  PROVE  Asked(Head(jobs))
<1>1. Len(jobs) = 1 /\ jobs \in Seq(Job) /\ job # 0 /\ job \in 0 .. MaxJobs /\ results = <<>>
  BY DEF IInv, OneJobAtATime, TypeOK, JobTypes
<1>2. Head(jobs) = jobs[1] /\ jobs' = <<>> /\ DOMAIN jobs = {1} /\ jobs[1] \in Job
  BY <1>1, Single
<1>3. job \in 1 .. MaxJobs
  BY <1>1, Bounds
<1>4. Awaited(jobs[1]) /\ JobFits(jobs[1])
  BY <1>2 DEF IInv, Flight
<1> QED
  BY <1>1, <1>2, <1>3, <1>4 DEF Asked, Awaited

\* The server records at most the action of the job, and for its own employee.
LEMMA Served ==
  ASSUME IInv, NEW j, Asked(j), Serve(j)
  PROVE  /\ ServerTypes' /\ events \subseteq events' /\ decided \subseteq decided'
         /\ j.kind = "action" => j.action.request \in decided'
         /\ j.kind = "action" /\ Verdict(j.action) = "accepted" =>
              \E ev \in events' : ev.request = j.action.request /\ ev.employee = j.action.employee
         /\ \A ev \in events' : ev \in events \/
              /\ j.kind = "action" /\ ev.request = j.action.request
              /\ ev.employee = j.action.employee /\ ev.command = j.action.command
<1>0. ServerTypes
  BY DEF IInv, TypeOK
<1>1. CASE j.kind # "action"
  BY <1>0, <1>1 DEF Serve, serverVars, ServerTypes
<1>2. CASE j.kind = "action"
  <2> DEFINE a == j.action
             event == [request |-> a.request, employee |-> a.employee, command |-> a.command]
  <2>1. a \in Action
    BY <1>2 DEF Asked, JobFits
  <2>2. /\ a.request \in Nat /\ a.employee \in Employee /\ a.command \in Command
        /\ a.applied \in Maybe(Nat)
    BY <2>1 DEF Action
  <2>3. Record(a) /\ decided' = decided \cup {a.request} /\ UNCHANGED <<owner, changes>>
    BY <1>2 DEF Serve
  <2>4. event \in [request : Nat, employee : Employee, command : Command]
        /\ event.request = a.request /\ event.employee = a.employee /\ event.command = a.command
    BY <2>2
  <2>5. decided' \subseteq Nat
    BY <1>0, <2>2, <2>3 DEF ServerTypes
  <2>6. Effective(a) \in Nat /\ Leaves(a.command) \in Work
    BY <2>2, LeavesIsWork, Bounds DEF Effective, Maybe, IInv, TypeOK, WorldTypes
  <2>7. CASE Verdict(a) = "accepted"
    <3>1. /\ work' = [work EXCEPT ![a.employee] = [state |-> Leaves(a.command), since |-> Effective(a)]]
          /\ events' = events \cup {event}
      BY <2>3, <2>7 DEF Record
    <3> HIDE DEF event, a
    <3>2. work' \in [Employee -> [state : Work, since : Nat]]
      BY <1>0, <2>2, <2>6, <3>1 DEF ServerTypes
    <3>3. events' \subseteq [request : Nat, employee : Employee, command : Command]
      BY <1>0, <2>4, <3>1 DEF ServerTypes
    <3>4. ServerTypes'
      BY <1>0, <2>3, <2>5, <3>2, <3>3 DEF ServerTypes
    <3> QED
      BY <1>2, <2>3, <2>4, <3>1, <3>4 DEF a
  <2>8. CASE Verdict(a) # "accepted"
    <3>1. UNCHANGED <<work, events>>
      BY <2>3, <2>8 DEF Record
    <3> QED
      BY <1>0, <1>2, <2>3, <2>5, <2>8, <3>1 DEF ServerTypes
  <2> QED
    BY <2>7, <2>8
<1> QED
  BY <1>1, <1>2

\* The result of the job takes its place.
LEMMA AnsweredStep ==
  ASSUME IInv, NEW j, Asked(j), NEW r \in Result, r.id = j.id, r.kind = j.kind,
         results' = Append(results, r), ResultFits(r)',
         ServerTypes', events \subseteq events', decided \subseteq decided',
         \A ev \in events' : ev \in events \/
           /\ j.kind = "action" /\ ev.request = j.action.request
           /\ ev.employee = j.action.employee /\ ev.command = j.action.command,
         UNCHANGED <<worldVars, screen, deadline, says, bootVars, job, nextJob, scanVars,
                     outboxVars, pressed>>
  PROVE  IInv'
<1>1. UNCHANGED <<accepted, known, head, pressed, screen, says, job, nextJob, resolved, closing,
                  active, person>>
  BY DEF outboxVars, scanVars
<1>2. /\ results' \in Seq(Result) /\ Len(results') = 1 /\ results'[1] = r /\ DOMAIN results' = {1}
      /\ jobs' = <<>>
  BY AppendToNone DEF Asked
<1>3. TypeOK'
  <2>1. JobTypes'
    BY <1>1, <1>2 DEF IInv, TypeOK, JobTypes
  <2> QED
    BY <2>1 DEF IInv, TypeOK, WorldTypes, ScreenTypes, BootTypes, ScanTypes, OutboxTypes,
                worldVars, bootVars, scanVars, outboxVars
<1>4. OneJobAtATime'
  BY <1>1, <1>2 DEF Asked, OneJobAtATime
<1>5. Flight'
  <2>1. Awaited(results[1])'
    BY <1>1, <1>2 DEF Asked, Awaited, Unused
  <2>2. ResultFits(results[1])'
    BY <1>2 DEF ResultFits
  <2> QED
    BY <1>1, <1>2, <2>1, <2>2 DEF IInv, Flight
<1>6. Shown' /\ Kept'
  BY <1>1 DEF IInv, Shown, Unused, Kept
<1>7. StoredBeforeSent'
  <2>1. j.kind = "action" => j.action.request = Len(accepted) /\ Len(accepted) \in Nat
    BY DEF Asked, JobFits, IInv, TypeOK, OutboxTypes
  <2>2. \A ev \in events' : ev.request <= Len(accepted)
    BY <2>1 DEF IInv, Promises, StoredBeforeSent
  <2> QED
    BY <1>1, <1>2, <2>2 DEF StoredBeforeSent
<1>8. RecordedForThePersonShown'
  <2>1. \A ev \in events' : ev \in events \/
          /\ ev.request = Len(accepted)
          /\ ev.employee = pressed[Len(accepted)].by /\ ev.command = pressed[Len(accepted)].command
    BY DEF Asked, JobFits
  <2> QED
    BY <1>1, <2>1 DEF IInv, Promises, RecordedForThePersonShown
<1>9. NeverDroppedUndecided' /\ ConfirmedIsRecorded' /\ OneActionPerScan'
  BY <1>1 DEF IInv, Promises, NeverDroppedUndecided, ConfirmedIsRecorded, OneActionPerScan
<1> QED
  BY <1>3, <1>4, <1>5, <1>6, <1>7, <1>8, <1>9 DEF IInv, Promises

LEMMA DoJobIInv ==
  ASSUME IInv, DoJob
  PROVE  IInv'
<1> DEFINE j == Head(jobs)
           n == Len(accepted)
<1>1. Asked(j) /\ n' = n /\ person' = person
  BY JobAsked DEF DoJob, outboxVars, scanVars
<1>2. Lost(j) \in Result /\ Lost(j).id = j.id /\ Lost(j).kind = j.kind /\ Lost(j).outcome = "lost"
  BY <1>1, LostIsResult DEF Asked
<1>3. ASSUME NEW r \in Answers(j), Serve(j), results' = Append(results, r)
      PROVE  IInv'
  <2>1. /\ r \in Result /\ r.id = j.id /\ r.kind = j.kind
        /\ r.kind = "resolve" /\ r.outcome = "ok" => r.scan \in Scan /\ r.scan.scan = r.id
        /\ r.kind = "action" /\ r.outcome = "ok" => Verdict(j.action) = "accepted"
    BY <1>1, <1>3, AnswerIsResult DEF Asked
  <2>2. /\ ServerTypes' /\ events \subseteq events' /\ decided \subseteq decided'
        /\ j.kind = "action" => j.action.request \in decided'
        /\ j.kind = "action" /\ Verdict(j.action) = "accepted" =>
             \E ev \in events' : ev.request = j.action.request /\ ev.employee = j.action.employee
        /\ \A ev \in events' : ev \in events \/
             /\ j.kind = "action" /\ ev.request = j.action.request
             /\ ev.employee = j.action.employee /\ ev.command = j.action.command
    BY <1>1, <1>3, Served
  <2>3. j.kind = "action" => j.action.request = n /\ j.action.employee = person
    BY <1>1 DEF Asked, JobFits
  <2>4. ResultFits(r)'
    BY <1>1, <2>1, <2>2, <2>3 DEF ResultFits
  <2> QED
    BY <1>1, <1>3, <2>1, <2>2, <2>4, AnsweredStep DEF DoJob
<1>4. ASSUME NEW r, r = Lost(j), Serve(j), results' = Append(results, r)
      PROVE  IInv'
  <2>1. r \in Result /\ r.id = j.id /\ r.kind = j.kind /\ ResultFits(r)'
    BY <1>2, <1>4 DEF ResultFits
  <2> QED
    BY <1>1, <1>4, <2>1, Served, AnsweredStep DEF DoJob
<1>5. ASSUME NEW r, r = Lost(j), results' = Append(results, r), UNCHANGED serverVars
      PROVE  IInv'
  <2>1. r \in Result /\ r.id = j.id /\ r.kind = j.kind /\ ResultFits(r)'
    BY <1>2, <1>5 DEF ResultFits
  <2>2. ServerTypes' /\ UNCHANGED <<events, decided>>
    BY <1>5 DEF serverVars, IInv, TypeOK, ServerTypes
  <2> QED
    BY <1>1, <1>5, <2>1, <2>2, AnsweredStep DEF DoJob
<1> QED
  BY <1>3, <1>4, <1>5 DEF DoJob

-----------------------------------------------------------------------------
(* A restart, and every step.                                              *)

LEMMA RestartIInv ==
  ASSUME IInv, Restart
  PROVE  IInv'
<1>1. UNCHANGED <<accepted, known, nextJob, pressed, now, owner, work, events, changes, decided>>
  BY DEF Restart, Queue!OfferKnown, serverVars
<1>2. head' \in 0 .. known
  BY DEF Restart, Queue!OfferKnown
<1>3. WorldTypes'
  <2>1. restarts' \in 0 .. MaxRestarts
    BY Bounds DEF Restart, IInv, TypeOK, WorldTypes
  <2>2. online' \in BOOLEAN /\ clockSet' \in BOOLEAN
    BY DEF Restart
  <2> QED
    BY <1>1, <2>1, <2>2 DEF IInv, TypeOK, WorldTypes
<1>4. ScreenTypes' /\ screen' = "boot" /\ says' = "nothing"
  BY DEF Restart, Show, ScreenTypes, Maybe, Screen
<1>5. BootTypes'
  <2>1. retryAt' \in Nat
    BY Bounds DEF Restart, IInv, TypeOK, WorldTypes
  <2> QED
    BY <2>1 DEF Restart, BootTypes, Maybe
<1>6. JobTypes' /\ job' = 0 /\ jobs' = <<>> /\ results' = <<>>
  BY <1>1, Bounds DEF Restart, IInv, TypeOK, JobTypes
<1>7. ScanTypes' /\ resolved' = None /\ closing' = None
  BY NothingChosen DEF Restart, ScanTypes, Maybe
<1>8. OutboxTypes' /\ ServerTypes'
  BY <1>1, <1>2 DEF IInv, TypeOK, OutboxTypes, ServerTypes
<1>9. OneJobAtATime' /\ Flight'
  BY <1>1, <1>4, <1>6, Bounds DEF OneJobAtATime, Flight, IInv, TypeOK, JobTypes
<1>10. Shown' /\ Kept'
  BY <1>1, <1>4, <1>7 DEF Shown, Kept, IInv
<1>11. Promises'
  BY <1>1, <1>4, <1>6 DEF IInv, Promises, StoredBeforeSent, RecordedForThePersonShown,
     NeverDroppedUndecided, ConfirmedIsRecorded, OneActionPerScan
<1> QED
  BY <1>3, <1>4, <1>5, <1>6, <1>7, <1>8, <1>9, <1>10, <1>11 DEF IInv, TypeOK

LEMMA StutterIInv ==
  ASSUME IInv, UNCHANGED vars
  PROVE  IInv'
<1>1. WorldTypes' /\ ServerTypes' /\ UNCHANGED <<terminalVars, events, decided>>
  BY DEF IInv, TypeOK, WorldTypes, ServerTypes, vars, worldVars, serverVars, terminalVars
<1> QED
  BY <1>1, WorldStep

LEMMA NextIInv ==
  ASSUME IInv, [Next]_vars
  PROVE  IInv'
BY StartBootstrapIInv, PutOffIInv, DeadlineIInv, ScanCardIInv, ChooseActionIInv, AskTimeIInv,
   MoveTimeIInv, ConfirmTimeIInv, DeclineIInv, AcceptCloseIInv, TakeResultIInv, DoJobIInv,
   WorldIInv, RestartIInv, StutterIInv DEF Next

LEMMA IInvHolds == Spec => []IInv
BY InitIInv, NextIInv, PTL DEF Spec

-----------------------------------------------------------------------------
(* What the application promises.                                          *)

\* Every variable keeps its type, for every set of cards and people.
THEOREM AppTypeCorrect == Spec => []TypeOK
<1>1. IInv => TypeOK
  BY DEF IInv
<1> QED
  BY <1>1, IInvHolds, PTL

\* Whatever is pressed, scanned, timed out or lost, at most one job is under
\* way, and it is the one the application waits for (activeJobId_).
THEOREM OneJobIsAwaited == Spec => []OneJobAtATime
<1>1. IInv => OneJobAtATime
  BY DEF IInv
<1> QED
  BY <1>1, IInvHolds, PTL

\* The server is never asked to record what is not in the outbox.
THEOREM StorageComesFirst == Spec => []StoredBeforeSent
<1>1. IInv => StoredBeforeSent
  BY DEF IInv, Promises
<1> QED
  BY <1>1, IInvHolds, PTL

\* Whatever happens to the card meanwhile, the server records an action for the
\* person whose name was on the screen when it was confirmed.
THEOREM ThePersonShownIsRecorded == Spec => []RecordedForThePersonShown
<1>1. IInv => RecordedForThePersonShown
  BY DEF IInv, Promises
<1> QED
  BY <1>1, IInvHolds, PTL

\* No action leaves the outbox before the server has recorded or refused it.
THEOREM UndecidedActionsAreKept == Spec => []NeverDroppedUndecided
<1>1. IInv => NeverDroppedUndecided
  BY DEF IInv, Promises
<1> QED
  BY <1>1, IInvHolds, PTL

\* A confirmation on the screen means a record on the server that will not be
\* sent again.
THEOREM ConfirmationIsTrue == Spec => []ConfirmedIsRecorded
<1>1. IInv => ConfirmedIsRecorded
  BY DEF IInv, Promises
<1> QED
  BY <1>1, IInvHolds, PTL

\* One scan of a card makes one action at most.
THEOREM ScansAreSpent == Spec => []OneActionPerScan
<1>1. IInv => OneActionPerScan
  BY DEF IInv, Promises
<1> QED
  BY <1>1, IInvHolds, PTL
=============================================================================
