------------------------------- MODULE Ledger -------------------------------
(***************************************************************************)
(* The attendance ledger (the work_events collection) and the two paths    *)
(* that write it: the RFID terminals' API (internal/terminal/events.go)    *)
(* and the web application (backend/pb_hooks/main.pb.js).                  *)
(*                                                                         *)
(* A terminal action is recorded in one database transaction together with *)
(* its receipt, or becomes an incident with its receipt.  A client that    *)
(* did not see the answer sends the action again, online or in an offline  *)
(* batch, and possibly while the first request is still running.  The web  *)
(* hook reads the ledger before the request's save, outside a transaction. *)
(*                                                                         *)
(* Time is a counter of server instants: no two requests are received in   *)
(* the same millisecond.  A hash is the index of the event it belongs to.  *)
(* What an action carries is fixed when the device captures it; a batch is *)
(* its actions, handled one after the other.  Events are neither updated   *)
(* nor deleted (the collection's API rules).                               *)
(***************************************************************************)
EXTENDS Naturals, Sequences, FiniteSets

CONSTANTS Terminal,         \* terminals
          Request,          \* clientRequestIds
          Key,              \* the actions: a terminal and a clientRequestId
          CardUser,         \* employees who clock at the terminals
          WebUser,          \* employees who clock from the web application
          Handler,          \* requests the server may be handling at once
          Client,           \* browsers: web requests in flight at once
          None,             \* no action, no receipt, no origin
          MaxNow,           \* bound: instants
          MaxCorrections,   \* bound: corrections
          MaxSkew,          \* bound: how far a device's clock runs ahead
          Tolerance         \* how far ahead the server accepts (5 minutes)

Employee == CardUser \cup WebUser

Command == {"clock_in", "break_start", "break_end", "clock_out"}
Closing == {"break_end", "clock_out"}

\* allowedCommands; no event at all is as good as a clock_out.
Allowed(previous) ==
  CASE previous = "clock_out"   -> {"clock_in"}
    [] previous = "clock_in"    -> {"break_start", "clock_out"}
    [] previous = "break_start" -> {"break_end"}
    [] previous = "break_end"   -> {"break_start", "clock_out"}

\* What a device captured; applied = 0 when the person chose no time.
Action == [employee : Employee, command : Command, captured : Nat, applied : Nat]

\* A correction names the event it corrects and carries its corrected kind.
Event == [employee : Employee, kind : Command, at : Nat, corrects : Nat, prev : Nat,
          origin : Key \cup {None}]

Receipt == [status : {"accepted", "incident"}, ref : Nat]

ASSUME LedgerAssumption ==
  /\ Key \subseteq Terminal \X Request
  /\ None \notin Key /\ None \notin Action /\ None \notin Event /\ None \notin Receipt
  /\ {MaxNow, MaxCorrections, MaxSkew, Tolerance} \subseteq Nat

VARIABLES now,          \* the server's clock
          events,       \* work_events, in the order of their creation
          receipts,     \* terminal_action_receipts, one per key
          incidents,    \* terminal_sync_incidents: the key of each
          sent,         \* what the devices captured, once sent, by key
          handler,      \* terminal requests in flight
          client,       \* web requests in flight: the event about to be saved
          answers       \* history: the definitive answers to each key

vars == <<now, events, receipts, incidents, sent, handler, client, answers>>

(***************************************************************************)
(* Reading the ledger.                                                     *)
(***************************************************************************)
Own(e) == {i \in DOMAIN events : events[i].employee = e}
Raw(e) == {i \in Own(e) : events[i].corrects = 0}
CorrectionsOf(i) == {c \in DOMAIN events : events[c].corrects = i}

\* The record that gives an event its effective kind and time: the correction
\* with the latest time, in recorded order among equals.
Final(i) ==
  IF CorrectionsOf(i) = {} THEN events[i]
  ELSE events[CHOOSE c \in CorrectionsOf(i) : \A d \in CorrectionsOf(i) :
                \/ events[d].at < events[c].at
                \/ events[d].at = events[c].at /\ d <= c]

\* effectiveEvents goes over a Go map and sorts by time with an unstable sort:
\* any of the events with the latest time may come out last.
Latest(e) == {i \in Raw(e) : \A j \in Raw(e) : Final(j).at <= Final(i).at}
PossibleLast(e) == IF Raw(e) = {} THEN {"clock_out"} ELSE {Final(i).kind : i \in Latest(e)}
NotBefore(t, e) == \A i \in Raw(e) : Final(i).at <= t

\* The web hook's latest event: by time, corrections and corrected values apart.
RawLatest(e) == {i \in Raw(e) : \A j \in Raw(e) : events[j].at <= events[i].at}
PossibleRawLast(e) == IF Raw(e) = {} THEN {"clock_out"} ELSE {events[i].kind : i \in RawLatest(e)}

\* integrityTipHash: the newest event no other one refers to; 0 stands for "".
Unreferenced(e) == {i \in Own(e) : \A j \in Own(e) : events[j].prev # i}

\* Mistake: the newest event is left out of the search.
TipSkipsNewest(e) ==
  LET older == {i \in Unreferenced(e) : \E j \in Own(e) : i < j}
  IN IF older = {} THEN 0 ELSE CHOOSE i \in older : \A j \in older : j <= i

\* Mistake: the latest event by time is taken for the tip.
TipByTime(e) == IF Raw(e) = {} THEN 0 ELSE CHOOSE i \in RawLatest(e) : TRUE

Tip(e) == IF Unreferenced(e) = {} THEN 0
          ELSE CHOOSE i \in Unreferenced(e) : \A j \in Unreferenced(e) : j <= i

Used(r) == \E i \in DOMAIN events : events[i].origin # None /\ events[i].origin[2] = r

(***************************************************************************)
(* The terminal API.                                                       *)
(***************************************************************************)
Free == [stage |-> "free", key |-> None, offline |-> FALSE, readAt |-> 0]
Handling(stage, k, offline, t) ==
  [stage |-> stage, key |-> k, offline |-> offline, readAt |-> t]

\* The answers after which a device drops the action, and the others.
Definitive(h, k, status) == /\ answers' = [answers EXCEPT ![k] = @ \cup {status}]
                            /\ handler' = [handler EXCEPT ![h] = Free]
Refused(h) == /\ handler' = [handler EXCEPT ![h] = Free]
              /\ UNCHANGED answers
Move(h, stage) == /\ handler' = [handler EXCEPT ![h] =
                                    Handling(stage, @.key, @.offline, @.readAt)]
                  /\ UNCHANGED answers

\* The actions a device may have captured by the instant t: a person chooses
\* an option at a terminal, and only a closing carries a chosen time.
Capturable(t) ==
  {a \in [employee : CardUser, command : Command, captured : 1 .. (t + MaxSkew),
          applied : 0 .. (t + MaxSkew)] :
     a.applied # 0 => a.command \in Closing /\ a.applied <= a.captured}

\* Mistake: the request in flight is not kept with its action.
ReceiveUnsent(h, k, offline) ==
  /\ handler[h] = Free /\ now < MaxNow
  /\ now' = now + 1
  /\ handler' = [handler EXCEPT ![h] = Handling("open", k, offline, now')]
  /\ UNCHANGED <<events, receipts, incidents, sent, client, answers>>

\* A terminal action up to its transaction: the tag, the receipt, and the
\* device's clock.  Whether the action is fit (its tag
\* belongs to an active employee, its clock was set in the last 24 hours) is
\* left open: tags are assigned and revoked at any time.
Receive(h, k, offline) ==
  /\ handler[h] = Free /\ now < MaxNow
  /\ now' = now + 1
  /\ \E a \in IF sent[k] = None THEN Capturable(now') ELSE {sent[k]}, fit \in BOOLEAN :
       /\ sent' = [sent EXCEPT ![k] = a]
       /\ LET Proceed(stage) == /\ handler' = [handler EXCEPT ![h] = Handling(stage, k, offline, now')]
                                /\ UNCHANGED answers
              Refuse == IF offline THEN Proceed("reporting") ELSE UNCHANGED <<handler, answers>>
          IN IF ~fit THEN Refuse
             ELSE IF receipts[k] # None THEN Definitive(h, k, "duplicate")
             ELSE IF a.captured > now' + Tolerance THEN Refuse
             ELSE Proceed("open")
  /\ UNCHANGED <<events, receipts, incidents, client>>

PerformAction(h, k) == Receive(h, k, FALSE)   \* answered at once
SyncAction(h, k) == Receive(h, k, TRUE)       \* one action of a batch

EffectiveAt(a, offline, t) ==
  IF a.applied # 0 THEN a.applied ELSE IF offline THEN a.captured ELSE t

\* Mistake: an event may be older than the last one.
AdmissibleAnyTime(k, a, at, last) ==
  /\ a.command \in Allowed(last)
  /\ a.applied # 0 => a.command \in Closing /\ a.applied <= a.captured
  /\ ~Used(k[2])

\* What the transaction of recordTerminalAction demands, if the last event is
\* taken to be of kind `last`.
Admissible(k, a, at, last) ==
  /\ a.command \in Allowed(last)
  /\ a.applied # 0 => a.command \in Closing /\ a.applied <= a.captured
  /\ NotBefore(at, a.employee)
  /\ ~Used(k[2])                    \* the unique index on clientRequestId

\* The transaction of recordTerminalAction.
Commit(h) ==
  /\ handler[h].stage = "open"
  /\ LET k == handler[h].key
         a == sent[k]
         at == EffectiveAt(a, handler[h].offline, handler[h].readAt)
     IN \/ /\ receipts[k] # None
           /\ Definitive(h, k, "duplicate")
           /\ UNCHANGED <<events, receipts>>
        \/ /\ receipts[k] = None
           /\ \E last \in PossibleLast(a.employee) : Admissible(k, a, at, last)
           /\ events' = Append(events, [employee |-> a.employee, kind |-> a.command,
                                        at |-> at, corrects |-> 0,
                                        prev |-> Tip(a.employee), origin |-> k])
           /\ receipts' = [receipts EXCEPT ![k] =
                             [status |-> "accepted", ref |-> Len(events) + 1]]
           /\ Definitive(h, k, "accepted")
        \/ /\ receipts[k] = None
           /\ \E last \in PossibleLast(a.employee) : ~Admissible(k, a, at, last)
           /\ IF handler[h].offline THEN Move(h, "reporting") ELSE Refused(h)
           /\ UNCHANGED <<events, receipts>>
  /\ UNCHANGED <<now, incidents, sent, client>>

\* createIncident looks for a receipt before its transaction.
Report(h) ==
  /\ handler[h].stage = "reporting"
  /\ IF receipts[handler[h].key] # None THEN Definitive(h, handler[h].key, "duplicate")
     ELSE Move(h, "saving")
  /\ UNCHANGED <<now, events, receipts, incidents, sent, client>>

\* Mistake: no unique index on the receipts.
SaveIncidentNoIndex(h) ==
  /\ handler[h].stage = "saving"
  /\ LET k == handler[h].key
     IN /\ \A i \in DOMAIN incidents : incidents[i] # k
        /\ incidents' = Append(incidents, k)
        /\ receipts' = [receipts EXCEPT ![k] = [status |-> "incident", ref |-> Len(incidents) + 1]]
        /\ Definitive(h, k, "incident")
  /\ UNCHANGED <<now, events, sent, client>>

\* Mistake: a failed transaction is answered as an incident.
SaveIncidentSwallowed(h) ==
  /\ handler[h].stage = "saving"
  /\ Definitive(h, handler[h].key, "incident")
  /\ UNCHANGED <<now, events, receipts, incidents, sent, client>>

\* The transaction of createIncident: the unique indexes of the incidents and
\* of the receipts may refuse it, and so may any other failure in it.
SaveIncident(h) ==
  /\ handler[h].stage = "saving"
  /\ LET k == handler[h].key
     IN \/ /\ receipts[k] = None /\ \A i \in DOMAIN incidents : incidents[i] # k
           /\ incidents' = Append(incidents, k)
           /\ receipts' = [receipts EXCEPT ![k] =
                             [status |-> "incident", ref |-> Len(incidents) + 1]]
           /\ Definitive(h, k, "incident")
        \/ /\ Refused(h)
           /\ UNCHANGED <<incidents, receipts>>
  /\ UNCHANGED <<now, events, sent, client>>

(***************************************************************************)
(* The web application: the create hook of work_events reads, then the     *)
(* request saves.                                                          *)
(***************************************************************************)
Draft(w, e, kind, at, corrects) ==
  /\ client' = [client EXCEPT ![w] = [employee |-> e, kind |-> kind, at |-> at,
                 corrects |-> corrects, prev |-> Tip(e), origin |-> None]]
  /\ UNCHANGED <<events, receipts, incidents, sent, handler, answers>>

\* Mistake: the reviewed time is not compared with the last event's.
WebClockAnyTime(w, e, kind) ==
  /\ client[w] = None /\ now < MaxNow
  /\ now' = now + 1
  /\ \E last \in PossibleRawLast(e) : kind \in Allowed(last)
  /\ \E at \in IF kind \in Closing THEN 1 .. now' ELSE {now'} : Draft(w, e, kind, at, 0)

\* A clocking: now, or at the reviewed time of a closing.
WebClock(w, e, kind) ==
  /\ client[w] = None /\ now < MaxNow
  /\ now' = now + 1
  /\ \E last \in PossibleRawLast(e) : kind \in Allowed(last)
  /\ \E at \in IF kind \in Closing THEN 1 .. now' ELSE {now'} :
       /\ kind \in Closing => \A i \in Raw(e) : events[i].at <= at
       /\ Draft(w, e, kind, at, 0)

\* A manager's correction of one of the employee's records, at any time.
WebCorrect(w, e, target, kind) ==
  /\ client[w] = None /\ now < MaxNow
  /\ Cardinality({i \in DOMAIN events : events[i].corrects # 0}) < MaxCorrections
  /\ now' = now + 1
  /\ \E at \in 1 .. MaxNow : Draft(w, e, kind, at, target)

WebSave(w) ==
  /\ client[w] # None
  /\ events' = Append(events, client[w])
  /\ client' = [client EXCEPT ![w] = None]
  /\ UNCHANGED <<now, receipts, incidents, sent, handler, answers>>

Init == /\ now = 0
        /\ events = <<>>
        /\ receipts = [k \in Key |-> None]
        /\ incidents = <<>>
        /\ sent = [k \in Key |-> None]
        /\ handler = [h \in Handler |-> Free]
        /\ client = [w \in Client |-> None]
        /\ answers = [k \in Key |-> {}]

Next == \/ \E h \in Handler, k \in Key : PerformAction(h, k)
        \/ \E h \in Handler, k \in Key : SyncAction(h, k)
        \/ \E h \in Handler : Commit(h)
        \/ \E h \in Handler : Report(h)
        \/ \E h \in Handler : SaveIncident(h)
        \/ \E w \in Client, e \in WebUser, c \in Command : WebClock(w, e, c)
        \/ \E w \in Client, e \in WebUser, c \in Command : \E i \in Own(e) : WebCorrect(w, e, i, c)
        \/ \E w \in Client : WebSave(w)

Spec == Init /\ [][Next]_vars

-----------------------------------------------------------------------------
HandlersOK ==
  /\ handler \in [Handler -> [stage : {"free", "open", "reporting", "saving"},
                              key : Key \cup {None}, offline : BOOLEAN, readAt : Nat]]
  /\ \A h \in Handler : handler[h].stage # "free" =>
       handler[h].key \in Key /\ sent[handler[h].key] # None

\* TypeOK: the collections, the requests in flight and the histories hold what
\* their names say, and a request in flight is about an action that was sent.
TypeOK ==
  /\ now \in 0 .. MaxNow
  /\ events \in Seq(Event)
  /\ receipts \in [Key -> Receipt \cup {None}]
  /\ incidents \in Seq(Key)
  /\ sent \in [Key -> Action \cup {None}]
  /\ HandlersOK
  /\ client \in [Client -> Event \cup {None}]
  /\ answers \in [Key -> SUBSET {"accepted", "duplicate", "incident"}]

EventsOf(k) == {i \in DOMAIN events : events[i].origin = k}
IncidentsOf(k) == {i \in DOMAIN incidents : incidents[i] = k}

\* ExactlyOnce: however often, and however concurrently, a terminal action is
\* sent, it leaves one event or one incident, never both and never two, and a
\* receipt that names it (recordTerminalAction, createIncident).
RecordedOnce(k) ==
  IF receipts[k] = None THEN EventsOf(k) = {} /\ IncidentsOf(k) = {}
  ELSE IF receipts[k].status = "accepted"
       THEN EventsOf(k) = {receipts[k].ref} /\ IncidentsOf(k) = {}
       ELSE EventsOf(k) = {} /\ IncidentsOf(k) = {receipts[k].ref}
ExactlyOnce == \A k \in Key : RecordedOnce(k)

\* AnswersHold: an answer that makes the device drop the action (accepted,
\* duplicate, incident) is backed by the matching receipt for ever after, so
\* what a device forgets is in the ledger or under review (syncActions).
AnswersHold ==
  \A k \in Key :
    /\ answers[k] # {} => receipts[k] # None
    /\ "accepted" \in answers[k] => receipts[k].status = "accepted"
    /\ "incident" \in answers[k] => receipts[k].status = "incident"

\* ChainIsLinear: the hashes of an employee's events form one chain: one root
\* and no event followed by two (integrityTipHash; the compliance export
\* verifies one root and one tip, compliance_helpers.js workEventExportData).
Chained(e) ==
  \A i, j \in Own(e) :
    /\ events[i].prev \in {0} \cup {p \in Own(e) : p < i}
    /\ i # j => events[i].prev # events[j].prev
ChainIsLinear == \A e \in Employee : Chained(e)

\* No two events of one employee carry the same millisecond.
DistinctTimes ==
  \A e \in Employee : \A i, j \in Raw(e) : i # j => Final(i).at # Final(j).at

\* LegalSequence: the employee's effective events, in the order of their times,
\* are a legal succession of commands, whichever terminals they came from and
\* whenever they were delivered; a manager's correction may break it.
Before(i, j) == events[i].at < events[j].at \/ (events[i].at = events[j].at /\ i < j)
LegalSequence ==
  \A e \in Employee : Raw(e) = Own(e) =>
    \A i \in Own(e) :
      LET earlier == {j \in Own(e) : Before(j, i)}
      IN IF earlier = {} THEN events[i].kind = "clock_in"
         ELSE \E j \in earlier : /\ \A l \in earlier : l = j \/ Before(l, j)
                                 /\ events[i].kind \in Allowed(events[j].kind)

\* The ledger as a register that takes each action once.
Outcome == [k \in Key |-> CASE EventsOf(k) = {} /\ IncidentsOf(k) = {} -> "none"
                            [] EventsOf(k) # {} /\ IncidentsOf(k) = {} -> "event"
                            [] EventsOf(k) = {} /\ IncidentsOf(k) # {} -> "incident"
                            [] OTHER -> "both"]
Register == INSTANCE ActionRegister WITH outcome <- Outcome

\* ImplementsRegister: an action's outcome is decided once and never changes.
ImplementsRegister == Register!Spec
=============================================================================
