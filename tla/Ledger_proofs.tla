--------------------------- MODULE Ledger_proofs ---------------------------
(***************************************************************************)
(* Theorems about Ledger, for every set of actions, employees, handlers    *)
(* and browsers, and for every bound.                                      *)
(*                                                                         *)
(* The order of the argument: the tip of a chain is an index of the ledger *)
(* (TipIsAnIndex); TypeOK and Drafts are inductive together; a receipt is  *)
(* written once, in the step that writes what it stands for, so ExactlyOnce *)
(* and AnswersHold are inductive relative to them, and the ledger          *)
(* implements ActionRegister; and the terminals alone never fork a chain   *)
(* and, while times tell the events apart, record only legal successions.  *)
(***************************************************************************)
EXTENDS Ledger, Counting

-----------------------------------------------------------------------------
(* Indexes. *)

\* integrityTipHash returns an event nobody refers to, or nothing.
LEMMA TipIsAnIndex ==
  ASSUME events \in Seq(Event), NEW e
  PROVE  /\ Tip(e) \in Nat
         /\ Unreferenced(e) # {} => Tip(e) \in Unreferenced(e)
         /\ Unreferenced(e) = {} => Tip(e) = 0
<1>1. CASE Unreferenced(e) = {}
  BY <1>1 DEF Tip
<1>2. CASE Unreferenced(e) # {}
  <2>1. Unreferenced(e) \in SUBSET (1 .. Len(events)) /\ Len(events) \in Nat
    BY DEF Unreferenced, Own
  <2>2. \E i \in Unreferenced(e) : \A j \in Unreferenced(e) : j <= i
    BY <1>2, <2>1, GreatestIndex
  <2>3. Tip(e) \in Unreferenced(e)
    BY <1>2, <2>2 DEF Tip
  <2> QED
    BY <1>2, <2>1, <2>3
<1> QED
  BY <1>1, <1>2

-----------------------------------------------------------------------------
(* Type correctness. *)

\* What a browser is about to save comes from the web hook.
Drafts == \A w \in Client : client[w] # None => /\ client[w].origin = None
                                               /\ client[w].employee \in WebUser

IInv == TypeOK /\ Drafts

LEMMA InitIInv == Init => IInv
  BY LedgerAssumption DEF Init, IInv, TypeOK, Drafts, HandlersOK, Free

\* What Receive does to the request and to the answers.
LEMMA ReceiveIInv ==
  ASSUME IInv, NEW h \in Handler, NEW k \in Key, NEW offline \in BOOLEAN,
         Receive(h, k, offline)
  PROVE  IInv'
<1> USE LedgerAssumption
<1>1. now' \in 0 .. MaxNow /\ now' \in Nat
  BY DEF IInv, TypeOK, Receive
<1>2. PICK a \in (IF sent[k] = None THEN Capturable(now') ELSE {sent[k]}) :
        sent' = [sent EXCEPT ![k] = a]
  BY DEF Receive
<1>3. a \in Action
  BY <1>1, <1>2 DEF IInv, TypeOK, Capturable, Action, Employee
<1>4. sent' \in [Key -> Action \cup {None}]
  BY <1>2, <1>3 DEF IInv, TypeOK
<1>5. a # None
  BY <1>3
<1>6. \/ handler' = handler
      \/ handler' = [handler EXCEPT ![h] = Free]
      \/ \E stage \in {"open", "reporting"} :
           handler' = [handler EXCEPT ![h] = Handling(stage, k, offline, now')]
  BY DEF Receive, Definitive, Refused
<1>7. HandlersOK'
  <2>1. CASE handler' = handler
    BY <1>2, <1>5, <2>1 DEF IInv, TypeOK, HandlersOK
  <2>2. CASE handler' = [handler EXCEPT ![h] = Free]
    BY <1>2, <1>5, <2>2 DEF IInv, TypeOK, HandlersOK, Free
  <2>3. ASSUME NEW stage \in {"open", "reporting"},
               handler' = [handler EXCEPT ![h] = Handling(stage, k, offline, now')]
        PROVE  HandlersOK'
    BY <1>1, <1>2, <1>5, <2>3 DEF IInv, TypeOK, HandlersOK, Handling
  <2> QED
    BY <1>6, <2>1, <2>2, <2>3
<1>8. answers' \in [Key -> SUBSET {"accepted", "duplicate", "incident"}]
  BY SMTT(20) DEF IInv, TypeOK, Receive, Definitive, Refused
<1>9. UNCHANGED <<events, receipts, incidents, client>>
  BY DEF Receive
<1> QED
  BY <1>1, <1>4, <1>7, <1>8, <1>9 DEF IInv, TypeOK, Drafts

\* A request in flight ends, or goes on to its next stage.
LEMMA RequestGoesOn ==
  ASSUME HandlersOK, NEW h \in Handler, handler[h].stage # "free", UNCHANGED sent,
         \/ handler' = [handler EXCEPT ![h] = Free]
         \/ \E stage \in {"reporting", "saving"} :
              handler' = [handler EXCEPT ![h] = Handling(stage, @.key, @.offline, @.readAt)]
  PROVE  HandlersOK'
<1>1. CASE handler' = [handler EXCEPT ![h] = Free]
  BY <1>1 DEF HandlersOK, Free
<1>2. ASSUME NEW stage \in {"reporting", "saving"},
             handler' = [handler EXCEPT ![h] = Handling(stage, @.key, @.offline, @.readAt)]
      PROVE  HandlersOK'
  BY <1>2 DEF HandlersOK, Handling
<1> QED
  BY <1>1, <1>2

\* Every step leaves the records of the actions alone, or records one action,
\* so far without a receipt, as an event or as an incident.
Quiet == /\ UNCHANGED <<receipts, incidents>>
         /\ \/ UNCHANGED events
            \/ \E x \in Event : x.origin = None /\ events' = Append(events, x)
RecordsEvent(k) ==
  /\ receipts[k] = None
  /\ \E x \in Event : x.origin = k /\ events' = Append(events, x)
  /\ receipts' = [receipts EXCEPT ![k] = [status |-> "accepted", ref |-> Len(events) + 1]]
  /\ UNCHANGED incidents
RecordsIncident(k) ==
  /\ receipts[k] = None
  /\ incidents' = Append(incidents, k)
  /\ receipts' = [receipts EXCEPT ![k] = [status |-> "incident", ref |-> Len(incidents) + 1]]
  /\ UNCHANGED events
Records == Quiet \/ \E k \in Key : RecordsEvent(k) \/ RecordsIncident(k)

\* A committed action is an event with its receipt, or nothing.
LEMMA CommitRecords ==
  ASSUME IInv, NEW h \in Handler, Commit(h)
  PROVE  /\ handler[h].key \in Key
         /\ UNCHANGED <<events, receipts, incidents>> \/ RecordsEvent(handler[h].key)
<1> DEFINE k == handler[h].key
           a == sent[k]
           at == EffectiveAt(a, handler[h].offline, handler[h].readAt)
           new == [employee |-> a.employee, kind |-> a.command, at |-> at, corrects |-> 0,
                   prev |-> Tip(a.employee), origin |-> k]
<1>1. k \in Key /\ a \in Action /\ handler[h].readAt \in Nat
  BY DEF IInv, TypeOK, HandlersOK, Commit
<1>2. at \in Nat
  BY <1>1 DEF EffectiveAt, Action
<1>3. new \in Event /\ new.origin = k
  <2>1. Tip(a.employee) \in Nat
    BY TipIsAnIndex DEF IInv, TypeOK
  <2> QED
    BY <1>1, <1>2, <2>1 DEF Event, Action
<1>4. \/ UNCHANGED <<events, receipts, incidents>>
      \/ /\ receipts[k] = None
         /\ events' = Append(events, new)
         /\ receipts' = [receipts EXCEPT ![k] = [status |-> "accepted", ref |-> Len(events) + 1]]
         /\ UNCHANGED incidents
  BY DEF Commit
<1> HIDE DEF new, k
<1>5. UNCHANGED <<events, receipts, incidents>> \/ RecordsEvent(k)
  BY <1>3, <1>4 DEF RecordsEvent
<1> QED
  BY <1>1, <1>5 DEF k

LEMMA CommitIInv ==
  ASSUME IInv, NEW h \in Handler, Commit(h)
  PROVE  IInv'
<1> DEFINE k == handler[h].key
<1>1. k \in Key /\ handler[h].stage # "free"
  BY CommitRecords DEF Commit
<1>2. events' \in Seq(Event) /\ receipts' \in [Key -> Receipt \cup {None}]
  <2>1. [status |-> "accepted", ref |-> Len(events) + 1] \in Receipt
    BY DEF IInv, TypeOK, Receipt
  <2>2. CASE UNCHANGED <<events, receipts>>
    BY <2>2 DEF IInv, TypeOK
  <2>3. CASE RecordsEvent(k)
    <3>1. PICK x \in Event : events' = Append(events, x)
      BY <2>3 DEF RecordsEvent
    <3>2. Append(events, x) \in Seq(Event)
      BY DEF IInv, TypeOK
    <3>3. receipts' \in [Key -> Receipt \cup {None}]
      BY <2>1, <2>3 DEF IInv, TypeOK, RecordsEvent
    <3> QED
      BY <3>1, <3>2, <3>3
  <2> QED
    BY <2>2, <2>3, CommitRecords
<1>3. HandlersOK'
  BY <1>1, RequestGoesOn DEF IInv, TypeOK, Commit, Definitive, Refused, Move
<1>4. answers' \in [Key -> SUBSET {"accepted", "duplicate", "incident"}]
  <2>1. \/ UNCHANGED answers
        \/ \E status \in {"accepted", "duplicate"} :
             answers' = [answers EXCEPT ![k] = @ \cup {status}]
    BY DEF Commit, Definitive, Refused, Move
  <2> QED
    BY <2>1 DEF IInv, TypeOK
<1> QED
  BY <1>2, <1>3, <1>4 DEF IInv, TypeOK, Drafts, Commit

LEMMA ReportIInv ==
  ASSUME IInv, NEW h \in Handler, Report(h)
  PROVE  IInv'
<1>1. HandlersOK'
  BY RequestGoesOn DEF IInv, TypeOK, Report, Definitive, Move
<1>2. answers' \in [Key -> SUBSET {"accepted", "duplicate", "incident"}]
  BY DEF IInv, TypeOK, Report, Definitive, Move
<1> QED
  BY <1>1, <1>2 DEF IInv, TypeOK, Drafts, Report

LEMMA SaveIncidentIInv ==
  ASSUME IInv, NEW h \in Handler, SaveIncident(h)
  PROVE  IInv'
<1> DEFINE k == handler[h].key
<1>1. k \in Key /\ handler[h].stage # "free"
  BY DEF IInv, TypeOK, HandlersOK, SaveIncident
<1>2. incidents' \in Seq(Key) /\ receipts' \in [Key -> Receipt \cup {None}]
  <2>1. [status |-> "incident", ref |-> Len(incidents) + 1] \in Receipt
    BY DEF IInv, TypeOK, Receipt
  <2>2. Append(incidents, k) \in Seq(Key)
    BY <1>1 DEF IInv, TypeOK
  <2>3. \/ UNCHANGED <<incidents, receipts>>
        \/ /\ incidents' = Append(incidents, k)
           /\ receipts' = [receipts EXCEPT ![k] = [status |-> "incident", ref |-> Len(incidents) + 1]]
    BY DEF SaveIncident
  <2> QED
    BY <2>1, <2>2, <2>3 DEF IInv, TypeOK
<1>3. HandlersOK'
  BY <1>1, RequestGoesOn DEF IInv, TypeOK, SaveIncident, Definitive, Refused
<1>4. answers' \in [Key -> SUBSET {"accepted", "duplicate", "incident"}]
  BY SMTT(20) DEF IInv, TypeOK, SaveIncident, Definitive, Refused
<1> QED
  BY <1>2, <1>3, <1>4 DEF IInv, TypeOK, Drafts, SaveIncident

\* What the web hook lets through is an event, of no terminal.
LEMMA DraftIInv ==
  ASSUME IInv, NEW w \in Client, NEW e \in WebUser, NEW kind \in Command,
         NEW at \in Nat, NEW target \in Nat, now' \in 0 .. MaxNow,
         Draft(w, e, kind, at, target)
  PROVE  IInv'
<1> DEFINE new == [employee |-> e, kind |-> kind, at |-> at, corrects |-> target,
                   prev |-> Tip(e), origin |-> None]
<1>1. Tip(e) \in Nat
  BY TipIsAnIndex DEF IInv, TypeOK
<1>2. new \in Event
  BY <1>1 DEF Event, Employee
<1>3. client' \in [Client -> Event \cup {None}]
  BY <1>2 DEF IInv, TypeOK, Draft
<1>4. Drafts'
  BY DEF IInv, TypeOK, Drafts, Draft
<1> QED
  BY <1>3, <1>4 DEF IInv, TypeOK, HandlersOK, Draft

LEMMA WebClockIInv ==
  ASSUME IInv, NEW w \in Client, NEW e \in WebUser, NEW kind \in Command,
         WebClock(w, e, kind)
  PROVE  IInv'
<1>1. now' \in 0 .. MaxNow /\ now' \in Nat
  BY LedgerAssumption DEF IInv, TypeOK, WebClock
<1>2. PICK at \in IF kind \in Closing THEN 1 .. now' ELSE {now'} : Draft(w, e, kind, at, 0)
  BY DEF WebClock
<1>3. at \in Nat
  BY <1>1, <1>2
<1> QED
  BY <1>1, <1>2, <1>3, DraftIInv

LEMMA WebCorrectIInv ==
  ASSUME IInv, NEW w \in Client, NEW e \in WebUser, NEW kind \in Command,
         NEW i \in Own(e), WebCorrect(w, e, i, kind)
  PROVE  IInv'
<1>1. now' \in 0 .. MaxNow /\ now' \in Nat
  BY LedgerAssumption DEF IInv, TypeOK, WebCorrect
<1>2. PICK at \in 1 .. MaxNow : Draft(w, e, kind, at, i)
  BY DEF WebCorrect
<1>3. at \in Nat /\ i \in Nat
  BY <1>2, LedgerAssumption DEF IInv, TypeOK, Own
<1> QED
  BY <1>1, <1>2, <1>3, DraftIInv

LEMMA WebSaveIInv ==
  ASSUME IInv, NEW w \in Client, WebSave(w)
  PROVE  IInv'
<1>1. client[w] \in Event
  BY DEF IInv, TypeOK, WebSave
<1>2. events' \in Seq(Event) /\ client' \in [Client -> Event \cup {None}]
  BY <1>1 DEF IInv, TypeOK, WebSave
<1>3. Drafts'
  BY DEF IInv, TypeOK, Drafts, WebSave
<1> QED
  BY <1>2, <1>3 DEF IInv, TypeOK, HandlersOK, WebSave

LEMMA StepIInv ==
  ASSUME IInv, [Next]_vars
  PROVE  IInv'
<1>1. CASE UNCHANGED vars
  BY <1>1 DEF IInv, TypeOK, Drafts, HandlersOK, vars
<1>2. CASE Next
  BY <1>2, ReceiveIInv, CommitIInv, ReportIInv, SaveIncidentIInv, WebClockIInv,
     WebCorrectIInv, WebSaveIInv DEF Next, PerformAction, SyncAction
<1> QED
  BY <1>1, <1>2

\* TypeCorrect: in every reachable state the ledger, its receipts and the
\* requests in flight are of their kinds, and a request in flight is about an
\* action a device has sent (performAction, syncActions, main.pb.js).
THEOREM TypeCorrect == Spec => []TypeOK
<1>1. Spec => []IInv
  BY InitIInv, StepIInv, PTL DEF Spec
<1>2. IInv => TypeOK
  BY DEF IInv
<1> QED
  BY <1>1, <1>2, PTL

-----------------------------------------------------------------------------
(* Exactly once. *)

LEMMA StepRecords ==
  ASSUME IInv, [Next]_vars
  PROVE  Records
<1>1. ASSUME NEW h \in Handler, NEW k \in Key, NEW offline \in BOOLEAN, Receive(h, k, offline)
      PROVE  Records
  BY <1>1 DEF Receive, Records, Quiet
<1>2. ASSUME NEW h \in Handler, Report(h)
      PROVE  Records
  BY <1>2 DEF Report, Records, Quiet
<1>3. ASSUME NEW h \in Handler, SaveIncident(h)
      PROVE  Records
  <2>1. handler[h].key \in Key
    BY <1>3 DEF IInv, TypeOK, HandlersOK, SaveIncident
  <2>2. Quiet \/ RecordsIncident(handler[h].key)
    BY <1>3 DEF SaveIncident, Quiet, RecordsIncident
  <2> QED
    BY <2>1, <2>2 DEF Records
<1>4. ASSUME NEW w \in Client, NEW e \in WebUser, NEW c \in Command, WebClock(w, e, c)
      PROVE  Records
  BY <1>4 DEF WebClock, Draft, Records, Quiet
<1>5. ASSUME NEW w \in Client, NEW e \in WebUser, NEW c \in Command,
             NEW i \in Own(e), WebCorrect(w, e, i, c)
      PROVE  Records
  BY <1>5 DEF WebCorrect, Draft, Records, Quiet
<1>6. ASSUME NEW w \in Client, WebSave(w)
      PROVE  Records
  <2>1. client[w] \in Event /\ client[w].origin = None
    BY <1>6 DEF IInv, TypeOK, Drafts, WebSave
  <2> QED
    BY <1>6, <2>1 DEF WebSave, Records, Quiet
<1>7. CASE UNCHANGED vars
  BY <1>7 DEF vars, Records, Quiet
<1>8. ASSUME NEW h \in Handler, Commit(h)
      PROVE  Records
  BY <1>8, CommitRecords DEF Records, Quiet
<1> QED
  BY <1>1, <1>2, <1>3, <1>4, <1>5, <1>6, <1>7, <1>8 DEF Next, PerformAction, SyncAction

\* The effect of one more event, or of one more incident, on each action.
LEMMA AppendedEvent ==
  ASSUME events \in Seq(Event), NEW x \in Event, events' = Append(events, x), NEW k \in Key
  PROVE  EventsOf(k)' = IF x.origin = k THEN EventsOf(k) \cup {Len(events) + 1} ELSE EventsOf(k)
  BY DEF EventsOf

LEMMA AppendedIncident ==
  ASSUME incidents \in Seq(Key), NEW x \in Key, incidents' = Append(incidents, x), NEW k \in Key
  PROVE  IncidentsOf(k)' = IF x = k THEN IncidentsOf(k) \cup {Len(incidents) + 1}
                           ELSE IncidentsOf(k)
  BY DEF IncidentsOf

LEMMA ExactlyOnceStep ==
  ASSUME IInv, ExactlyOnce, Records
  PROVE  ExactlyOnce'
<1> SUFFICES ASSUME NEW k \in Key
             PROVE  RecordedOnce(k)'
  BY DEF ExactlyOnce
<1>1. CASE Quiet
  <2>1. IncidentsOf(k)' = IncidentsOf(k) /\ receipts'[k] = receipts[k]
    BY <1>1 DEF Quiet, IncidentsOf
  <2>2. EventsOf(k)' = EventsOf(k)
    <3>1. CASE UNCHANGED events
      BY <3>1 DEF EventsOf
    <3>2. ASSUME NEW x \in Event, x.origin = None, events' = Append(events, x)
          PROVE  EventsOf(k)' = EventsOf(k)
      BY <3>2, AppendedEvent, LedgerAssumption DEF IInv, TypeOK
    <3> QED
      BY <1>1, <3>1, <3>2 DEF Quiet
  <2> QED
    BY <2>1, <2>2 DEF ExactlyOnce, RecordedOnce
<1>2. ASSUME NEW l \in Key, RecordsEvent(l)
      PROVE  RecordedOnce(k)'
  <2>1. EventsOf(k)' = IF l = k THEN EventsOf(k) \cup {Len(events) + 1} ELSE EventsOf(k)
    BY <1>2, AppendedEvent DEF RecordsEvent, IInv, TypeOK
  <2>2. IncidentsOf(k)' = IncidentsOf(k)
    BY <1>2 DEF RecordsEvent, IncidentsOf
  <2>3. receipts'[k] = IF l = k THEN [status |-> "accepted", ref |-> Len(events) + 1]
                       ELSE receipts[k]
    BY <1>2 DEF RecordsEvent, IInv, TypeOK
  <2>4. [status |-> "accepted", ref |-> Len(events) + 1] # None
    BY LedgerAssumption DEF IInv, TypeOK, Receipt
  <2> QED
    BY <1>2, <2>1, <2>2, <2>3, <2>4 DEF ExactlyOnce, RecordedOnce, RecordsEvent
<1>3. ASSUME NEW l \in Key, RecordsIncident(l)
      PROVE  RecordedOnce(k)'
  <2>1. IncidentsOf(k)' = IF l = k THEN IncidentsOf(k) \cup {Len(incidents) + 1}
                          ELSE IncidentsOf(k)
    BY <1>3, AppendedIncident DEF RecordsIncident, IInv, TypeOK
  <2>2. EventsOf(k)' = EventsOf(k)
    BY <1>3 DEF RecordsIncident, EventsOf
  <2>3. receipts'[k] = IF l = k THEN [status |-> "incident", ref |-> Len(incidents) + 1]
                       ELSE receipts[k]
    BY <1>3 DEF RecordsIncident, IInv, TypeOK
  <2>4. [status |-> "incident", ref |-> Len(incidents) + 1] # None
    BY LedgerAssumption DEF IInv, TypeOK, Receipt
  <2> QED
    BY <1>3, <2>1, <2>2, <2>3, <2>4 DEF ExactlyOnce, RecordedOnce, RecordsIncident
<1> QED
  BY <1>1, <1>2, <1>3 DEF Records

LEMMA InitExactlyOnce == Init => ExactlyOnce
  BY DEF Init, ExactlyOnce, RecordedOnce, EventsOf, IncidentsOf

\* RecordedExactlyOnce: however often and however concurrently the terminals
\* send an action, it is recorded as one event or as one incident, which its
\* receipt names (recordTerminalAction, createIncident).
THEOREM RecordedExactlyOnce == Spec => []ExactlyOnce
<1>1. IInv /\ ExactlyOnce /\ [Next]_vars => (IInv /\ ExactlyOnce)'
  BY StepIInv, StepRecords, ExactlyOnceStep
<1> QED
  BY <1>1, InitIInv, InitExactlyOnce, PTL DEF Spec

-----------------------------------------------------------------------------
(* The answers. *)

\* Every step answers nothing, or answers one action in keeping with its receipt.
Answers(k, status) ==
  /\ answers' = [answers EXCEPT ![k] = @ \cup {status}]
  /\ receipts'[k] # None
  /\ status # "duplicate" => receipts'[k].status = status

LEMMA StepAnswers ==
  ASSUME IInv, [Next]_vars
  PROVE  \/ UNCHANGED answers
         \/ \E k \in Key, status \in {"accepted", "duplicate", "incident"} : Answers(k, status)
<1> DEFINE Goal == \/ UNCHANGED answers
                   \/ \E k \in Key, status \in {"accepted", "duplicate", "incident"} :
                        Answers(k, status)
<1>1. ASSUME NEW h \in Handler, NEW k \in Key, NEW offline \in BOOLEAN, Receive(h, k, offline)
      PROVE  Goal
  <2>1. UNCHANGED answers \/ Answers(k, "duplicate")
    BY <1>1 DEF Receive, Answers, Definitive
  <2> QED
    BY <2>1
<1>2. ASSUME NEW h \in Handler, Commit(h)
      PROVE  Goal
  <2> DEFINE k == handler[h].key
  <2>1. k \in Key
    BY <1>2, CommitRecords
  <2>2. \/ UNCHANGED answers
        \/ /\ receipts[k] # None /\ UNCHANGED receipts
           /\ answers' = [answers EXCEPT ![k] = @ \cup {"duplicate"}]
        \/ /\ receipts' = [receipts EXCEPT ![k] = [status |-> "accepted", ref |-> Len(events) + 1]]
           /\ answers' = [answers EXCEPT ![k] = @ \cup {"accepted"}]
    BY <1>2 DEF Commit, Definitive, Refused, Move
  <2>3. [status |-> "accepted", ref |-> Len(events) + 1] # None
    BY LedgerAssumption DEF IInv, TypeOK, Receipt
  <2>4. UNCHANGED answers \/ Answers(k, "duplicate") \/ Answers(k, "accepted")
    BY <2>1, <2>2, <2>3 DEF Answers, IInv, TypeOK
  <2> QED
    BY <2>1, <2>4
<1>3. ASSUME NEW h \in Handler, Report(h)
      PROVE  Goal
  <2>1. handler[h].key \in Key
    BY <1>3 DEF IInv, TypeOK, HandlersOK, Report
  <2>2. UNCHANGED answers \/ Answers(handler[h].key, "duplicate")
    BY <1>3 DEF Report, Answers, Definitive, Move
  <2> QED
    BY <2>1, <2>2
<1>4. ASSUME NEW h \in Handler, SaveIncident(h)
      PROVE  Goal
  <2> DEFINE k == handler[h].key
  <2>1. k \in Key
    BY <1>4 DEF IInv, TypeOK, HandlersOK, SaveIncident
  <2>2. \/ UNCHANGED answers
        \/ /\ receipts' = [receipts EXCEPT ![k] = [status |-> "incident", ref |-> Len(incidents) + 1]]
           /\ answers' = [answers EXCEPT ![k] = @ \cup {"incident"}]
    BY <1>4 DEF SaveIncident, Definitive, Refused
  <2>3. [status |-> "incident", ref |-> Len(incidents) + 1] # None
    BY LedgerAssumption DEF IInv, TypeOK, Receipt
  <2>4. UNCHANGED answers \/ Answers(k, "incident")
    BY <2>1, <2>2, <2>3 DEF Answers, IInv, TypeOK
  <2> QED
    BY <2>1, <2>4
<1>5. ASSUME NEW w \in Client, NEW e \in WebUser, NEW c \in Command,
             \/ WebClock(w, e, c)
             \/ \E i \in Own(e) : WebCorrect(w, e, i, c)
      PROVE  UNCHANGED answers
  BY <1>5 DEF WebClock, WebCorrect, Draft
<1>6. ASSUME NEW w \in Client, WebSave(w)
      PROVE  UNCHANGED answers
  BY <1>6 DEF WebSave
<1>7. CASE UNCHANGED vars
  BY <1>7 DEF vars
<1> QED
  BY <1>1, <1>2, <1>3, <1>4, <1>5, <1>6, <1>7 DEF Next, PerformAction, SyncAction

\* A receipt, once written, stays as it is.
LEMMA ReceiptsStay ==
  ASSUME IInv, Records, NEW k \in Key, receipts[k] # None
  PROVE  receipts'[k] = receipts[k]
<1>1. CASE Quiet
  BY <1>1 DEF Quiet
<1>2. ASSUME NEW l \in Key, RecordsEvent(l) \/ RecordsIncident(l)
      PROVE  receipts'[k] = receipts[k]
  BY <1>2 DEF RecordsEvent, RecordsIncident, IInv, TypeOK
<1> QED
  BY <1>1, <1>2 DEF Records

LEMMA AnswersHoldStep ==
  ASSUME IInv, AnswersHold, [Next]_vars
  PROVE  AnswersHold'
<1>1. CASE UNCHANGED answers
  BY <1>1, StepRecords, ReceiptsStay DEF AnswersHold
<1>2. ASSUME NEW k \in Key, NEW status \in {"accepted", "duplicate", "incident"},
             Answers(k, status)
      PROVE  AnswersHold'
  <2>1. SUFFICES ASSUME NEW l \in Key
                 PROVE  /\ answers'[l] # {} => receipts'[l] # None
                        /\ "accepted" \in answers'[l] => receipts'[l].status = "accepted"
                        /\ "incident" \in answers'[l] => receipts'[l].status = "incident"
    BY DEF AnswersHold
  <2>2. receipts[l] # None => receipts'[l] = receipts[l]
    BY StepRecords, ReceiptsStay
  <2>3. answers'[l] = IF l = k THEN answers[l] \cup {status} ELSE answers[l]
    BY <1>2 DEF Answers, IInv, TypeOK
  <2>4. CASE l = k
    BY <1>2, <2>2, <2>3, <2>4 DEF Answers, AnswersHold
  <2>5. CASE l # k
    BY <2>2, <2>3, <2>5 DEF AnswersHold
  <2> QED
    BY <2>4, <2>5
<1> QED
  BY <1>1, <1>2, StepAnswers

\* AnswersAreBacked: an answer after which a device forgets an action is
\* backed by the action's receipt, for ever after (syncActions).
THEOREM AnswersAreBacked == Spec => []AnswersHold
<1>1. Init => AnswersHold
  BY DEF Init, AnswersHold
<1>2. IInv /\ AnswersHold /\ [Next]_vars => (IInv /\ AnswersHold)'
  BY StepIInv, AnswersHoldStep
<1> QED
  BY <1>1, <1>2, InitIInv, PTL DEF Spec

-----------------------------------------------------------------------------
(* The ledger implements ActionRegister. *)

\* What became of an action, read off its receipt.
Recorded(k) == IF receipts[k] = None THEN "none"
               ELSE IF receipts[k].status = "accepted" THEN "event" ELSE "incident"

LEMMA OutcomeIsRecorded == ExactlyOnce => Outcome = [k \in Key |-> Recorded(k)]
<1> SUFFICES ASSUME ExactlyOnce, NEW k \in Key
             PROVE  Outcome[k] = Recorded(k)
  BY DEF Outcome
<1>1. RecordedOnce(k)
  BY DEF ExactlyOnce
<1>2. CASE EventsOf(k) = {} /\ IncidentsOf(k) = {}
  BY <1>1, <1>2 DEF Outcome, Recorded, RecordedOnce
<1>3. CASE EventsOf(k) # {} /\ IncidentsOf(k) = {}
  BY <1>1, <1>3 DEF Outcome, Recorded, RecordedOnce
<1>4. CASE EventsOf(k) = {} /\ IncidentsOf(k) # {}
  BY <1>1, <1>4 DEF Outcome, Recorded, RecordedOnce
<1>5. ~ (EventsOf(k) # {} /\ IncidentsOf(k) # {})
  BY <1>1 DEF RecordedOnce
<1> QED
  BY <1>2, <1>3, <1>4, <1>5

LEMMA NextOutcomeIsRecorded == (ExactlyOnce => Outcome = [k \in Key |-> Recorded(k)])'
  BY OutcomeIsRecorded, PTL

LEMMA RegisterStep ==
  ASSUME IInv, ExactlyOnce, ExactlyOnce', Records
  PROVE  [Register!Next]_Outcome
<1>1. /\ Outcome = [k \in Key |-> Recorded(k)]
      /\ Outcome' = [k \in Key |-> Recorded(k)']
  BY OutcomeIsRecorded, NextOutcomeIsRecorded
<1>2. CASE Quiet
  BY <1>1, <1>2 DEF Quiet, Recorded
<1>3. ASSUME NEW k \in Key, NEW r \in Receipt, receipts[k] = None,
             receipts' = [receipts EXCEPT ![k] = r]
      PROVE  Register!Next
  <2>1. \A l \in Key : Recorded(l)' = IF l = k THEN Recorded(k)' ELSE Recorded(l)
    BY <1>3 DEF Recorded, IInv, TypeOK
  <2>2. Recorded(k)' \in {"event", "incident"}
    BY <1>3, LedgerAssumption DEF Recorded, IInv, TypeOK, Receipt
  <2>3. Outcome' = [Outcome EXCEPT ![k] = Recorded(k)'] /\ Outcome[k] = "none"
    BY <1>1, <1>3, <2>1 DEF Recorded
  <2> QED
    BY <2>2, <2>3 DEF Register!Next, Register!Decide
<1>4. ASSUME NEW k \in Key, RecordsEvent(k) \/ RecordsIncident(k)
      PROVE  Register!Next
  <2>1. /\ [status |-> "accepted", ref |-> Len(events) + 1] \in Receipt
        /\ [status |-> "incident", ref |-> Len(incidents) + 1] \in Receipt
    BY DEF IInv, TypeOK, Receipt
  <2> QED
    BY <1>3, <1>4, <2>1 DEF RecordsEvent, RecordsIncident
<1> QED
  BY <1>2, <1>4 DEF Records

\* LedgerIsARegister: the outcome of each action is decided at most once, as an
\* event or as an incident, and never changes.
THEOREM LedgerIsARegister == Spec => ImplementsRegister
<1>1. Init => Register!Init
  <2>1. Init => \A k \in Key : Recorded(k) = "none"
    BY DEF Init, Recorded
  <2> QED
    BY <2>1, InitExactlyOnce, OutcomeIsRecorded DEF Register!Init
<1>2. IInv /\ ExactlyOnce /\ [Next]_vars => (IInv /\ ExactlyOnce)' /\ [Register!Next]_Outcome
  BY StepIInv, StepRecords, ExactlyOnceStep, RegisterStep
<1> QED
  BY <1>1, <1>2, InitIInv, InitExactlyOnce, PTL DEF Spec, ImplementsRegister, Register!Spec

-----------------------------------------------------------------------------
(* The chain of an employee who only clocks at terminals. *)

\* Records of such an employee are linked to the tip of their chain.
LEMMA StepLinks ==
  ASSUME IInv, [Next]_vars, NEW e, e \notin WebUser
  PROVE  \/ UNCHANGED events
         \/ \E x \in Event : /\ events' = Append(events, x)
                             /\ x.employee = e => x.prev = Tip(e)
<1> DEFINE Linked ==
      \E x \in Event : /\ events' = Append(events, x)
                       /\ x.employee = e => x.prev = Tip(e)
<1>1. ASSUME NEW h \in Handler, Commit(h)
      PROVE  UNCHANGED events \/ Linked
  <2>1. CASE UNCHANGED events
    BY <2>1
  <2>2. CASE RecordsEvent(handler[h].key)
    <3>1. PICK x \in Event : events' = Append(events, x)
      BY <2>2 DEF RecordsEvent
    <3>2. x = events'[Len(events) + 1]
      BY <3>1 DEF IInv, TypeOK
    <3>3. x.prev = Tip(x.employee)
      <4> DEFINE k == handler[h].key
                 a == sent[k]
                 at == EffectiveAt(a, handler[h].offline, handler[h].readAt)
                 new == [employee |-> a.employee, kind |-> a.command, at |-> at,
                         corrects |-> 0, prev |-> Tip(a.employee), origin |-> k]
      <4>1. UNCHANGED events \/ events' = Append(events, new)
        BY <1>1 DEF Commit
      <4>2. new.prev = Tip(new.employee)
        OBVIOUS
      <4> HIDE DEF new
      <4>3. events' # events
        BY <3>1 DEF IInv, TypeOK
      <4>4. x = new
        BY <3>1, <4>1, <4>3 DEF IInv, TypeOK
      <4> QED
        BY <4>2, <4>4
    <3> QED
      BY <3>1, <3>3
  <2> QED
    BY <1>1, <2>1, <2>2, CommitRecords
<1>2. ASSUME NEW w \in Client, WebSave(w)
      PROVE  Linked
  <2>1. client[w] \in Event /\ client[w].employee \in WebUser
    BY <1>2 DEF IInv, TypeOK, Drafts, WebSave
  <2> QED
    BY <1>2, <2>1 DEF WebSave
<1>3. ASSUME UNCHANGED vars
      PROVE  UNCHANGED events
  BY <1>3 DEF vars
<1>4. ASSUME NEW h \in Handler, NEW k \in Key, NEW offline \in BOOLEAN,
             Receive(h, k, offline)
      PROVE  UNCHANGED events
  BY <1>4 DEF Receive
<1>5. ASSUME NEW h \in Handler, Report(h) \/ SaveIncident(h)
      PROVE  UNCHANGED events
  BY <1>5 DEF Report, SaveIncident
<1>6. ASSUME NEW w \in Client, NEW u \in WebUser, NEW c \in Command,
             WebClock(w, u, c) \/ \E i \in Own(u) : WebCorrect(w, u, i, c)
      PROVE  UNCHANGED events
  BY <1>6 DEF WebClock, WebCorrect, Draft
<1> HIDE DEF Linked
<1>7. UNCHANGED events \/ Linked
  BY <1>1, <1>2, <1>3, <1>4, <1>5, <1>6 DEF Next, PerformAction, SyncAction
<1> QED
  BY <1>7 DEF Linked

\* One more event keeps the chain linear if it is linked to the tip.
LEMMA LinkedToTip ==
  ASSUME IInv, NEW e, Chained(e), NEW x \in Event, events' = Append(events, x),
         x.employee = e => x.prev = Tip(e)
  PROVE  Chained(e)'
<1> DEFINE n == Len(events) + 1
<1>1. /\ events \in Seq(Event) /\ n \in Nat
      /\ DOMAIN events' = DOMAIN events \cup {n} /\ n \notin DOMAIN events
      /\ events'[n] = x /\ \A i \in DOMAIN events : events'[i] = events[i] /\ i < n
  BY DEF IInv, TypeOK
<1>2. Own(e) \subseteq DOMAIN events
  BY DEF Own
<1>3. CASE x.employee # e
  <2>1. Own(e)' = Own(e)
    BY <1>1, <1>3 DEF Own
  <2> QED
    BY <1>1, <1>2, <2>1 DEF Chained
<1>4. CASE x.employee = e
  <2>1. Own(e)' = Own(e) \cup {n}
    BY <1>1, <1>4 DEF Own
  <2>2. Tip(e) \in {0} \cup Own(e)
    BY <1>1, TipIsAnIndex DEF Unreferenced
  <2>3. \A j \in Own(e) : events[j].prev # Tip(e)
    <3>1. CASE Unreferenced(e) # {}
      BY <1>1, <3>1, TipIsAnIndex DEF Unreferenced
    <3>2. CASE Unreferenced(e) = {}
      <4>1. Own(e) = {}
        <5>1. SUFFICES ASSUME Own(e) # {}
                       PROVE  FALSE
          OBVIOUS
        <5>2. Own(e) \in SUBSET (1 .. Len(events)) /\ Len(events) \in Nat
          BY <1>1, <1>2
        <5>3. PICK i \in Own(e) : \A j \in Own(e) : j <= i
          BY <5>1, <5>2, GreatestIndex
        <5>4. PICK j \in Own(e) : events[j].prev = i
          BY <3>2 DEF Unreferenced
        <5>5. i < j
          BY <5>2, <5>4 DEF Chained
        <5> QED
          BY <5>2, <5>3, <5>5
      <4> QED
        BY <4>1
    <3> QED
      BY <3>1, <3>2
  <2> QED
    BY <1>1, <1>2, <1>4, <2>1, <2>2, <2>3 DEF Chained
<1> QED
  BY <1>3, <1>4

\* TerminalsNeverFork: the events of whoever never clocks from the web form one
\* chain, however the terminals' requests interleave (integrityTipHash inside
\* the transaction of recordTerminalAction).
THEOREM TerminalsNeverFork ==
  ASSUME WebUser = {}
  PROVE  Spec => []ChainIsLinear
<1>1. Init => ChainIsLinear
  BY DEF Init, ChainIsLinear, Chained, Own
<1>2. IInv /\ ChainIsLinear /\ [Next]_vars => (IInv /\ ChainIsLinear)'
  <2> SUFFICES ASSUME IInv, ChainIsLinear, [Next]_vars, NEW e \in Employee
               PROVE  Chained(e)'
    BY StepIInv DEF ChainIsLinear
  <2>1. Chained(e)
    BY DEF ChainIsLinear
  <2>2. CASE UNCHANGED events
    BY <2>1, <2>2 DEF Chained, Own
  <2>3. ASSUME NEW x \in Event, events' = Append(events, x), x.employee = e => x.prev = Tip(e)
        PROVE  Chained(e)'
    BY <2>1, <2>3, LinkedToTip
  <2> QED
    BY <2>2, <2>3, StepLinks
<1> QED
  BY <1>1, <1>2, InitIInv, PTL DEF Spec

-----------------------------------------------------------------------------
(* The succession of commands of employees who only clock at terminals. *)

\* While nobody clocks from the web nothing is corrected: the times and kinds
\* of the events are the recorded ones.
NoCorrections == \A i \in DOMAIN events : events[i].corrects = 0

LEMMA RecordedAsIs ==
  ASSUME NoCorrections, events \in Seq(Event), NEW e
  PROVE  Raw(e) = Own(e) /\ \A i \in Own(e) : Final(i) = events[i]
<1>1. ASSUME NEW i \in Own(e)
      PROVE  CorrectionsOf(i) = {}
  <2>1. i \in Nat /\ i # 0
    BY DEF Own
  <2> QED
    BY <2>1 DEF NoCorrections, CorrectionsOf
<1> QED
  BY <1>1 DEF Raw, Own, Final, NoCorrections

\* An event that recordTerminalAction appends follows one of the employee's
\* latest events, and is not older than any of them.
Follows(x) ==
  /\ x.corrects = 0
  /\ NotBefore(x.at, x.employee)
  /\ \E last \in PossibleLast(x.employee) : x.kind \in Allowed(last)

LEMMA CommitFollows ==
  ASSUME IInv, NEW h \in Handler, Commit(h)
  PROVE  UNCHANGED events \/ \E x \in Event : events' = Append(events, x) /\ Follows(x)
<1> DEFINE k == handler[h].key
           a == sent[k]
           at == EffectiveAt(a, handler[h].offline, handler[h].readAt)
           new == [employee |-> a.employee, kind |-> a.command, at |-> at, corrects |-> 0,
                   prev |-> Tip(a.employee), origin |-> k]
<1>1. \/ UNCHANGED events
      \/ /\ \E last \in PossibleLast(a.employee) : Admissible(k, a, at, last)
         /\ events' = Append(events, new)
  BY DEF Commit
<1>2. CASE UNCHANGED events
  BY <1>2
<1>3. CASE /\ \E last \in PossibleLast(a.employee) : Admissible(k, a, at, last)
           /\ events' = Append(events, new)
  <2>1. Follows(new)
    BY <1>3 DEF Admissible, Follows
  <2>2. new \in Event
    <3>1. k \in Key /\ a \in Action /\ handler[h].readAt \in Nat
      BY DEF IInv, TypeOK, HandlersOK, Commit
    <3>2. at \in Nat
      BY <3>1 DEF EffectiveAt, Action
    <3>3. Tip(a.employee) \in Nat
      BY TipIsAnIndex DEF IInv, TypeOK
    <3> QED
      BY <3>1, <3>2, <3>3 DEF Event, Action
  <2> HIDE DEF new
  <2> QED
    BY <1>3, <2>1, <2>2
<1> QED
  BY <1>1, <1>2, <1>3

LEMMA StepFollows ==
  ASSUME IInv, WebUser = {}, [Next]_vars
  PROVE  UNCHANGED events \/ \E x \in Event : events' = Append(events, x) /\ Follows(x)
<1>1. ASSUME NEW w \in Client, WebSave(w)
      PROVE  FALSE
  BY <1>1 DEF IInv, Drafts, WebSave
<1>2. ASSUME UNCHANGED vars
      PROVE  UNCHANGED events
  BY <1>2 DEF vars
<1>3. ASSUME NEW h \in Handler, NEW k \in Key, NEW offline \in BOOLEAN,
             Receive(h, k, offline) \/ Report(h) \/ SaveIncident(h)
      PROVE  UNCHANGED events
  BY <1>3 DEF Receive, Report, SaveIncident
<1>4. ASSUME NEW h \in Handler, Report(h) \/ SaveIncident(h)
      PROVE  UNCHANGED events
  BY <1>4 DEF Report, SaveIncident
<1> QED
  BY <1>1, <1>2, <1>3, <1>4, CommitFollows DEF Next, PerformAction, SyncAction

\* Events of one employee are told apart by their times.
Distinct(e) == \A i, j \in Own(e) : i # j => events[i].at # events[j].at

\* The event i is legal after the earlier ones.
Legal(e, i) ==
  LET earlier == {j \in Own(e) : Before(j, i)}
  IN IF earlier = {} THEN events[i].kind = "clock_in"
     ELSE \E j \in earlier : /\ \A l \in earlier : l = j \/ Before(l, j)
                             /\ events[i].kind \in Allowed(events[j].kind)

\* One more event that follows the latest keeps the succession legal.
LEMMA FollowsLegally ==
  ASSUME IInv, NoCorrections, NEW e, \A i \in Own(e) : Legal(e, i), Distinct(e),
         NEW x \in Event, events' = Append(events, x), Follows(x)
  PROVE  \A i \in Own(e)' : Legal(e, i)'
<1>0. events \in Seq(Event) /\ Len(events) + 1 \in Nat
  BY DEF IInv, TypeOK
<1> PICK n \in Nat : n = Len(events) + 1
  BY <1>0
<1>1. /\ events \in Seq(Event)
      /\ DOMAIN events' = DOMAIN events \cup {n} /\ n \notin DOMAIN events
      /\ events'[n] = x /\ \A i \in DOMAIN events : events'[i] = events[i] /\ i < n /\ i \in Nat
      /\ \A i \in DOMAIN events : events[i].at \in Nat
      /\ x.at \in Nat
  <2>1. /\ DOMAIN events' = DOMAIN events \cup {n} /\ n \notin DOMAIN events
        /\ events'[n] = x
        /\ \A i \in DOMAIN events : events'[i] = events[i] /\ i < n /\ i \in Nat
    BY <1>0
  <2>2. \A i \in DOMAIN events : events[i] \in Event
    BY <1>0
  <2>3. x.at \in Nat /\ \A i \in DOMAIN events : events[i].at \in Nat
    BY <2>2 DEF Event
  <2> QED
    BY <1>0, <2>1, <2>3
<1>2. Own(e) \subseteq DOMAIN events
  BY DEF Own
<1>3. \A i, j \in Own(e) : Before(j, i)' <=> Before(j, i)
  BY <1>1, <1>2 DEF Before
<1>4. CASE x.employee # e
  <2>1. Own(e)' = Own(e)
    BY <1>1, <1>4 DEF Own
  <2>2. ASSUME NEW i \in Own(e)
        PROVE  Legal(e, i)'
    <3>1. Legal(e, i)
      OBVIOUS
    <3>2. {j \in Own(e)' : Before(j, i)'} = {j \in Own(e) : Before(j, i)}
      BY <1>3, <2>1
    <3> QED
      BY <1>1, <1>2, <1>3, <3>1, <3>2 DEF Legal
  <2> QED
    BY <2>1, <2>2
<1>5. CASE x.employee = e
  <2>1. Own(e)' = Own(e) \cup {n}
    BY <1>1, <1>5 DEF Own
  <2>2. Raw(e) = Own(e) /\ \A i \in Own(e) : Final(i) = events[i]
    BY <1>1, RecordedAsIs
  <2>3. \A i \in Own(e) : events[i].at <= x.at
    BY <1>5, <2>2 DEF Follows, NotBefore
  <2>4. \A i \in Own(e) : Before(i, n)' /\ ~Before(n, i)'
    BY <1>1, <1>2, <2>3 DEF Before
  <2>5. ~Before(n, n)'
    BY <1>1 DEF Before
  <2>6. ASSUME NEW i \in Own(e)
        PROVE  Legal(e, i)'
    <3>1. Legal(e, i)
      OBVIOUS
    <3>2. {j \in Own(e)' : Before(j, i)'} = {j \in Own(e) : Before(j, i)}
      BY <1>3, <2>1, <2>4
    <3> QED
      BY <1>1, <1>2, <1>3, <3>1, <3>2 DEF Legal
  <2>7. Legal(e, n)'
    <3>1. {j \in Own(e)' : Before(j, n)'} = Own(e)
      BY <2>1, <2>4, <2>5
    <3>2. CASE Own(e) = {}
      <4>1. x.kind \in Allowed("clock_out")
        BY <1>5, <2>2, <3>2 DEF Follows, PossibleLast
      <4> QED
        BY <1>1, <3>1, <3>2, <4>1 DEF Legal, Allowed
    <3>3. CASE Own(e) # {}
      <4>1. PICK j \in Latest(e) : x.kind \in Allowed(Final(j).kind)
        BY <1>5, <2>2, <3>3 DEF Follows, PossibleLast
      <4>2. j \in Own(e) /\ x.kind \in Allowed(events[j].kind)
            /\ \A l \in Own(e) : events[l].at <= events[j].at
        BY <2>2, <4>1 DEF Latest
      <4>3. \A l \in Own(e) : l = j \/ Before(l, j)
        BY <1>1, <1>2, <4>2 DEF Distinct, Before
      <4>4. x.kind \in Allowed(events'[j].kind) /\ \A l \in Own(e) : l = j \/ Before(l, j)'
        BY <1>1, <1>2, <1>3, <4>2, <4>3
      <4> QED
        BY <1>1, <3>1, <3>3, <4>2, <4>4 DEF Legal
    <3> QED
      BY <3>2, <3>3
  <2> QED
    BY <2>1, <2>6, <2>7
<1> QED
  BY <1>4, <1>5

LEMMA NoCorrectionsStep ==
  ASSUME IInv, WebUser = {}, NoCorrections, [Next]_vars
  PROVE  NoCorrections'
<1>1. CASE UNCHANGED events
  BY <1>1 DEF NoCorrections
<1>2. ASSUME NEW x \in Event, events' = Append(events, x), Follows(x)
      PROVE  NoCorrections'
  <2>1. events \in Seq(Event)
    BY DEF IInv, TypeOK
  <2> QED
    BY <1>2, <2>1 DEF NoCorrections, Follows
<1> QED
  BY <1>1, <1>2, StepFollows

\* Without corrections, the two properties are about the recorded events.
LEMMA LegalWhileUncorrected ==
  ASSUME NoCorrections, events \in Seq(Event)
  PROVE  /\ DistinctTimes <=> \A e \in Employee : Distinct(e)
         /\ LegalSequence <=> \A e \in Employee : \A i \in Own(e) : Legal(e, i)
<1>1. DistinctTimes <=> \A e \in Employee : Distinct(e)
  BY RecordedAsIs DEF DistinctTimes, Distinct
<1>2. LegalSequence <=> \A e \in Employee : \A i \in Own(e) : Legal(e, i)
  BY RecordedAsIs DEF LegalSequence, Legal
<1> QED
  BY <1>1, <1>2

LEMMA LegalStep ==
  ASSUME IInv, IInv', NoCorrections, NoCorrections', DistinctTimes => LegalSequence,
         WebUser = {}, [Next]_vars
  PROVE  (DistinctTimes => LegalSequence)'
<1>1. /\ DistinctTimes <=> \A e \in Employee : Distinct(e)
      /\ LegalSequence <=> \A e \in Employee : \A i \in Own(e) : Legal(e, i)
  BY LegalWhileUncorrected DEF IInv, TypeOK
<1>2. (NoCorrections /\ events \in Seq(Event) =>
         /\ DistinctTimes <=> \A e \in Employee : Distinct(e)
         /\ LegalSequence <=> \A e \in Employee : \A i \in Own(e) : Legal(e, i))'
  BY LegalWhileUncorrected, PTL
<1>3. /\ DistinctTimes' <=> \A e \in Employee : Distinct(e)'
      /\ LegalSequence' <=> \A e \in Employee : \A i \in Own(e)' : Legal(e, i)'
  BY <1>2 DEF IInv, TypeOK
<1>4. CASE UNCHANGED events
  BY <1>1, <1>3, <1>4 DEF Distinct, Legal, Own, Before
<1>5. ASSUME NEW x \in Event, events' = Append(events, x), Follows(x),
             NEW e \in Employee, DistinctTimes'
      PROVE  \A i \in Own(e)' : Legal(e, i)'
  <2>1. \A f \in Employee : Distinct(f)
    <3>1. events \in Seq(Event)
      BY DEF IInv, TypeOK
    <3>2. \A i \in DOMAIN events : i \in DOMAIN events' /\ events'[i] = events[i]
      BY <1>5, <3>1
    <3> QED
      BY <1>3, <1>5, <3>2 DEF Distinct, Own
  <2>2. \A i \in Own(e) : Legal(e, i)
    BY <1>1, <2>1
  <2> QED
    BY <1>5, <2>1, <2>2, FollowsLegally
<1> QED
  BY <1>3, <1>4, <1>5, StepFollows

\* TerminalsRecordLegally: as long as no two of an employee's events carry the
\* same time, the effective events of whoever never clocks from the web are a
\* legal succession of commands, however many terminals they came from, online
\* or in late batches (effectiveEvents and allowedCommands inside the
\* transaction of recordTerminalAction).
THEOREM TerminalsRecordLegally ==
  ASSUME WebUser = {}
  PROVE  Spec => [](DistinctTimes => LegalSequence)
<1> DEFINE J == IInv /\ NoCorrections /\ (DistinctTimes => LegalSequence)
<1>1. Init => J
  <2>1. Init => NoCorrections /\ LegalSequence
    BY DEF Init, NoCorrections, LegalSequence, Own
  <2> QED
    BY <2>1, InitIInv
<1>2. J /\ [Next]_vars => J'
  BY StepIInv, NoCorrectionsStep, LegalStep
<1>3. J => (DistinctTimes => LegalSequence)
  OBVIOUS
<1> QED
  BY <1>1, <1>2, <1>3, PTL DEF Spec
=============================================================================
