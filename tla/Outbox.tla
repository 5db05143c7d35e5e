------------------------------- MODULE Outbox -------------------------------
(***************************************************************************)
(* The M5Stack terminal's durable outbox (firmware/terminal/src/storage/   *)
(* outbox_codec.cpp): two journals, one of actions and one of completions, *)
(* each kept in up to three files of a LittleFS partition.                 *)
(*                                                                         *)
(* Every call of the class is a short program of storage primitives.  The  *)
(* step of this specification is one primitive, so a power loss may fall   *)
(* between any two of them, and inside an append (a torn last frame).  A   *)
(* primitive may also report failure; the program then runs the repair the *)
(* code attempts, or gives up.  The next boot recovers each journal from   *)
(* the files it finds.                                                     *)
(*                                                                         *)
(* A frame is abstracted to the action it carries, and a file to its whole *)
(* frames and whether a torn one follows them.  Damage to a file that was  *)
(* flushed (a wrong magic, version or checksum) is not modelled.           *)
(***************************************************************************)
EXTENDS Naturals, Sequences, FiniteSets, Functions

CONSTANTS Action,           \* actions with distinct clientRequestIds
          None,             \* no action
          Capacity,         \* OutboxCodec::kCapacity
          Faultable,        \* the primitives that may report failure
          MaxFaults,        \* bound: reported failures in a behaviour
          MaxPowerLosses    \* bound: power losses in a behaviour

Primitive == {"remove", "create", "copy", "append", "verify", "rename", "discard"}

ASSUME OutboxAssumption ==
  /\ None \notin Action
  /\ Capacity \in Nat \ {0}
  /\ Faultable \subseteq Primitive
  /\ MaxFaults \in Nat
  /\ MaxPowerLosses \in Nat

Kind == {"action", "completion"}
Slot == {"current", "fresh", "old"}

Journal == [exists : BOOLEAN, frames : Seq(Action), torn : BOOLEAN]
Absent == [exists |-> FALSE, frames |-> <<>>, torn |-> FALSE]
Empty == [Absent EXCEPT !.exists = TRUE]

VARIABLES disk,         \* the six files: disk[kind][slot]
          mode,         \* "off", "booting", "ready" or "failed" (begin() failed)
          run,          \* the program in progress, its next primitive, its argument
          reply,        \* what the last call returned
          accepted,     \* history: the actions append() has confirmed, in order
          resolved,     \* history: the actions complete() has confirmed
          faults,       \* failures reported so far
          losses        \* power losses so far

vars == <<disk, mode, run, reply, accepted, resolved, faults, losses>>

(***************************************************************************)
(* Reading the journals.                                                   *)
(***************************************************************************)
IsPrefixOf(s, t) == Len(s) <= Len(t) /\ SubSeq(t, 1, Len(s)) = s

Valid(j) == j.exists /\ ~j.torn /\ Len(j.frames) <= Capacity
Torn(j) == j.exists /\ j.torn
Readable(j) == ~j.exists \/ Valid(j)

\* scanQueue succeeds: the completions are the first actions, in their order.
ScanOk(d) == /\ Readable(d["action"]["current"])
             /\ Readable(d["completion"]["current"])
             /\ IsPrefixOf(d["completion"]["current"].frames,
                           d["action"]["current"].frames)

Stored == disk["action"]["current"].frames
Completed == disk["completion"]["current"].frames
Rest(s, n) == SubSeq(s, n + 1, Len(s))
Pending == Rest(Stored, Len(Completed))

(***************************************************************************)
(* The programs.  An instruction names its primitive, the journal, the     *)
(* slots it works on and the program that runs when it fails.  "discard"   *)
(* is the removal of the superseded file that ends a swap.                 *)
(***************************************************************************)
Instr(do, k, from, to, undo) ==
  [do |-> do, kind |-> k, from |-> from, to |-> to, undo |-> undo]

Remove(k, s) == Instr("remove", k, s, s, "giveUp")
Discard(k) == Instr("discard", k, "old", "old", "giveUp")
Create(k, s) == Instr("create", k, s, s, "giveUp")
Copy(k, from) == Instr("copy", k, from, "fresh", "giveUp")
Verify(k, s, undo) == Instr("verify", k, s, s, undo)
Rename(k, from, to, undo) == Instr("rename", k, from, to, undo)

\* The new journal takes the place of the current one.
Swap(k) == << Rename(k, "current", "old", "giveUp"),
              Rename(k, "fresh", "current", "putBack"),
              Verify(k, "current", "swapBack"),
              Discard(k) >>

ClearCompletions ==
  << Remove("completion", "fresh"), Create("completion", "fresh"),
     Verify("completion", "fresh", "giveUp"), Remove("completion", "old") >>
  \o Swap("completion")

\* Mistake: the journals swapped before the completions are cleared.
CompactSwapFirst ==
  << Remove("action", "fresh"), Create("action", "fresh"),
     Copy("action", "current"), Verify("action", "fresh", "giveUp"),
     Remove("action", "old") >> \o Swap("action") \o ClearCompletions

Compact ==
  << Remove("action", "fresh"), Create("action", "fresh"),
     Copy("action", "current"), Verify("action", "fresh", "giveUp") >>
  \o ClearCompletions \o << Remove("action", "old") >> \o Swap("action")

DropLeftovers(k) == << Remove(k, "fresh"), Remove(k, "old") >>

RepairPrefix(k) ==
  << Remove(k, "fresh"), Remove(k, "old"), Create(k, "fresh"),
     Copy(k, "current"), Verify(k, "fresh", "giveUp") >> \o Swap(k)

ActivateFresh(k) ==
  << Remove(k, "current"), Rename(k, "fresh", "current", "giveUp"),
     Verify(k, "current", "giveUp"), Discard(k) >>

RestoreOld(k) ==
  << Remove(k, "current"), Rename(k, "old", "current", "giveUp"),
     Verify(k, "current", "giveUp"), Remove(k, "fresh") >>

PromoteOld(k) ==
  << Remove(k, "fresh"), Create(k, "fresh"), Copy(k, "old"),
     Verify(k, "fresh", "giveUp"), Remove(k, "current"),
     Rename(k, "fresh", "current", "giveUp"),
     Verify(k, "current", "giveUp"), Discard(k) >>

Undo == {"putBack", "swapBack"}
Recovery == {"drop", "repair", "activate", "restore", "promote"}
ProgramName == {"idle", "append", "complete", "compact"} \cup Undo \cup Recovery

Program(name, k) ==
  CASE name = "append"   -> << Instr("append", "action", "current", "current", "giveUp") >>
    [] name = "complete" -> << Instr("append", "completion", "current", "current", "giveUp") >>
    [] name = "compact"  -> Compact
    [] name = "putBack"  -> << Rename(k, "old", "current", "giveUp") >>
    [] name = "swapBack" -> << Remove(k, "current"), Rename(k, "old", "current", "giveUp") >>
    [] name = "drop"     -> DropLeftovers(k)
    [] name = "repair"   -> RepairPrefix(k)
    [] name = "activate" -> ActivateFresh(k)
    [] name = "restore"  -> RestoreOld(k)
    [] name = "promote"  -> PromoteOld(k)
    [] name = "idle"     -> <<>>

\* Mistake: a torn current journal is an error.
PlanNoRepair(j) ==
  IF Valid(j["current"]) THEN "drop"
  ELSE IF ~j["current"].exists /\ Valid(j["fresh"]) THEN "activate"
  ELSE IF Valid(j["old"]) THEN "restore"
  ELSE IF \A s \in Slot : ~j[s].exists THEN "drop"
  ELSE "unrecoverable"

\* Mistake: any valid fresh journal replaces a current one that is torn.
PlanFreshFirst(j) ==
  IF Valid(j["current"]) THEN "drop"
  ELSE IF Valid(j["fresh"]) THEN "activate"
  ELSE IF Torn(j["current"]) /\ ~Valid(j["old"]) THEN "repair"
  ELSE IF Valid(j["old"]) THEN "restore"
  ELSE IF \A s \in Slot : ~j[s].exists THEN "drop"
  ELSE "unrecoverable"

\* recoverJournal: what a boot does with the three files of one journal.
\* "drop" on three missing files does nothing, which is what the code does.
Plan(j) ==
  IF Valid(j["current"]) THEN "drop"
  ELSE IF Torn(j["current"]) /\ ~Valid(j["old"]) THEN "repair"
  ELSE IF ~j["current"].exists /\ Valid(j["fresh"]) THEN "activate"
  ELSE IF Valid(j["old"]) THEN "restore"
  ELSE IF Valid(j["fresh"]) THEN "activate"
  ELSE IF Torn(j["old"]) THEN "promote"
  ELSE IF \A s \in Slot : ~j[s].exists THEN "drop"
  ELSE "unrecoverable"

\* The frames the current file has once that recovery has run.
RecoveredFrames(k) ==
  LET j == disk[k] IN
  CASE Plan(j) \in {"drop", "repair"} -> j["current"].frames
    [] Plan(j) = "activate" -> j["fresh"].frames
    [] Plan(j) \in {"restore", "promote"} -> j["old"].frames
    [] Plan(j) = "unrecoverable" -> <<>>

\* The actions the queue would offer if the power were cut now.
Survivors == Rest(RecoveredFrames("action"), Len(RecoveredFrames("completion")))

(***************************************************************************)
(* Running a program.                                                      *)
(***************************************************************************)
Idle == [prog |-> "idle", kind |-> "action", at |-> 1, arg |-> None]
Running == run.prog # "idle"
Current == Program(run.prog, run.kind)[run.at]
IsLast == run.at = Len(Program(run.prog, run.kind))

Start(name, k, a) == [prog |-> name, kind |-> k, at |-> 1, arg |-> a]

\* begin() goes on to the completions, and then scans both journals.
\* With nothing to recover from, begin() reports the journal's error.
BootStep(d, k) ==
  IF Plan(d[k]) = "unrecoverable"
  THEN mode' = "failed" /\ run' = Idle
  ELSE mode' = "booting" /\ run' = Start(Plan(d[k]), k, None)

EndOfProgram ==
  \/ /\ run.prog \in Recovery /\ run.kind = "action"
     /\ BootStep(disk', "completion")
     /\ UNCHANGED <<reply, accepted, resolved>>
  \/ /\ run.prog \in Recovery /\ run.kind = "completion"
     /\ mode' = IF ScanOk(disk') THEN "ready" ELSE "failed"
     /\ run' = Idle
     /\ UNCHANGED <<reply, accepted, resolved>>
  \/ /\ run.prog = "compact"
     /\ run' = Start("append", "action", run.arg)
     /\ UNCHANGED <<mode, reply, accepted, resolved>>
  \/ /\ run.prog = "append"
     /\ accepted' = Append(accepted, run.arg)
     /\ run' = Idle /\ reply' = "ok"
     /\ UNCHANGED <<mode, resolved>>
  \/ /\ run.prog = "complete"
     /\ resolved' = resolved \cup {run.arg}
     /\ run' = Idle /\ reply' = "ok"
     /\ UNCHANGED <<mode, accepted>>
  \/ /\ run.prog \in Undo
     /\ mode' = IF mode = "booting" THEN "failed" ELSE mode
     /\ run' = Idle /\ reply' = "io"
     /\ UNCHANGED <<accepted, resolved>>

StepOn == run' = [run EXCEPT !.at = @ + 1] /\ UNCHANGED <<mode, reply, accepted, resolved>>
StepOrEnd == IF IsLast THEN EndOfProgram ELSE StepOn

\* A rename needs its source and refuses an existing target; the swap skips
\* the rename of a current file that does not exist.
Possible(i) ==
  i.do = "rename" => LET j == disk[i.kind] IN
                     \/ j[i.from].exists /\ ~j[i.to].exists
                     \/ i.to = "old" /\ ~j[i.from].exists

\* Mistake: compaction leaves out the first pending action.
CopySourceShort(i) ==
  IF run.prog = "compact" THEN Rest(Stored, Len(Completed) + 1)
  ELSE disk[i.kind][i.from].frames

\* What a copy still has to write: the pending actions when compacting, the
\* valid prefix of the source when recovering.
CopySource(i) == IF run.prog = "compact" THEN Pending ELSE disk[i.kind][i.from].frames
ToCopy(i) == Rest(CopySource(i), Len(disk[i.kind][i.to].frames))

Put(i, s, j) == disk' = [disk EXCEPT ![i.kind][s] = j]

Execute ==
  /\ Running
  /\ LET i == Current
         j == disk[i.kind]
     IN /\ Possible(i)
        /\ \/ i.do \in {"remove", "discard"} /\ Put(i, i.to, Absent) /\ StepOrEnd
           \/ i.do = "create" /\ Put(i, i.to, Empty) /\ StepOrEnd
           \/ i.do = "verify" /\ UNCHANGED disk /\ StepOrEnd
           \/ i.do = "copy" /\ ToCopy(i) = <<>> /\ UNCHANGED disk /\ StepOrEnd
           \/ /\ i.do = "copy" /\ ToCopy(i) # <<>>
              /\ Put(i, i.to, [j[i.to] EXCEPT !.frames = Append(@, Head(ToCopy(i)))])
              /\ UNCHANGED <<mode, run, reply, accepted, resolved>>
           \/ /\ i.do = "append"
              /\ Put(i, i.to, [Empty EXCEPT !.frames = Append(j[i.to].frames, run.arg)])
              /\ StepOrEnd
           \/ /\ i.do = "rename"
              /\ disk' = [disk EXCEPT ![i.kind] =
                            [@ EXCEPT ![i.to] = j[i.from], ![i.from] = Absent]]
              /\ StepOrEnd
  /\ UNCHANGED <<faults, losses>>

\* Some primitives write frames: interrupted, they may leave a torn one.
Writes(i) == i.do = "append" \/ (i.do = "copy" /\ ToCopy(i) # <<>>)
Tear(i) == Put(i, i.to, [disk[i.kind][i.to] EXCEPT !.exists = TRUE, !.torn = TRUE])

\* A primitive reports failure, or cannot succeed.  A failed step of an undo
\* program is ignored, and removing or discarding a missing file cannot fail.
Fail ==
  /\ Running
  /\ LET i == Current
     IN /\ \/ ~Possible(i) /\ UNCHANGED faults
           \/ /\ i.do \in Faultable /\ faults < MaxFaults
              /\ i.do \in {"remove", "discard"} => disk[i.kind][i.to].exists
              /\ i.do = "copy" => Writes(i)
              /\ faults' = faults + 1
        /\ UNCHANGED disk \/ (Writes(i) /\ Tear(i))
        /\ IF run.prog \in Undo THEN StepOrEnd
           ELSE IF i.undo = "giveUp"
           THEN /\ run' = Idle /\ reply' = "io"
                /\ mode' = IF mode = "booting" THEN "failed" ELSE mode
                /\ UNCHANGED <<accepted, resolved>>
           ELSE /\ run' = Start(i.undo, i.kind, None)
                /\ UNCHANGED <<mode, reply, accepted, resolved>>
  /\ UNCHANGED losses

(***************************************************************************)
(* The calls.  Each one scans both journals first and returns its error;   *)
(* none runs before begin() has succeeded.                                 *)
(***************************************************************************)
Callable == mode = "ready" /\ ~Running

Answer(r) == reply' = r /\ UNCHANGED <<disk, mode, run, accepted, resolved, faults, losses>>
Begin(name, k, a) == /\ run' = Start(name, k, a) /\ reply' = "none"
                     /\ UNCHANGED <<disk, mode, accepted, resolved, faults, losses>>

\* Mistake: the journal is full one action too late.
AppendCallLate(a) ==
  /\ Callable
  /\ a \in Range(accepted) => a \in Range(Stored)
  /\ IF ~ScanOk(disk) THEN Answer("error")
     ELSE IF a \in Range(Stored) THEN Answer("ok")
     ELSE IF Len(Stored) <= Capacity THEN Begin("append", "action", a)
     ELSE Answer("capacity")

\* append(action): an action still in the journal is already stored.
AppendCall(a) ==
  /\ Callable
  /\ a \in Range(accepted) => a \in Range(Stored)
  /\ IF ~ScanOk(disk) THEN Answer("error")
     ELSE IF a \in Range(Stored) THEN Answer("ok")
     ELSE IF Len(Stored) < Capacity THEN Begin("append", "action", a)
     ELSE IF Completed = <<>> THEN Answer("capacity")
     ELSE Begin("compact", "action", a)

\* Mistake: any pending action can be completed.
CompleteCallAnyOrder(a) ==
  /\ Callable
  /\ IF ~ScanOk(disk) THEN Answer("error")
     ELSE IF a \in Range(Completed) THEN Answer("ok")
     ELSE IF a \notin Range(Pending) THEN Answer("notFound")
     ELSE Begin("complete", "action", a)

\* complete(clientRequestId): only the oldest pending action can be completed.
CompleteCall(a) ==
  /\ Callable
  /\ IF ~ScanOk(disk) THEN Answer("error")
     ELSE IF a \in Range(Completed) THEN Answer("ok")
     ELSE IF Pending = <<>> THEN Answer("notFound")
     ELSE IF Head(Pending) # a THEN Answer("invalid")
     ELSE Begin("complete", "action", a)

(***************************************************************************)
(* Power.                                                                  *)
(***************************************************************************)
PowerLoss ==
  /\ mode # "off" /\ losses < MaxPowerLosses
  /\ UNCHANGED disk \/ (Running /\ Writes(Current) /\ Tear(Current))
  /\ mode' = "off" /\ run' = Idle /\ reply' = "none"
  /\ losses' = losses + 1
  /\ UNCHANGED <<accepted, resolved, faults>>

\* begin(): the action journal first.
Boot ==
  /\ mode = "off"
  /\ BootStep(disk, "action")
  /\ UNCHANGED <<disk, reply, accepted, resolved, faults, losses>>

Init == /\ disk = [k \in Kind |-> [s \in Slot |-> Absent]]
        /\ mode = "off"
        /\ run = Idle
        /\ reply = "none"
        /\ accepted = <<>>
        /\ resolved = {}
        /\ faults = 0
        /\ losses = 0

Next == \/ \E a \in Action : AppendCall(a) \/ CompleteCall(a)
        \/ Execute
        \/ Fail
        \/ PowerLoss
        \/ Boot

Spec == Init /\ [][Next]_vars

\* The terminal's only task runs a call, and begin(), to its end.
FairSpec == Spec /\ WF_vars(Boot) /\ WF_vars(Execute)

-----------------------------------------------------------------------------
DiskTypes == /\ disk \in [Kind -> [Slot -> Journal]]
             /\ \A k \in Kind, s \in Slot : Len(disk[k][s].frames) <= Capacity
RunTypes ==
  /\ mode \in {"off", "booting", "ready", "failed"}
  /\ run \in [prog : ProgramName, kind : Kind, at : Nat \ {0}, arg : Action \cup {None}]
  /\ Running => run.at \in DOMAIN Program(run.prog, run.kind)
  /\ reply \in {"none", "ok", "io", "error", "capacity", "notFound", "invalid"}
HistoryTypes == /\ accepted \in Seq(Action)
                /\ resolved \subseteq Action
                /\ faults \in 0 .. MaxFaults
                /\ losses \in 0 .. MaxPowerLosses

\* TypeOK: the six files, the program counter and the histories are of their
\* kinds, a program counter points at an instruction of its program, and no
\* journal outgrows what a reader accepts (outbox_codec.cpp ActionReader,
\* count_ >= kCapacity).
TypeOK == DiskTypes /\ RunTypes /\ HistoryTypes

\* NoConfirmedActionLost: whatever instant the power is cut, the recovered
\* queue offers exactly the last confirmed actions, in the order they were
\* stored, and every earlier one had a known outcome (Outbox::append,
\* compact, recoverJournal).
NoConfirmedActionLost ==
  \E h \in 0 .. Len(accepted) :
    /\ Survivors = Rest(accepted, h)
    /\ Range(SubSeq(accepted, 1, h)) \subseteq resolved

\* CompletionsMatchActions: the recovered completions are always the first
\* recovered actions: scanQueue never finds a hole that would leave the
\* outbox unusable (scanQueue, compact's clearing order).
CompletionsMatchActions ==
  IsPrefixOf(RecoveredFrames("completion"), RecoveredFrames("action"))

\* NeverBricked: without a reported failure every power cycle ends in a
\* readable outbox: begin() and the scans of later calls never report an error
\* (Outbox::begin, Outbox::append, Outbox::complete).
NeverBricked == faults = 0 => mode # "failed" /\ reply \notin {"io", "error"}

\* RecoveryIsStable: cutting the power, and every step of a recovery, leaves
\* what a further recovery would offer as it was: a boot interrupted at any
\* point and started again yields the same queue (recoverJournal).
RecoveryIsStable ==
  [][mode = "booting" \/ mode' \in {"off", "booting"} => Survivors' = Survivors]_vars

\* EventuallyReady: once the power stops being cut, and unless a primitive has
\* failed, the terminal comes up with a usable outbox and keeps it
\* (Outbox::begin).
EventuallyReady == <>[](mode = "ready") \/ <>(faults > 0)

\* The outbox implements the queue it promises.
Queue == INSTANCE DurableQueue WITH known <- Cardinality(resolved),
                                    head <- Len(accepted) - Len(Survivors)
ImplementsQueue == Queue!Spec
=============================================================================
