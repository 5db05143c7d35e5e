---------------------------- MODULE Outbox_proofs ----------------------------
(***************************************************************************)
(* Theorems about Outbox, for every set of actions, every capacity, and    *)
(* any number of power losses and of failures of the kinds in Benign.      *)
(***************************************************************************)
EXTENDS Outbox, FiniteSetTheorems, TLAPS

\* The failures that the outbox stands: no verification and no removal of a
\* superseded file fails, and where renames fail, only one primitive does.  (A
\* second failed rename leaves a journal without a current file: the next
\* append creates a new one, and the boot after it drops what was put aside.)
Benign == /\ Faultable \cap {"discard", "verify"} = {}
          /\ "rename" \in Faultable => MaxFaults <= 1

-----------------------------------------------------------------------------
(* The inductive invariant.                                                *)

\* The frames that a boot will find in a journal.
Held(d, k) == IF d[k]["current"].exists THEN d[k]["current"].frames ELSE d[k]["fresh"].frames

\* Stored actions a and completions c, of the actions confirmed so far: a is
\* the last of them, c the first of a, and all before and in c have an outcome.
Sound(a, c, acc, res) ==
  /\ Len(c) <= Len(a) /\ Len(a) <= Len(acc)
  /\ \A i \in 1 .. Len(a) : a[i] = acc[Len(acc) - Len(a) + i]
  /\ \A i \in 1 .. Len(c) : c[i] = a[i]
  /\ \A i \in 1 .. (Len(acc) - Len(a) + Len(c)) : acc[i] \in res

\* The shapes of a journal: no swap under way; the current file put aside; the
\* fresh one put in its place.
NoSwap(j) == ~j["old"].exists /\ (j["current"].exists \/ ~j["fresh"].exists)
Aside(j) == ~j["current"].exists /\ Valid(j["fresh"]) /\ j["old"].exists
Replaced(j) == Valid(j["current"]) /\ ~j["fresh"].exists /\ j["old"].exists
Shape(j) == NoSwap(j) \/ Aside(j) \/ Replaced(j)

\* A journal that begin() has recovered.
Clean(j) == NoSwap(j) /\ Readable(j["current"]) /\ ~j["fresh"].exists

\* Six files of their kind; a missing one holds nothing.
Typed(d) ==
  /\ d \in [Kind -> [Slot -> Journal]]
  /\ \A k \in Kind, s \in Slot :
       Len(d[k][s].frames) <= Capacity /\ (d[k][s].exists \/ d[k][s] = Absent)

Files(d) == Typed(d) /\ \A k \in Kind : Shape(d[k])

\* The actions of known outcome are the oldest ones, and no action is stored twice.
History ==
  /\ \A i, j \in 1 .. Len(accepted) : accepted[i] = accepted[j] => i = j
  /\ \E n \in 0 .. Len(accepted) : resolved = {accepted[i] : i \in 1 .. n}

Modes ==
  /\ mode \in {"off", "failed"} => ~Running
  /\ mode = "booting" => run.prog \in {"drop", "repair", "activate", "putBack"}
  /\ mode = "ready" =>
       /\ run.prog \in {"idle", "append", "complete", "compact", "putBack"}
       /\ ~Running => \A k \in Kind : NoSwap(disk[k])
  /\ mode = "booting" /\ run.kind = "completion" => Clean(disk["action"])
  /\ faults = 0 => /\ mode # "failed" /\ reply \notin {"io", "error"}
                   /\ mode = "ready" => \A k \in Kind : ~Torn(disk[k]["current"])

\* Where each program stands, journal j being its own.
DropAt(j) == ~Torn(j["current"]) /\ ~Aside(j) /\ (run.at = 2 => ~j["fresh"].exists)

RepairAt(j) ==
  /\ run.at <= 6 => NoSwap(j) /\ Torn(j["current"])
  /\ run.at \in 4 .. 6 => Valid(j["fresh"])
  /\ run.at = 4 => /\ Len(j["fresh"].frames) <= Len(j["current"].frames)
                   /\ \A i \in 1 .. Len(j["fresh"].frames) :
                        j["fresh"].frames[i] = j["current"].frames[i]
  /\ run.at \in {5, 6} => j["fresh"].frames = j["current"].frames
  /\ run.at = 7 => Aside(j) /\ j["fresh"].frames = j["old"].frames
  /\ run.at >= 8 => Replaced(j)

ActivateAt(j) == IF run.at <= 2 THEN Aside(j) ELSE Replaced(j)

New == run.arg \in Action /\ \A i \in 1 .. Len(accepted) : accepted[i] # run.arg

AppendAt ==
  /\ New /\ Len(Stored) < Capacity
  /\ \A k \in Kind : NoSwap(disk[k]) /\ Readable(disk[k]["current"])

CompleteAt ==
  /\ Len(Completed) < Len(Stored) /\ run.arg = Stored[Len(Completed) + 1]
  /\ \A k \in Kind : NoSwap(disk[k]) /\ Readable(disk[k]["current"])

\* A compacted journal: the pending actions, and room for one more.
Compacted(f, acc, res) ==
  Valid(f) /\ Len(f.frames) < Capacity /\ Sound(f.frames, <<>>, acc, res)

\* A compaction at its n-th primitive, of the actions a and the completions c.
Compacting(n, a, c, acc, res) ==
  LET stored == a["current"].frames
      done == c["current"].frames
  IN /\ n <= 14 => NoSwap(a) /\ Valid(a["current"])
     /\ n <= 9 => /\ NoSwap(c) /\ Valid(c["current"]) /\ done # <<>> /\ Len(stored) = Capacity
     /\ n = 3 => /\ Valid(a["fresh"]) /\ Len(a["fresh"].frames) <= Len(stored) - Len(done)
                 /\ \A i \in 1 .. Len(a["fresh"].frames) :
                      a["fresh"].frames[i] = stored[Len(done) + i]
     /\ n \in 4 .. 15 => Compacted(a["fresh"], acc, res)
     /\ n \in 7 .. 10 => c["fresh"] = Empty
     /\ n = 10 => Aside(c) /\ Valid(c["old"]) /\ Sound(stored, c["old"].frames, acc, res)
     /\ n \in {11, 12} => Replaced(c)
     /\ n \in 11 .. 17 => c["current"] = Empty
     /\ n \in 13 .. 17 => NoSwap(c)
     /\ n = 15 => Aside(a) /\ Valid(a["old"]) /\ Sound(a["old"].frames, <<>>, acc, res)
     /\ n \in {16, 17} => Replaced(a) /\ Compacted(a["current"], acc, res)

CompactAt == New /\ Compacting(run.at, disk["action"], disk["completion"], accepted, resolved)

\* What the journals hold once the file put aside is back.
PutBackAt ==
  LET Back(k) == IF k = run.kind THEN disk[k]["old"].frames ELSE Held(disk, k)
  IN /\ Aside(disk[run.kind]) /\ faults > 0 /\ faults >= MaxFaults
     /\ mode = "ready" => /\ \A k \in Kind : k # run.kind => NoSwap(disk[k])
                          /\ Sound(Back("action"), Back("completion"), accepted, resolved)
     /\ mode = "booting" => disk[run.kind]["fresh"].frames = disk[run.kind]["old"].frames

Program_at ==
  /\ run.prog = "drop" => run.at \in 1 .. 2 /\ DropAt(disk[run.kind])
  /\ run.prog = "repair" => run.at \in 1 .. 9 /\ RepairAt(disk[run.kind])
  /\ run.prog = "activate" => run.at \in 1 .. 4 /\ ActivateAt(disk[run.kind])
  /\ run.prog = "append" => run.at = 1 /\ AppendAt
  /\ run.prog = "complete" => run.at = 1 /\ CompleteAt
  /\ run.prog = "compact" => run.at \in 1 .. 17 /\ CompactAt
  /\ run.prog = "putBack" => run.at = 1 /\ PutBackAt

IInv == /\ RunTypes /\ HistoryTypes /\ Files(disk) /\ History /\ Modes /\ Program_at
        /\ Sound(Held(disk, "action"), Held(disk, "completion"), accepted, resolved)

-----------------------------------------------------------------------------
(* The text of the programs.                                               *)

LEMMA Fields ==
  /\ \A k, s : /\ Remove(k, s).do = "remove" /\ Remove(k, s).undo = "giveUp"
               /\ Create(k, s).do = "create" /\ Create(k, s).undo = "giveUp"
               /\ Copy(k, s).do = "copy" /\ Copy(k, s).undo = "giveUp"
  /\ \A k, s, u : Verify(k, s, u).do = "verify"
  /\ \A k : Discard(k).do = "discard"
  /\ \A k, s, t, u : /\ Rename(k, s, t, u).do = "rename" /\ Rename(k, s, t, u).undo = u
                     /\ Rename(k, s, t, u).kind = k
                     /\ Rename(k, s, t, u).from = s /\ Rename(k, s, t, u).to = t
  /\ \A k, s, t, u : /\ Instr("append", k, s, t, u).do = "append"
                     /\ Instr("append", k, s, t, u).undo = u
  BY DEF Remove, Create, Copy, Verify, Discard, Rename, Instr

LEMMA DropText ==
  ASSUME NEW k
  PROVE  /\ Len(Program("drop", k)) = 2 /\ DOMAIN Program("drop", k) = 1 .. 2
         /\ Program("drop", k)[1] = Remove(k, "fresh")
         /\ Program("drop", k)[2] = Remove(k, "old")
  BY DEF Program, DropLeftovers

LEMMA RepairText ==
  ASSUME NEW k
  PROVE  /\ Len(Program("repair", k)) = 9 /\ DOMAIN Program("repair", k) = 1 .. 9
         /\ Program("repair", k)[1] = Remove(k, "fresh")
         /\ Program("repair", k)[2] = Remove(k, "old")
         /\ Program("repair", k)[3] = Create(k, "fresh")
         /\ Program("repair", k)[4] = Copy(k, "current")
         /\ Program("repair", k)[5] = Verify(k, "fresh", "giveUp")
         /\ Program("repair", k)[6] = Rename(k, "current", "old", "giveUp")
         /\ Program("repair", k)[7] = Rename(k, "fresh", "current", "putBack")
         /\ Program("repair", k)[8] = Verify(k, "current", "swapBack")
         /\ Program("repair", k)[9] = Discard(k)
<1>1. Program("repair", k) = RepairPrefix(k)
  BY DEF Program
<1> QED
  BY <1>1 DEF RepairPrefix, Swap

LEMMA ActivateText ==
  ASSUME NEW k
  PROVE  /\ Len(Program("activate", k)) = 4 /\ DOMAIN Program("activate", k) = 1 .. 4
         /\ Program("activate", k)[1] = Remove(k, "current")
         /\ Program("activate", k)[2] = Rename(k, "fresh", "current", "giveUp")
         /\ Program("activate", k)[3] = Verify(k, "current", "giveUp")
         /\ Program("activate", k)[4] = Discard(k)
<1>1. Program("activate", k) = ActivateFresh(k)
  BY DEF Program
<1> QED
  BY <1>1 DEF ActivateFresh

LEMMA CallText ==
  ASSUME NEW k
  PROVE  /\ Len(Program("append", k)) = 1 /\ Len(Program("complete", k)) = 1
         /\ DOMAIN Program("append", k) = 1 .. 1 /\ DOMAIN Program("complete", k) = 1 .. 1
         /\ Program("append", k)[1] = Instr("append", "action", "current", "current", "giveUp")
         /\ Program("complete", k)[1] = Instr("append", "completion", "current", "current", "giveUp")
  BY DEF Program

LEMMA PutBackText ==
  ASSUME NEW k
  PROVE  /\ Len(Program("putBack", k)) = 1 /\ DOMAIN Program("putBack", k) = 1 .. 1
         /\ Program("putBack", k)[1] = Rename(k, "old", "current", "giveUp")
  BY DEF Program

LEMMA CompactText ==
  ASSUME NEW k
  PROVE  /\ Len(Program("compact", k)) = 17 /\ DOMAIN Program("compact", k) = 1 .. 17
         /\ Program("compact", k)[1] = Remove("action", "fresh")
         /\ Program("compact", k)[2] = Create("action", "fresh")
         /\ Program("compact", k)[3] = Copy("action", "current")
         /\ Program("compact", k)[4] = Verify("action", "fresh", "giveUp")
         /\ Program("compact", k)[5] = Remove("completion", "fresh")
         /\ Program("compact", k)[6] = Create("completion", "fresh")
         /\ Program("compact", k)[7] = Verify("completion", "fresh", "giveUp")
         /\ Program("compact", k)[8] = Remove("completion", "old")
         /\ Program("compact", k)[9] = Rename("completion", "current", "old", "giveUp")
         /\ Program("compact", k)[10] = Rename("completion", "fresh", "current", "putBack")
         /\ Program("compact", k)[11] = Verify("completion", "current", "swapBack")
         /\ Program("compact", k)[12] = Discard("completion")
         /\ Program("compact", k)[13] = Remove("action", "old")
         /\ Program("compact", k)[14] = Rename("action", "current", "old", "giveUp")
         /\ Program("compact", k)[15] = Rename("action", "fresh", "current", "putBack")
         /\ Program("compact", k)[16] = Verify("action", "current", "swapBack")
         /\ Program("compact", k)[17] = Discard("action")
<1>1. Program("compact", k) = Compact
  BY DEF Program
<1> QED
  BY <1>1 DEF Compact, ClearCompletions, Swap

LEMMA CompactDo ==
  ASSUME NEW k
  PROVE  /\ Program("compact", k)[1].do = "remove"
         /\ Program("compact", k)[2].do = "create"
         /\ Program("compact", k)[3].do = "copy"
         /\ Program("compact", k)[4].do = "verify"
         /\ Program("compact", k)[5].do = "remove"
         /\ Program("compact", k)[6].do = "create"
         /\ Program("compact", k)[7].do = "verify"
         /\ Program("compact", k)[8].do = "remove"
         /\ Program("compact", k)[9].do = "rename"
         /\ Program("compact", k)[10].do = "rename"
         /\ Program("compact", k)[11].do = "verify"
         /\ Program("compact", k)[12].do = "discard"
         /\ Program("compact", k)[13].do = "remove"
         /\ Program("compact", k)[14].do = "rename"
         /\ Program("compact", k)[15].do = "rename"
         /\ Program("compact", k)[16].do = "verify"
         /\ Program("compact", k)[17].do = "discard"
<1>1. /\ Program("compact", k)[1].do = "remove"
      /\ Program("compact", k)[2].do = "create"
      /\ Program("compact", k)[3].do = "copy"
      /\ Program("compact", k)[4].do = "verify"
  BY CompactText, Fields
<1>2. /\ Program("compact", k)[5].do = "remove"
      /\ Program("compact", k)[6].do = "create"
      /\ Program("compact", k)[7].do = "verify"
      /\ Program("compact", k)[8].do = "remove"
  BY CompactText, Fields
<1>3. /\ Program("compact", k)[9].do = "rename"
      /\ Program("compact", k)[10].do = "rename"
      /\ Program("compact", k)[11].do = "verify"
      /\ Program("compact", k)[12].do = "discard"
  BY CompactText, Fields
<1>4. /\ Program("compact", k)[13].do = "remove"
      /\ Program("compact", k)[14].do = "rename"
      /\ Program("compact", k)[15].do = "rename"
      /\ Program("compact", k)[16].do = "verify"
      /\ Program("compact", k)[17].do = "discard"
  BY CompactText, Fields
<1> QED
  BY <1>1, <1>2, <1>3, <1>4

\* Every program ends where its text does.
LEMMA AtEnd ==
  ASSUME RunTypes, Modes, Program_at, Running
  PROVE  /\ run.kind \in Kind /\ run.at \in Nat \ {0}
         /\ run.at <= Len(Program(run.prog, run.kind))
         /\ DOMAIN Program(run.prog, run.kind) = 1 .. Len(Program(run.prog, run.kind))
         /\ run.prog \in {"drop", "repair", "activate", "append", "complete", "compact", "putBack"}
<1>1. run.prog \in {"drop", "repair", "activate", "append", "complete", "compact", "putBack"}
  BY DEF RunTypes, Modes, Running
<1>2. CASE run.prog \in {"drop", "repair", "activate"}
  BY <1>2, DropText, RepairText, ActivateText DEF Program_at, RunTypes
<1>3. CASE run.prog \in {"append", "complete", "compact", "putBack"}
  BY <1>3, CallText, CompactText, PutBackText DEF Program_at, RunTypes
<1> QED
  BY <1>1, <1>2, <1>3

-----------------------------------------------------------------------------
(* Files.                                                                  *)

LEMMA NoFrames ==
  /\ Absent \in Journal /\ Empty \in Journal
  /\ ~Absent.exists /\ Absent.frames = <<>> /\ ~Absent.torn
  /\ Empty.exists /\ Empty.frames = <<>> /\ ~Empty.torn
  /\ Len(<<>>) = 0
<1>1. Absent \in Journal /\ Absent.exists = FALSE /\ Absent.frames = <<>> /\ Absent.torn = FALSE
  BY DEF Absent, Journal
<1>2. Empty \in Journal
  BY <1>1 DEF Empty, Journal
<1>3. Empty.exists = TRUE /\ Empty.frames = Absent.frames /\ Empty.torn = Absent.torn
  BY DEF Empty, Absent
<1> QED
  BY <1>1, <1>2, <1>3

\* One file is written; one takes the name of another.
Written(d, k, s, j) == [d EXCEPT ![k][s] = j]
Moved(d, k, from, to) == [d EXCEPT ![k] = [@ EXCEPT ![to] = d[k][from], ![from] = Absent]]

LEMMA PutOK ==
  ASSUME NEW d, Typed(d), NEW k \in Kind, NEW s \in Slot,
         NEW j \in Journal, Len(j.frames) <= Capacity, j.exists \/ j = Absent,
         NEW e, e = Written(d, k, s, j)
  PROVE  /\ Typed(e) /\ e[k][s] = j
         /\ \A l \in Kind, t \in Slot : l # k \/ t # s => e[l][t] = d[l][t]
<1>1. d \in [Kind -> [Slot -> Journal]]
  BY DEF Typed
<1>2. e \in [Kind -> [Slot -> Journal]] /\ e[k][s] = j
  BY <1>1 DEF Written
<1>3. \A l \in Kind, t \in Slot : l # k \/ t # s => e[l][t] = d[l][t]
  BY <1>1 DEF Written
<1> QED
  BY <1>2, <1>3 DEF Typed

LEMMA RenameOK ==
  ASSUME NEW d, Typed(d), NEW k \in Kind, NEW from \in Slot, NEW to \in Slot, from # to,
         NEW e, e = Moved(d, k, from, to)
  PROVE  /\ Typed(e) /\ e[k][to] = d[k][from] /\ e[k][from] = Absent
         /\ \A l \in Kind, t \in Slot : l # k \/ t \notin {from, to} => e[l][t] = d[l][t]
<1>1. d \in [Kind -> [Slot -> Journal]] /\ Absent \in Journal
  BY NoFrames DEF Typed
<1>2. e \in [Kind -> [Slot -> Journal]] /\ e[k][to] = d[k][from] /\ e[k][from] = Absent
  BY <1>1 DEF Moved
<1>3. \A l \in Kind, t \in Slot : l # k \/ t \notin {from, to} => e[l][t] = d[l][t]
  BY <1>1 DEF Moved
<1> HIDE DEF Absent
<1>4. \A l \in Kind, t \in Slot : e[l][t] = Absent \/ \E u \in Slot : e[l][t] = d[l][u]
  BY <1>2, <1>3
<1>5. Len(Absent.frames) <= Capacity
  BY NoFrames, OutboxAssumption
<1>6. ASSUME NEW l \in Kind, NEW t \in Slot
      PROVE  Len(e[l][t].frames) <= Capacity /\ (e[l][t].exists \/ e[l][t] = Absent)
  <2>1. CASE e[l][t] = Absent
    BY <1>5, <2>1
  <2>2. ASSUME NEW u \in Slot, e[l][t] = d[l][u]
        PROVE  Len(e[l][t].frames) <= Capacity /\ (e[l][t].exists \/ e[l][t] = Absent)
    BY <2>2 DEF Typed
  <2> QED
    BY <1>4, <2>1, <2>2
<1> QED
  BY <1>2, <1>3, <1>6 DEF Typed

\* Removing a file, and creating an empty one.
LEMMA Removed ==
  ASSUME NEW d, Typed(d), NEW k \in Kind, NEW s \in Slot,
         NEW e, e = Written(d, k, s, Absent)
  PROVE  /\ Typed(e) /\ e[k][s] = Absent
         /\ \A l \in Kind, t \in Slot : l # k \/ t # s => e[l][t] = d[l][t]
<1>1. Len(Absent.frames) <= Capacity /\ Absent \in Journal
  BY NoFrames, OutboxAssumption
<1> QED
  BY <1>1, PutOK

LEMMA Created ==
  ASSUME NEW d, Typed(d), NEW k \in Kind, NEW s \in Slot,
         NEW e, e = Written(d, k, s, Empty)
  PROVE  /\ Typed(e) /\ e[k][s] = Empty
         /\ \A l \in Kind, t \in Slot : l # k \/ t # s => e[l][t] = d[l][t]
<1>1. Len(Empty.frames) <= Capacity /\ Empty \in Journal /\ Empty.exists
  BY NoFrames, OutboxAssumption
<1> QED
  BY <1>1, PutOK

\* What begin() chooses for a journal that the outbox left behind.
LEMMA PlanOK ==
  ASSUME NEW d, Files(d), NEW k \in Kind
  PROVE  /\ Plan(d[k]) \in {"drop", "repair", "activate"}
         /\ Plan(d[k]) = "drop" => ~Torn(d[k]["current"]) /\ ~Aside(d[k])
         /\ Plan(d[k]) = "repair" => NoSwap(d[k]) /\ Torn(d[k]["current"])
         /\ Plan(d[k]) = "activate" => Aside(d[k])
<1>1. Shape(d[k])
  BY DEF Files
<1>2. \A s \in Slot : Len(d[k][s].frames) <= Capacity
  BY DEF Files, Typed
<1>3. CASE Aside(d[k])
  BY <1>3 DEF Aside, Plan, Valid, Torn, NoSwap, Slot
<1>4. CASE Replaced(d[k])
  BY <1>4 DEF Replaced, Plan, Valid, Torn, NoSwap, Aside, Slot
<1>5. CASE NoSwap(d[k])
  BY <1>2, <1>5 DEF Plan, Valid, Torn, NoSwap, Aside, Slot
<1> QED
  BY <1>1, <1>3, <1>4, <1>5 DEF Shape

\* A boot finds the frames that Held names.
LEMMA HeldIsRecovered ==
  ASSUME Files(disk), NEW k \in Kind
  PROVE  RecoveredFrames(k) = Held(disk, k)
<1> DEFINE j == disk[k]
<1>1. /\ Plan(j) \in {"drop", "repair", "activate"}
      /\ Plan(j) = "drop" => ~Torn(j["current"]) /\ ~Aside(j)
      /\ Plan(j) = "repair" => NoSwap(j) /\ Torn(j["current"])
      /\ Plan(j) = "activate" => Aside(j)
  BY PlanOK
<1>2. \A s \in Slot : j[s].exists \/ j[s] = Absent
  BY DEF Files, Typed
<1>3. Shape(j)
  BY DEF Files
<1>4. CASE Plan(j) = "activate"
  BY <1>1, <1>4 DEF RecoveredFrames, Held, Aside
<1>5. CASE Plan(j) = "repair"
  BY <1>1, <1>5 DEF RecoveredFrames, Held, Torn
<1>6. CASE Plan(j) = "drop"
  <2>1. RecoveredFrames(k) = j["current"].frames
    BY <1>6 DEF RecoveredFrames
  <2>2. CASE j["current"].exists
    BY <2>1, <2>2 DEF Held
  <2>3. CASE ~j["current"].exists
    <3>1. ~j["fresh"].exists
      BY <1>1, <1>3, <1>6, <2>3 DEF Shape, NoSwap, Replaced, Valid
    <3>2. j["current"] = Absent /\ j["fresh"] = Absent
      BY <1>2, <2>3, <3>1 DEF Slot
    <3> QED
      BY <2>1, <2>3, <3>2 DEF Held
  <2> QED
    BY <2>2, <2>3
<1> QED
  BY <1>1, <1>4, <1>5, <1>6

-----------------------------------------------------------------------------
(* Primitives.                                                             *)

LEMMA RemoveStep ==
  ASSUME Execute, Typed(disk), NEW k \in Kind, NEW s \in Slot,
         Current = Remove(k, s) \/ (Current = Discard(k) /\ s = "old")
  PROVE  /\ Typed(disk') /\ disk'[k][s] = Absent
         /\ \A l \in Kind, t \in Slot : l # k \/ t # s => disk'[l][t] = disk[l][t]
         /\ StepOrEnd /\ UNCHANGED <<faults, losses>>
<1>1. Current.do \in {"remove", "discard"} /\ Current.kind = k /\ Current.to = s
  BY DEF Remove, Discard, Instr
<1>2. disk' = Written(disk, k, s, Absent)
  BY <1>1 DEF Execute, Put, Written
<1>3. StepOrEnd /\ UNCHANGED <<faults, losses>>
  BY <1>1 DEF Execute
<1> QED
  BY <1>2, <1>3, Removed

LEMMA CreateStep ==
  ASSUME Execute, Typed(disk), NEW k \in Kind, NEW s \in Slot, Current = Create(k, s)
  PROVE  /\ Typed(disk') /\ disk'[k][s] = Empty
         /\ \A l \in Kind, t \in Slot : l # k \/ t # s => disk'[l][t] = disk[l][t]
         /\ StepOrEnd /\ UNCHANGED <<faults, losses>>
<1>1. Current.do = "create" /\ Current.kind = k /\ Current.to = s
  BY DEF Create, Instr
<1>2. disk' = Written(disk, k, s, Empty)
  BY <1>1 DEF Execute, Put, Written
<1>3. StepOrEnd /\ UNCHANGED <<faults, losses>>
  BY <1>1 DEF Execute
<1> QED
  BY <1>2, <1>3, Created

LEMMA VerifyStep ==
  ASSUME Execute, NEW k, NEW s, NEW u, Current = Verify(k, s, u)
  PROVE  disk' = disk /\ StepOrEnd /\ UNCHANGED <<faults, losses>>
<1>1. Current.do = "verify"
  BY DEF Verify, Instr
<1> QED
  BY <1>1 DEF Execute

LEMMA RenameStep ==
  ASSUME Execute, Typed(disk), NEW k \in Kind, NEW from \in Slot, NEW to \in Slot,
         from # to, NEW u, Current = Rename(k, from, to, u)
  PROVE  /\ Typed(disk') /\ disk'[k][to] = disk[k][from] /\ disk'[k][from] = Absent
         /\ \A l \in Kind, t \in Slot : l # k \/ t \notin {from, to} => disk'[l][t] = disk[l][t]
         /\ StepOrEnd /\ UNCHANGED <<faults, losses>>
<1>1. Current.do = "rename" /\ Current.kind = k /\ Current.from = from /\ Current.to = to
  BY DEF Rename, Instr
<1>2. disk' = Moved(disk, k, from, to)
  BY <1>1 DEF Execute, Moved
<1>3. StepOrEnd /\ UNCHANGED <<faults, losses>>
  BY <1>1 DEF Execute
<1> QED
  BY <1>2, <1>3, RenameOK

LEMMA AppendStep ==
  ASSUME Execute, NEW k, Current = Instr("append", k, "current", "current", "giveUp")
  PROVE  /\ disk' = Written(disk, k, "current",
                      [Empty EXCEPT !.frames = Append(disk[k]["current"].frames, run.arg)])
         /\ StepOrEnd /\ UNCHANGED <<faults, losses>>
<1>1. Current.do = "append" /\ Current.kind = k /\ Current.to = "current"
  BY DEF Instr
<1> QED
  BY <1>1 DEF Execute, Put, Written

\* A copy writes the next frame, or has written them all.
LEMMA CopyStep ==
  ASSUME Execute, NEW k, NEW from, Current = Copy(k, from),
         NEW s, s = IF run.prog = "compact" THEN Pending ELSE disk[k][from].frames,
         NEW r, r = Rest(s, Len(disk[k]["fresh"].frames))
  PROVE  /\ UNCHANGED <<faults, losses>>
         /\ \/ r = <<>> /\ disk' = disk /\ StepOrEnd
            \/ /\ r # <<>>
               /\ disk' = Written(disk, k, "fresh",
                             [disk[k]["fresh"] EXCEPT !.frames = Append(@, Head(r))])
               /\ UNCHANGED <<mode, run, reply, accepted, resolved>>
<1>1. Current.do = "copy" /\ Current.kind = k /\ Current.from = from /\ Current.to = "fresh"
  BY DEF Copy, Instr
<1>2. ToCopy(Current) = r
  BY <1>1 DEF ToCopy, CopySource
<1> QED
  BY <1>1, <1>2 DEF Execute, Put, Written

-----------------------------------------------------------------------------
(* Sequences.                                                              *)

LEMMA FramesOf ==
  ASSUME NEW s \in Seq(Action)
  PROVE  Len(s) \in Nat /\ \A i \in 1 .. Len(s) : s[i] \in Action
  OBVIOUS

LEMMA RestOK ==
  ASSUME NEW s \in Seq(Action), NEW n \in 0 .. Len(s)
  PROVE  /\ Rest(s, n) \in Seq(Action) /\ Len(Rest(s, n)) = Len(s) - n
         /\ \A i \in 1 .. Len(s) - n : Rest(s, n)[i] = s[n + i]
         /\ Rest(s, n) = <<>> <=> n = Len(s)
         /\ n < Len(s) => Head(Rest(s, n)) = s[n + 1]
<1>1. /\ Rest(s, n) \in Seq(Action) /\ Len(Rest(s, n)) = Len(s) - n
      /\ \A i \in 1 .. Len(s) - n : Rest(s, n)[i] = s[n + i]
  BY DEF Rest
<1>2. Rest(s, n) = <<>> <=> Len(Rest(s, n)) = 0
  BY <1>1
<1>3. n < Len(s) => Head(Rest(s, n)) = s[n + 1]
  BY <1>1, <1>2
<1> QED
  BY <1>1, <1>2, <1>3

LEMMA PrefixIs ==
  ASSUME NEW s \in Seq(Action), NEW t \in Seq(Action)
  PROVE  IsPrefixOf(s, t) <=> /\ Len(s) <= Len(t)
                              /\ \A i \in 1 .. Len(s) : s[i] = t[i]
<1>1. CASE Len(s) <= Len(t)
  <2>1. /\ SubSeq(t, 1, Len(s)) \in Seq(Action) /\ Len(SubSeq(t, 1, Len(s))) = Len(s)
        /\ \A i \in 1 .. Len(s) : SubSeq(t, 1, Len(s))[i] = t[i]
    BY <1>1
  <2>2. SubSeq(t, 1, Len(s)) = s <=> \A i \in 1 .. Len(s) : s[i] = t[i]
    BY <2>1
  <2> QED
    BY <1>1, <2>2 DEF IsPrefixOf
<1>2. CASE ~(Len(s) <= Len(t))
  BY <1>2 DEF IsPrefixOf
<1> QED
  BY <1>1, <1>2

-----------------------------------------------------------------------------
(* Recovery.                                                               *)

\* Only journal k has changed, and a boot would find the same frames.
SameQueue(d, e, k) ==
  /\ Files(e)
  /\ \A l \in Kind : l # k => e[l] = d[l]
  /\ \A l \in Kind : Held(e, l) = Held(d, l)

LEMMA SameQueueOK ==
  ASSUME NEW d, Files(d), NEW e, Typed(e), NEW k \in Kind,
         \A l \in Kind, t \in Slot : l # k => e[l][t] = d[l][t],
         Shape(e[k]), Held(e, k) = Held(d, k)
  PROVE  SameQueue(d, e, k)
<1>1. /\ d \in [Kind -> [Slot -> Journal]] /\ e \in [Kind -> [Slot -> Journal]]
      /\ \A l \in Kind : Shape(d[l])
  BY DEF Files, Typed
<1>2. \A l \in Kind : l # k => e[l] = d[l]
  BY <1>1
<1>3. \A l \in Kind : Shape(e[l])
  BY <1>1, <1>2
<1>4. \A l \in Kind : Held(e, l) = Held(d, l)
  BY <1>2 DEF Held
<1> QED
  BY <1>2, <1>3, <1>4 DEF SameQueue, Files

LEMMA HeldIsCurrent ==
  ASSUME NEW d, Typed(d), NEW k \in Kind, NoSwap(d[k])
  PROVE  Held(d, k) = d[k]["current"].frames
<1>1. \A s \in Slot : d[k][s].exists \/ d[k][s] = Absent
  BY DEF Typed
<1> QED
  BY <1>1 DEF Held, NoSwap, Slot

\* Two journals that can be read and go together pass scanQueue.
LEMMA ScanIsOk ==
  ASSUME NEW d, Files(d), NEW acc, NEW res,
         \A k \in Kind : NoSwap(d[k]) /\ Readable(d[k]["current"]),
         Sound(Held(d, "action"), Held(d, "completion"), acc, res)
  PROVE  ScanOk(d)
<1> DEFINE a == d["action"]["current"].frames
           c == d["completion"]["current"].frames
<1>1. /\ "action" \in Kind /\ "completion" \in Kind
      /\ Readable(d["action"]["current"]) /\ Readable(d["completion"]["current"])
  BY DEF Kind
<1>2. a \in Seq(Action) /\ c \in Seq(Action)
  BY <1>1 DEF Files, Typed, Journal, Slot
<1>3. Held(d, "action") = a /\ Held(d, "completion") = c
  BY <1>1, HeldIsCurrent DEF Files
<1>4. Len(c) <= Len(a) /\ \A i \in 1 .. Len(c) : c[i] = a[i]
  BY <1>3 DEF Sound
<1>5. IsPrefixOf(c, a)
  BY <1>2, <1>4, PrefixIs
<1> QED
  BY <1>1, <1>5 DEF ScanOk

\* begin() turns to journal k.
LEMMA BootStepOK ==
  ASSUME IInv, NEW k \in Kind, Files(disk)', BootStep(disk', k),
         k = "completion" => Clean(disk["action"])',
         \A l \in Kind : Held(disk', l) = Held(disk, l),
         UNCHANGED <<reply, accepted, resolved, faults, losses>>
  PROVE  IInv'
<1> DEFINE p == Plan(disk'[k])
<1>1. /\ p \in {"drop", "repair", "activate"}
      /\ p = "drop" => ~Torn(disk'[k]["current"]) /\ ~Aside(disk'[k])
      /\ p = "repair" => NoSwap(disk'[k]) /\ Torn(disk'[k]["current"])
      /\ p = "activate" => Aside(disk'[k])
  BY PlanOK
<1>2. mode' = "booting" /\ run' = [prog |-> p, kind |-> k, at |-> 1, arg |-> None]
  BY <1>1 DEF BootStep, Start
<1> HIDE DEF p
<1>3. run'.prog = p /\ run'.kind = k /\ run'.at = 1
  BY <1>2
<1>4. RunTypes'
  <2>1. run' \in [prog : ProgramName, kind : Kind, at : Nat \ {0}, arg : Action \cup {None}]
    BY <1>1, <1>2 DEF ProgramName, Recovery
  <2>2. 1 \in DOMAIN Program(p, k)
    BY <1>1, DropText, RepairText, ActivateText DEF Program, DropLeftovers, RepairPrefix,
         ActivateFresh, Swap
  <2> QED
    BY <1>2, <1>3, <2>1, <2>2 DEF IInv, RunTypes
<1>5. HistoryTypes' /\ History'
  BY DEF IInv, HistoryTypes, History
<1>6. Program_at'
  BY <1>1, <1>3 DEF Program_at, DropAt, RepairAt, ActivateAt
<1>7. Modes'
  BY <1>1, <1>2, <1>3 DEF IInv, Modes, Running
<1>8. Sound(Held(disk, "action"), Held(disk, "completion"), accepted, resolved)'
  BY DEF IInv, Kind
<1> QED
  BY <1>4, <1>5, <1>6, <1>7, <1>8 DEF IInv

\* One primitive of a recovery.
LEMMA RecoveryStep ==
  ASSUME IInv, run.prog \in {"drop", "repair", "activate"},
         SameQueue(disk, disk', run.kind), UNCHANGED <<faults, losses>>,
         \/ StepOrEnd /\ (IsLast => Clean(disk'[run.kind]))
                      /\ (StepOn /\ ~IsLast => Program_at')
         \/ UNCHANGED <<mode, run, reply, accepted, resolved>> /\ Program_at'
  PROVE  IInv'
<1>1. mode = "booting" /\ Running /\ run.kind \in Kind
  BY DEF IInv, Modes, RunTypes, Running
<1>2. /\ Files(disk)' /\ \A l \in Kind : Held(disk', l) = Held(disk, l)
      /\ \A l \in Kind : l # run.kind => disk'[l] = disk[l]
  BY DEF SameQueue
<1>3. accepted' = accepted /\ resolved' = resolved /\ run.prog \in Recovery
  BY DEF StepOrEnd, StepOn, EndOfProgram, Recovery, Undo
<1>4. Sound(Held(disk, "action"), Held(disk, "completion"), accepted, resolved)'
  BY <1>2, <1>3 DEF IInv, Kind
<1>5. HistoryTypes' /\ History'
  BY <1>3 DEF IInv, HistoryTypes, History
<1>6. CASE StepOrEnd /\ IsLast /\ Clean(disk'[run.kind]) /\ run.kind = "action"
  <2>1. BootStep(disk', "completion") /\ UNCHANGED reply
    BY <1>3, <1>6 DEF StepOrEnd, EndOfProgram, Undo
  <2> QED
    BY <1>2, <1>3, <1>6, <2>1, BootStepOK DEF Kind
<1>7. CASE StepOrEnd /\ IsLast /\ Clean(disk'[run.kind]) /\ run.kind = "completion"
  <2>1. /\ mode' = IF ScanOk(disk') THEN "ready" ELSE "failed"
        /\ run' = Idle /\ UNCHANGED reply
    BY <1>3, <1>7 DEF StepOrEnd, EndOfProgram, Undo
  <2>2. \A k \in Kind : Clean(disk'[k])
    BY <1>1, <1>2, <1>7 DEF IInv, Modes, Kind
  <2>3. \A k \in Kind : NoSwap(disk'[k]) /\ Readable(disk'[k]["current"])
    BY <2>2 DEF Clean
  <2>4. ScanOk(disk')
    BY <1>2, <1>4, <2>3, ScanIsOk
  <2>5. mode' = "ready" /\ run'.prog = "idle"
    BY <2>1, <2>4 DEF Idle
  <2>6. \A k \in Kind : ~Torn(disk'[k]["current"])
    BY <2>3 DEF Readable, Valid, Torn
  <2>7. RunTypes'
    BY <2>1, <2>5 DEF IInv, RunTypes, Running, Idle, ProgramName, Kind
  <2>8. Modes'
    BY <2>1, <2>3, <2>5, <2>6 DEF IInv, Modes, Running
  <2>9. Program_at'
    BY <2>5 DEF Program_at
  <2> QED
    BY <1>2, <1>4, <1>5, <2>7, <2>8, <2>9 DEF IInv
<1>8. CASE /\ Program_at'
           /\ \/ StepOrEnd /\ ~IsLast
              \/ UNCHANGED <<mode, run, reply, accepted, resolved>>
  <2>1. /\ run' = run \/ (~IsLast /\ run' = [run EXCEPT !.at = @ + 1])
        /\ UNCHANGED <<mode, reply>> /\ Program_at'
    BY <1>8 DEF StepOrEnd, StepOn
  <2>2. run \in [prog : ProgramName, kind : Kind, at : Nat \ {0}, arg : Action \cup {None}]
    BY DEF IInv, RunTypes
  <2>3. run'.prog = run.prog /\ run'.kind = run.kind /\ run'.at \in {run.at, run.at + 1}
    BY <2>1, <2>2
  <2>4. run' \in [prog : ProgramName, kind : Kind, at : Nat \ {0}, arg : Action \cup {None}]
    BY <2>1, <2>2
  <2>5. run'.at \in DOMAIN Program(run.prog, run.kind)
    <3>1. /\ run.at <= Len(Program(run.prog, run.kind)) /\ run.at \in Nat \ {0}
          /\ DOMAIN Program(run.prog, run.kind) = 1 .. Len(Program(run.prog, run.kind))
      BY <1>1, AtEnd DEF IInv
    <3>2. Len(Program(run.prog, run.kind)) \in Nat
      BY DropText, RepairText, ActivateText
    <3> QED
      BY <2>1, <2>3, <3>1, <3>2 DEF IsLast
  <2>6. RunTypes'
    BY <2>1, <2>3, <2>4, <2>5 DEF IInv, RunTypes
  <2>7. Modes'
    BY <1>1, <1>2, <2>1, <2>3 DEF IInv, Modes, Running, Kind
  <2> QED
    BY <1>2, <1>4, <1>5, <2>1, <2>6, <2>7 DEF IInv
<1>9. StepOrEnd /\ ~IsLast => StepOn
  BY DEF StepOrEnd
<1> QED
  BY <1>1, <1>6, <1>7, <1>8, <1>9 DEF Kind

LEMMA NextAt ==
  ASSUME IInv, StepOn
  PROVE  /\ run'.prog = run.prog /\ run'.kind = run.kind
         /\ run'.at = run.at + 1 /\ run'.arg = run.arg
  BY DEF IInv, RunTypes, StepOn

LEMMA DropExec ==
  ASSUME IInv, Execute, run.prog = "drop"
  PROVE  SameQueue(disk, disk', run.kind) /\ IInv'
<1> PICK k : k = run.kind
  OBVIOUS
<1> DEFINE j == disk[k]
<1>1. /\ Running /\ k \in Kind /\ Typed(disk) /\ Files(disk) /\ Shape(j) /\ DropAt(j)
      /\ run.at \in 1 .. 2
      /\ \A s \in Slot : j[s].exists \/ j[s] = Absent
      /\ \A s \in Slot : Len(j[s].frames) <= Capacity
  BY DEF IInv, RunTypes, Running, Files, Typed, Program_at
<1>2. "current" \in Slot /\ "fresh" \in Slot /\ "old" \in Slot /\ ~Absent.exists
  BY NoFrames DEF Slot
<1>3. IsLast <=> run.at = 2
  BY DropText DEF IsLast
<1>4. CASE run.at = 1
  <2>1. Current = Remove(k, "fresh")
    BY <1>4, DropText DEF Current
  <2>2. /\ Typed(disk') /\ disk'[k]["fresh"] = Absent
        /\ \A l \in Kind, t \in Slot : l # k \/ t # "fresh" => disk'[l][t] = disk[l][t]
        /\ StepOrEnd /\ UNCHANGED <<faults, losses>>
    BY <1>1, <1>2, <2>1, RemoveStep
  <2>3. disk'[k]["current"] = j["current"] /\ disk'[k]["old"] = j["old"]
    BY <1>1, <1>2, <2>2
  <2>4. Shape(disk'[k]) /\ ~Aside(disk'[k])
    BY <1>1, <1>2, <2>2, <2>3 DEF Shape, NoSwap, Aside, Replaced, DropAt, Valid
  <2>5. Held(disk', k) = Held(disk, k)
    BY <1>1, <1>2, <2>2, <2>3 DEF Held, DropAt, Shape, NoSwap, Aside, Replaced, Valid
  <2>6. SameQueue(disk, disk', k)
    BY <1>1, <2>2, <2>4, <2>5, SameQueueOK
  <2>7. StepOn => Program_at'
    <3> SUFFICES ASSUME StepOn PROVE Program_at'
      OBVIOUS
    <3>1. run'.prog = "drop" /\ run'.kind = k /\ run'.at = 2
      BY <1>4, NextAt
    <3>2. ~Torn(disk'[k]["current"]) /\ ~disk'[k]["fresh"].exists
      BY <1>1, <1>2, <2>2, <2>3 DEF DropAt
    <3> QED
      BY <2>4, <3>1, <3>2 DEF Program_at, DropAt
  <2> QED
    BY <1>3, <1>4, <2>2, <2>6, <2>7, RecoveryStep
<1>5. CASE run.at = 2
  <2>1. Current = Remove(k, "old")
    BY <1>5, DropText DEF Current
  <2>2. /\ Typed(disk') /\ disk'[k]["old"] = Absent
        /\ \A l \in Kind, t \in Slot : l # k \/ t # "old" => disk'[l][t] = disk[l][t]
        /\ StepOrEnd /\ UNCHANGED <<faults, losses>>
    BY <1>1, <1>2, <2>1, RemoveStep
  <2>3. disk'[k]["current"] = j["current"] /\ disk'[k]["fresh"] = j["fresh"]
    BY <1>1, <1>2, <2>2
  <2>4. ~j["fresh"].exists /\ ~Torn(j["current"])
    BY <1>1, <1>5 DEF DropAt
  <2>5. NoSwap(disk'[k]) /\ Clean(disk'[k])
    BY <1>1, <1>2, <2>2, <2>3, <2>4 DEF Clean, NoSwap, Readable, Valid, Torn
  <2>6. SameQueue(disk, disk', k)
    BY <1>1, <2>2, <2>3, <2>5, SameQueueOK DEF Shape, Held
  <2> QED
    BY <1>3, <1>5, <2>2, <2>5, <2>6, RecoveryStep
<1> QED
  BY <1>1, <1>4, <1>5

LEMMA ActivateExec ==
  ASSUME IInv, Execute, run.prog = "activate"
  PROVE  SameQueue(disk, disk', run.kind) /\ IInv'
<1> PICK k : k = run.kind
  OBVIOUS
<1> DEFINE j == disk[k]
<1>1. /\ Running /\ k \in Kind /\ Typed(disk) /\ Files(disk) /\ ActivateAt(j)
      /\ run.at \in 1 .. 4
      /\ \A s \in Slot : j[s].exists \/ j[s] = Absent
  BY DEF IInv, RunTypes, Running, Files, Typed, Program_at
<1>2. /\ "current" \in Slot /\ "fresh" \in Slot /\ "old" \in Slot
      /\ "fresh" # "current" /\ ~Absent.exists
  BY NoFrames DEF Slot
<1>3. IsLast <=> run.at = 4
  BY ActivateText DEF IsLast
<1>4. CASE run.at = 1
  <2>1. Current = Remove(k, "current")
    BY <1>4, ActivateText DEF Current
  <2>2. /\ Typed(disk') /\ disk'[k]["current"] = Absent
        /\ \A l \in Kind, t \in Slot : l # k \/ t # "current" => disk'[l][t] = disk[l][t]
        /\ StepOrEnd /\ UNCHANGED <<faults, losses>>
    BY <1>1, <1>2, <2>1, RemoveStep
  <2>3. disk'[k]["fresh"] = j["fresh"] /\ disk'[k]["old"] = j["old"]
    BY <1>1, <1>2, <2>2
  <2>4. Aside(j)
    BY <1>1, <1>4 DEF ActivateAt
  <2>5. Aside(disk'[k]) /\ Held(disk', k) = Held(disk, k)
    BY <1>2, <2>2, <2>3, <2>4 DEF Aside, Held
  <2>6. SameQueue(disk, disk', k)
    BY <1>1, <2>2, <2>5, SameQueueOK DEF Shape
  <2>7. StepOn => Program_at'
    BY <1>4, <2>5, NextAt DEF Program_at, ActivateAt
  <2> QED
    BY <1>3, <1>4, <2>2, <2>6, <2>7, RecoveryStep
<1>5. CASE run.at = 2
  <2>1. Current = Rename(k, "fresh", "current", "giveUp")
    BY <1>5, ActivateText DEF Current
  <2>2. /\ Typed(disk') /\ disk'[k]["current"] = j["fresh"] /\ disk'[k]["fresh"] = Absent
        /\ \A l \in Kind, t \in Slot :
             l # k \/ t \notin {"fresh", "current"} => disk'[l][t] = disk[l][t]
        /\ StepOrEnd /\ UNCHANGED <<faults, losses>>
    BY <1>1, <1>2, <2>1, RenameStep
  <2>3. disk'[k]["old"] = j["old"]
    BY <1>1, <1>2, <2>2
  <2>4. Aside(j)
    BY <1>1, <1>5 DEF ActivateAt
  <2>5. Replaced(disk'[k]) /\ Held(disk', k) = Held(disk, k)
    BY <1>2, <2>2, <2>3, <2>4 DEF Aside, Replaced, Held, Valid
  <2>6. SameQueue(disk, disk', k)
    BY <1>1, <2>2, <2>5, SameQueueOK DEF Shape
  <2>7. StepOn => Program_at'
    BY <1>5, <2>5, NextAt DEF Program_at, ActivateAt
  <2> QED
    BY <1>3, <1>5, <2>2, <2>6, <2>7, RecoveryStep
<1>6. CASE run.at = 3
  <2>1. Current = Verify(k, "current", "giveUp")
    BY <1>6, ActivateText DEF Current
  <2>2. disk' = disk /\ StepOrEnd /\ UNCHANGED <<faults, losses>>
    BY <2>1, VerifyStep
  <2>3. Replaced(disk'[k])
    BY <1>1, <1>6, <2>2 DEF ActivateAt
  <2>4. SameQueue(disk, disk', k)
    BY <1>1, <2>2 DEF SameQueue
  <2>5. StepOn => Program_at'
    BY <1>6, <2>3, NextAt DEF Program_at, ActivateAt
  <2> QED
    BY <1>3, <1>6, <2>2, <2>4, <2>5, RecoveryStep
<1>7. CASE run.at = 4
  <2>1. Current = Discard(k)
    BY <1>7, ActivateText DEF Current
  <2>2. /\ Typed(disk') /\ disk'[k]["old"] = Absent
        /\ \A l \in Kind, t \in Slot : l # k \/ t # "old" => disk'[l][t] = disk[l][t]
        /\ StepOrEnd /\ UNCHANGED <<faults, losses>>
    BY <1>1, <1>2, <2>1, RemoveStep
  <2>3. disk'[k]["current"] = j["current"] /\ disk'[k]["fresh"] = j["fresh"]
    BY <1>1, <1>2, <2>2
  <2>4. Replaced(j)
    BY <1>1, <1>7 DEF ActivateAt
  <2>5. Clean(disk'[k]) /\ NoSwap(disk'[k]) /\ Held(disk', k) = Held(disk, k)
    BY <1>2, <2>2, <2>3, <2>4 DEF Clean, Replaced, Held, Valid, NoSwap, Readable
  <2>6. SameQueue(disk, disk', k)
    BY <1>1, <2>2, <2>5, SameQueueOK DEF Shape
  <2> QED
    BY <1>3, <1>7, <2>2, <2>5, <2>6, RecoveryStep
<1> QED
  BY <1>1, <1>4, <1>5, <1>6, <1>7

\* A copy of src into the fresh file, n frames of it written.
LEMMA CopyOn ==
  ASSUME Execute, Typed(disk), NEW k \in Kind, NEW from, Current = Copy(k, from),
         NEW src \in Seq(Action), src = IF run.prog = "compact" THEN Pending ELSE disk[k][from].frames,
         NEW f \in Seq(Action), f = disk[k]["fresh"].frames,
         Len(f) <= Len(src), Len(src) <= Capacity, disk[k]["fresh"].exists
  PROVE  /\ UNCHANGED <<faults, losses>>
         /\ \/ Len(f) = Len(src) /\ disk' = disk /\ StepOrEnd
            \/ /\ Len(f) < Len(src) /\ Typed(disk')
               /\ disk'[k]["fresh"].exists /\ disk'[k]["fresh"].torn = disk[k]["fresh"].torn
               /\ disk'[k]["fresh"].frames = Append(f, src[Len(f) + 1])
               /\ \A l \in Kind, t \in Slot : l # k \/ t # "fresh" => disk'[l][t] = disk[l][t]
               /\ UNCHANGED <<mode, run, reply, accepted, resolved>>
<1> DEFINE r == Rest(src, Len(f))
           g == [disk[k]["fresh"] EXCEPT !.frames = Append(@, Head(r))]
<1>1. /\ UNCHANGED <<faults, losses>>
      /\ \/ r = <<>> /\ disk' = disk /\ StepOrEnd
         \/ /\ r # <<>> /\ disk' = Written(disk, k, "fresh", g)
            /\ UNCHANGED <<mode, run, reply, accepted, resolved>>
  BY CopyStep
<1>2. (r = <<>> <=> Len(f) = Len(src)) /\ (Len(f) < Len(src) => Head(r) = src[Len(f) + 1])
  <2>1. PICK n : n = Len(f)
    OBVIOUS
  <2>2. n \in 0 .. Len(src)
    BY <2>1
  <2>3. (Rest(src, n) = <<>> <=> n = Len(src)) /\ (n < Len(src) => Head(Rest(src, n)) = src[n + 1])
    BY <2>2, RestOK
  <2> QED
    BY <2>1, <2>3
<1>3. CASE r = <<>>
  BY <1>1, <1>2, <1>3
<1>4. CASE r # <<>>
  <2>1. Len(f) < Len(src) /\ Head(r) = src[Len(f) + 1]
    BY <1>2, <1>4
  <2>2. src[Len(f) + 1] \in Action
    <3>1. Len(f) + 1 \in 1 .. Len(src)
      BY <2>1
    <3> QED
      BY <3>1, FramesOf
  <2>3. disk[k]["fresh"] \in Journal
    BY DEF Typed, Slot
  <2>4. g \in Journal /\ g.exists /\ g.torn = disk[k]["fresh"].torn
        /\ g.frames = Append(f, src[Len(f) + 1])
    <3>1. PICK x : x = Append(f, src[Len(f) + 1])
      OBVIOUS
    <3>2. x \in Seq(Action)
      BY <2>2, <3>1
    <3>3. g = [disk[k]["fresh"] EXCEPT !.frames = x]
      BY <2>1, <3>1
    <3> HIDE DEF g
    <3>4. g \in Journal /\ g.exists = disk[k]["fresh"].exists
          /\ g.torn = disk[k]["fresh"].torn /\ g.frames = x
      BY <2>3, <3>2, <3>3 DEF Journal
    <3> QED
      BY <3>1, <3>4
  <2>5. Len(g.frames) <= Capacity
    <3>1. Len(Append(f, src[Len(f) + 1])) = Len(f) + 1
      BY <2>2
    <3>2. Len(f) + 1 <= Len(src)
      BY <2>1
    <3> QED
      BY <2>4, <3>1, <3>2, OutboxAssumption
  <2>6. disk' = Written(disk, k, "fresh", g) /\ "fresh" \in Slot
    BY <1>1, <1>4 DEF Slot
  <2> HIDE DEF g
  <2>7. /\ Typed(disk') /\ disk'[k]["fresh"] = g
        /\ \A l \in Kind, t \in Slot : l # k \/ t # "fresh" => disk'[l][t] = disk[l][t]
    BY <2>4, <2>5, <2>6, PutOK
  <2> QED
    BY <1>1, <1>4, <2>1, <2>4, <2>7
<1> QED
  BY <1>3, <1>4

LEMMA SameFrames ==
  ASSUME NEW s \in Seq(Action), NEW t \in Seq(Action), Len(s) = Len(t),
         \A i \in 1 .. Len(s) : s[i] = t[i]
  PROVE  s = t
  OBVIOUS

LEMMA OneMore ==
  ASSUME NEW s \in Seq(Action), NEW f \in Seq(Action), Len(f) < Len(s),
         NEW m \in Nat, \A i \in 1 .. Len(f) : f[i] = s[m + i], m + Len(f) < Len(s),
         NEW g, g = Append(f, s[m + Len(f) + 1])
  PROVE  /\ g \in Seq(Action) /\ Len(g) = Len(f) + 1
         /\ \A i \in 1 .. Len(g) : g[i] = s[m + i]
<1>1. s[m + Len(f) + 1] \in Action
  OBVIOUS
<1>2. g \in Seq(Action) /\ Len(g) = Len(f) + 1
  BY <1>1
<1>3. g[Len(f) + 1] = s[m + Len(f) + 1] /\ \A i \in 1 .. Len(f) : g[i] = f[i]
  BY <1>1
<1>4. \A i \in 1 .. Len(g) : i = Len(f) + 1 \/ i \in 1 .. Len(f)
  BY <1>2
<1> QED
  BY <1>2, <1>3, <1>4

LEMMA RepairExec ==
  ASSUME IInv, Execute, run.prog = "repair"
  PROVE  SameQueue(disk, disk', run.kind) /\ IInv'
<1> PICK k : k = run.kind
  OBVIOUS
<1> DEFINE j == disk[k]
<1>1. /\ Running /\ k \in Kind /\ Typed(disk) /\ Files(disk) /\ RepairAt(j)
      /\ run.at \in 1 .. 9
      /\ \A s \in Slot : j[s].exists \/ j[s] = Absent
      /\ \A s \in Slot : Len(j[s].frames) <= Capacity /\ j[s].frames \in Seq(Action)
  BY DEF IInv, RunTypes, Running, Files, Typed, Program_at, Journal
<1>2. /\ "current" \in Slot /\ "fresh" \in Slot /\ "old" \in Slot
      /\ "fresh" # "current" /\ "old" # "current" /\ ~Absent.exists
      /\ Empty.exists /\ Empty.frames = <<>> /\ ~Empty.torn /\ Len(<<>>) = 0
  BY NoFrames DEF Slot
<1>3. IsLast <=> run.at = 9
  BY RepairText DEF IsLast
<1>4. CASE run.at \in 1 .. 2
  <2>1. PICK s \in {"fresh", "old"} : Current = Remove(k, s)
    BY <1>4, RepairText DEF Current
  <2>2. /\ Typed(disk') /\ disk'[k][s] = Absent
        /\ \A l \in Kind, t \in Slot : l # k \/ t # s => disk'[l][t] = disk[l][t]
        /\ StepOrEnd /\ UNCHANGED <<faults, losses>>
    BY <1>1, <1>2, <2>1, RemoveStep
  <2>3. disk'[k]["current"] = j["current"] /\ (disk'[k]["old"] = j["old"] \/ disk'[k]["old"] = Absent)
    BY <1>1, <1>2, <2>1, <2>2
  <2>4. NoSwap(j) /\ Torn(j["current"])
    BY <1>1, <1>4 DEF RepairAt
  <2>5. NoSwap(disk'[k]) /\ Torn(disk'[k]["current"]) /\ Held(disk', k) = Held(disk, k)
    BY <1>2, <2>3, <2>4 DEF NoSwap, Torn, Held
  <2>6. SameQueue(disk, disk', k)
    BY <1>1, <2>1, <2>2, <2>5, SameQueueOK DEF Shape
  <2>7. StepOn => Program_at'
    BY <1>4, <2>5, NextAt DEF Program_at, RepairAt
  <2> QED
    BY <1>3, <1>4, <2>2, <2>6, <2>7, RecoveryStep
<1>5. CASE run.at = 3
  <2>1. Current = Create(k, "fresh")
    BY <1>5, RepairText DEF Current
  <2>2. /\ Typed(disk') /\ disk'[k]["fresh"] = Empty
        /\ \A l \in Kind, t \in Slot : l # k \/ t # "fresh" => disk'[l][t] = disk[l][t]
        /\ StepOrEnd /\ UNCHANGED <<faults, losses>>
    BY <1>1, <1>2, <2>1, CreateStep
  <2>3. disk'[k]["current"] = j["current"] /\ disk'[k]["old"] = j["old"]
    BY <1>1, <1>2, <2>2
  <2>4. NoSwap(j) /\ Torn(j["current"])
    BY <1>1, <1>5 DEF RepairAt
  <2>5. NoSwap(disk'[k]) /\ Torn(disk'[k]["current"]) /\ Held(disk', k) = Held(disk, k)
    BY <1>2, <2>3, <2>4 DEF NoSwap, Torn, Held
  <2>6. Valid(disk'[k]["fresh"])
    BY <1>2, <2>2, OutboxAssumption DEF Valid
  <2>7. SameQueue(disk, disk', k)
    BY <1>1, <2>2, <2>5, SameQueueOK DEF Shape
  <2>8. Len(disk'[k]["fresh"].frames) = 0 /\ 0 <= Len(disk'[k]["current"].frames)
    BY <1>1, <1>2, <2>2, <2>3
  <2>9. StepOn => Program_at'
    BY <1>5, <2>5, <2>6, <2>8, NextAt DEF Program_at, RepairAt
  <2> QED
    BY <1>3, <1>5, <2>2, <2>7, <2>9, RecoveryStep
<1>6. CASE run.at = 4
  <2> DEFINE src == j["current"].frames
             f == j["fresh"].frames
  <2>1. Current = Copy(k, "current")
    BY <1>6, RepairText DEF Current
  <2>2. /\ NoSwap(j) /\ Torn(j["current"]) /\ Valid(j["fresh"])
        /\ Len(f) <= Len(src) /\ \A i \in 1 .. Len(f) : f[i] = src[i]
    BY <1>1, <1>6 DEF RepairAt
  <2>3. src \in Seq(Action) /\ f \in Seq(Action) /\ Len(src) <= Capacity /\ j["fresh"].exists
    BY <1>1, <1>2, <2>2 DEF Valid
  <2>4. /\ UNCHANGED <<faults, losses>>
        /\ \/ Len(f) = Len(src) /\ disk' = disk /\ StepOrEnd
           \/ /\ Len(f) < Len(src) /\ Typed(disk')
              /\ disk'[k]["fresh"].exists /\ disk'[k]["fresh"].torn = j["fresh"].torn
              /\ disk'[k]["fresh"].frames = Append(f, src[Len(f) + 1])
              /\ \A l \in Kind, t \in Slot : l # k \/ t # "fresh" => disk'[l][t] = disk[l][t]
              /\ UNCHANGED <<mode, run, reply, accepted, resolved>>
    BY <1>1, <2>1, <2>2, <2>3, CopyOn
  <2>5. CASE Len(f) = Len(src) /\ disk' = disk /\ StepOrEnd
    <3>1. f = src
      BY <2>2, <2>3, <2>5, SameFrames
    <3>2. SameQueue(disk, disk', k)
      BY <1>1, <2>5 DEF SameQueue
    <3>3. StepOn => Program_at'
      BY <1>6, <2>2, <2>5, <3>1, NextAt DEF Program_at, RepairAt
    <3> QED
      BY <1>3, <1>6, <2>4, <2>5, <3>2, <3>3, RecoveryStep
  <2>6. CASE /\ Len(f) < Len(src) /\ Typed(disk')
             /\ disk'[k]["fresh"].exists /\ disk'[k]["fresh"].torn = j["fresh"].torn
             /\ disk'[k]["fresh"].frames = Append(f, src[Len(f) + 1])
             /\ \A l \in Kind, t \in Slot : l # k \/ t # "fresh" => disk'[l][t] = disk[l][t]
             /\ UNCHANGED <<mode, run, reply, accepted, resolved>>
    <3>1. disk'[k]["current"] = j["current"] /\ disk'[k]["old"] = j["old"]
      BY <1>1, <1>2, <2>6
    <3>2. NoSwap(disk'[k]) /\ Torn(disk'[k]["current"]) /\ Held(disk', k) = Held(disk, k)
      BY <2>2, <3>1 DEF NoSwap, Torn, Held
    <3>3. SameQueue(disk, disk', k)
      BY <1>1, <2>6, <3>2, SameQueueOK DEF Shape
    <3>4. PICK g : g = Append(f, src[Len(f) + 1])
      OBVIOUS
    <3> HIDE DEF src, f
    <3>5. g \in Seq(Action) /\ Len(g) = Len(f) + 1 /\ \A i \in 1 .. Len(g) : g[i] = src[i]
      <4>1. g = Append(f, src[0 + Len(f) + 1]) /\ 0 + Len(f) < Len(src)
        BY <2>3, <2>6, <3>4
      <4>2. \A i \in 1 .. Len(f) : f[i] = src[0 + i]
        BY <2>2
      <4>3. g \in Seq(Action) /\ Len(g) = Len(f) + 1 /\ \A i \in 1 .. Len(g) : g[i] = src[0 + i]
        BY <2>3, <4>1, <4>2, OneMore
      <4> QED
        BY <4>3
    <3>6. Len(g) <= Len(src) /\ Len(g) <= Capacity
      BY <2>3, <2>6, <3>5, OutboxAssumption
    <3> USE DEF src, f
    <3>7. disk'[k]["fresh"].frames = g /\ disk'[k]["current"].frames = src
      BY <2>6, <3>1, <3>4
    <3>8. Valid(disk'[k]["fresh"])
      BY <2>2, <2>6, <3>6, <3>7 DEF Valid
    <3>9. run' = run
      BY <2>6
    <3>10. RepairAt(disk[k])'
      BY <1>6, <3>2, <3>5, <3>6, <3>7, <3>8, <3>9 DEF RepairAt
    <3>11. Program_at'
      BY <1>1, <3>9, <3>10 DEF Program_at
    <3> QED
      BY <2>4, <2>6, <3>3, <3>11, RecoveryStep
  <2> QED
    BY <2>4, <2>5, <2>6
<1>7. CASE run.at = 5
  <2>1. Current = Verify(k, "fresh", "giveUp")
    BY <1>7, RepairText DEF Current
  <2>2. disk' = disk /\ StepOrEnd /\ UNCHANGED <<faults, losses>>
    BY <2>1, VerifyStep
  <2>3. /\ NoSwap(disk'[k]) /\ Torn(disk'[k]["current"]) /\ Valid(disk'[k]["fresh"])
        /\ disk'[k]["fresh"].frames = disk'[k]["current"].frames
    BY <1>1, <1>7, <2>2 DEF RepairAt
  <2>4. SameQueue(disk, disk', k)
    BY <1>1, <2>2 DEF SameQueue
  <2>5. StepOn => Program_at'
    BY <1>7, <2>3, NextAt DEF Program_at, RepairAt
  <2> QED
    BY <1>3, <1>7, <2>2, <2>4, <2>5, RecoveryStep
<1>8. CASE run.at = 6
  <2>1. Current = Rename(k, "current", "old", "giveUp")
    BY <1>8, RepairText DEF Current
  <2>2. /\ Typed(disk') /\ disk'[k]["old"] = j["current"] /\ disk'[k]["current"] = Absent
        /\ \A l \in Kind, t \in Slot :
             l # k \/ t \notin {"current", "old"} => disk'[l][t] = disk[l][t]
        /\ StepOrEnd /\ UNCHANGED <<faults, losses>>
    BY <1>1, <1>2, <2>1, RenameStep
  <2>3. disk'[k]["fresh"] = j["fresh"]
    BY <1>1, <1>2, <2>2
  <2>4. /\ Torn(j["current"]) /\ Valid(j["fresh"])
        /\ j["fresh"].frames = j["current"].frames
    BY <1>1, <1>8 DEF RepairAt
  <2>5. Aside(disk'[k]) /\ Held(disk', k) = Held(disk, k)
    BY <1>2, <2>2, <2>3, <2>4 DEF Aside, Torn, Held
  <2>6. SameQueue(disk, disk', k)
    BY <1>1, <2>2, <2>5, SameQueueOK DEF Shape
  <2>7. StepOn => Program_at'
    BY <1>8, <2>2, <2>3, <2>4, <2>5, NextAt DEF Program_at, RepairAt
  <2> QED
    BY <1>3, <1>8, <2>2, <2>6, <2>7, RecoveryStep
<1>9. CASE run.at = 7
  <2>1. Current = Rename(k, "fresh", "current", "putBack")
    BY <1>9, RepairText DEF Current
  <2>2. /\ Typed(disk') /\ disk'[k]["current"] = j["fresh"] /\ disk'[k]["fresh"] = Absent
        /\ \A l \in Kind, t \in Slot :
             l # k \/ t \notin {"fresh", "current"} => disk'[l][t] = disk[l][t]
        /\ StepOrEnd /\ UNCHANGED <<faults, losses>>
    BY <1>1, <1>2, <2>1, RenameStep
  <2>3. disk'[k]["old"] = j["old"]
    BY <1>1, <1>2, <2>2
  <2>4. Aside(j)
    BY <1>1, <1>9 DEF RepairAt
  <2>5. Replaced(disk'[k]) /\ Held(disk', k) = Held(disk, k)
    BY <1>2, <2>2, <2>3, <2>4 DEF Aside, Replaced, Held, Valid
  <2>6. SameQueue(disk, disk', k)
    BY <1>1, <2>2, <2>5, SameQueueOK DEF Shape
  <2>7. StepOn => Program_at'
    BY <1>9, <2>5, NextAt DEF Program_at, RepairAt
  <2> QED
    BY <1>3, <1>9, <2>2, <2>6, <2>7, RecoveryStep
<1>10. CASE run.at = 8
  <2>1. Current = Verify(k, "current", "swapBack")
    BY <1>10, RepairText DEF Current
  <2>2. disk' = disk /\ StepOrEnd /\ UNCHANGED <<faults, losses>>
    BY <2>1, VerifyStep
  <2>3. Replaced(disk'[k])
    BY <1>1, <1>10, <2>2 DEF RepairAt
  <2>4. SameQueue(disk, disk', k)
    BY <1>1, <2>2 DEF SameQueue
  <2>5. StepOn => Program_at'
    BY <1>10, <2>3, NextAt DEF Program_at, RepairAt
  <2> QED
    BY <1>3, <1>10, <2>2, <2>4, <2>5, RecoveryStep
<1>11. CASE run.at = 9
  <2>1. Current = Discard(k)
    BY <1>11, RepairText DEF Current
  <2>2. /\ Typed(disk') /\ disk'[k]["old"] = Absent
        /\ \A l \in Kind, t \in Slot : l # k \/ t # "old" => disk'[l][t] = disk[l][t]
        /\ StepOrEnd /\ UNCHANGED <<faults, losses>>
    BY <1>1, <1>2, <2>1, RemoveStep
  <2>3. disk'[k]["current"] = j["current"] /\ disk'[k]["fresh"] = j["fresh"]
    BY <1>1, <1>2, <2>2
  <2>4. Replaced(j)
    BY <1>1, <1>11 DEF RepairAt
  <2>5. Clean(disk'[k]) /\ NoSwap(disk'[k]) /\ Held(disk', k) = Held(disk, k)
    BY <1>2, <2>2, <2>3, <2>4 DEF Clean, Replaced, Held, Valid, NoSwap, Readable
  <2>6. SameQueue(disk, disk', k)
    BY <1>1, <2>2, <2>5, SameQueueOK DEF Shape
  <2> QED
    BY <1>3, <1>11, <2>2, <2>5, <2>6, RecoveryStep
<1> QED
  BY <1>1, <1>4, <1>5, <1>6, <1>7, <1>8, <1>9, <1>10, <1>11

-----------------------------------------------------------------------------
(* Power losses and failures.                                              *)

LEMMA OtherJournals ==
  ASSUME NEW d, Typed(d), NEW e, Typed(e), NEW k \in Kind,
         \A l \in Kind, t \in Slot : l # k => e[l][t] = d[l][t]
  PROVE  \A l \in Kind : l # k => e[l] = d[l]
  BY DEF Typed

\* An interrupted append or copy leaves the frames and the swap as they were.
LEMMA TearOK ==
  ASSUME IInv, Running, Writes(Current), Tear(Current)
  PROVE  /\ Files(disk)' /\ \A l \in Kind : Held(disk', l) = Held(disk, l)
         /\ \A l \in Kind : NoSwap(disk[l]) => NoSwap(disk'[l])
         /\ \A l \in Kind : l # Current.kind => disk'[l] = disk[l]
<1> PICK k, s : k = Current.kind /\ s = Current.to
  OBVIOUS
<1> DEFINE g == [disk[k][s] EXCEPT !.exists = TRUE, !.torn = TRUE]
<1>1. /\ run.kind \in Kind
      /\ run.prog \in {"drop", "repair", "activate", "append", "complete", "compact", "putBack"}
  BY AtEnd DEF IInv
<1>2. /\ k \in Kind /\ NoSwap(disk[k])
      /\ \/ s = "current" /\ Readable(disk[k]["current"])
         \/ s = "fresh" /\ disk[k]["current"].exists
  <2>1. Current.do \in {"append", "copy"}
    BY DEF Writes
  <2>2. CASE run.prog = "append" \/ run.prog = "complete"
    <3>1. Current = Instr("append", "action", "current", "current", "giveUp")
          \/ Current = Instr("append", "completion", "current", "current", "giveUp")
      BY <2>2, CallText DEF Current, IInv, Program_at
    <3>2. k \in Kind /\ s = "current"
      BY <3>1 DEF Instr, Kind
    <3>3. \A l \in Kind : NoSwap(disk[l]) /\ Readable(disk[l]["current"])
      BY <2>2 DEF IInv, Program_at, AppendAt, CompleteAt
    <3> QED
      BY <3>2, <3>3
  <2>3. CASE run.prog = "repair"
    <3>1. run.at \in 1 .. 9 /\ RepairAt(disk[run.kind])
      BY <2>3 DEF IInv, Program_at
    <3>2. run.at = 4
      BY <2>1, <2>3, <3>1, RepairText, Fields DEF Current
    <3>3. Current = Copy(run.kind, "current")
      BY <2>3, <3>2, RepairText DEF Current
    <3>4. k = run.kind /\ s = "fresh"
      BY <3>3 DEF Copy, Instr
    <3> QED
      BY <1>1, <3>1, <3>2, <3>4 DEF RepairAt, Torn
  <2>4. CASE run.prog = "compact"
    <3>1. run.at \in 1 .. 17 /\ CompactAt
      BY <2>4 DEF IInv, Program_at
    <3>2. run.at = 3
      BY <2>1, <2>4, <3>1, CompactDo DEF Current
    <3>3. Current = Copy("action", "current")
      BY <2>4, <3>2, CompactText DEF Current
    <3>4. k = "action" /\ s = "fresh"
      BY <3>3 DEF Copy, Instr
    <3> QED
      BY <3>1, <3>2, <3>4 DEF CompactAt, Compacting, Valid, Kind
  <2>5. CASE run.prog = "drop"
    BY <2>1, <2>5, DropText, Fields DEF Current, IInv, Program_at
  <2>6. CASE run.prog = "activate"
    <3>1. run.at \in 1 .. 4
      BY <2>6 DEF IInv, Program_at
    <3> QED
      BY <2>1, <2>6, <3>1, ActivateText, Fields DEF Current
  <2>7. CASE run.prog = "putBack"
    BY <2>1, <2>7, PutBackText, Fields DEF Current, IInv, Program_at
  <2> QED
    BY <1>1, <2>2, <2>3, <2>4, <2>5, <2>6, <2>7
<1>3. Files(disk) /\ Typed(disk) /\ s \in Slot
  BY <1>2 DEF IInv, Files, Slot
<1>4. /\ disk[k][s] \in Journal /\ Len(disk[k][s].frames) <= Capacity
      /\ disk[k]["current"].exists \/ disk[k]["current"] = Absent
      /\ disk[k]["fresh"].exists \/ disk[k]["fresh"] = Absent
  BY <1>2, <1>3 DEF Typed, Slot
<1>5. g \in Journal /\ g.exists /\ g.frames = disk[k][s].frames
  BY <1>4 DEF Journal
<1>6. disk' = Written(disk, k, s, g)
  BY DEF Tear, Put, Written
<1> HIDE DEF g
<1>7. /\ Typed(disk') /\ disk'[k][s] = g
      /\ \A l \in Kind, t \in Slot : l # k \/ t # s => disk'[l][t] = disk[l][t]
  <2>1. Typed(disk) /\ k \in Kind /\ s \in Slot
    BY <1>2, <1>3
  <2>2. g \in Journal /\ Len(g.frames) <= Capacity /\ (g.exists \/ g = Absent)
    BY <1>4, <1>5
  <2> QED
    BY <1>6, <2>1, <2>2, PutOK
<1>8. /\ "current" \in Slot /\ "fresh" \in Slot /\ "old" \in Slot
  BY DEF Slot
<1>9. disk'[k]["old"] = disk[k]["old"] /\ disk'[k]["current"].exists
  BY <1>2, <1>5, <1>7, <1>8
<1>10. NoSwap(disk'[k])
  BY <1>2, <1>9 DEF NoSwap
<1>11. Held(disk', k) = Held(disk, k)
  BY <1>2, <1>4, <1>5, <1>7, <1>8, <1>9 DEF Held, NoSwap
<1>12. SameQueue(disk, disk', k)
  BY <1>2, <1>3, <1>7, <1>10, <1>11, SameQueueOK DEF Shape
<1> QED
  BY <1>10, <1>12 DEF SameQueue

\* The outbox stops with journals that a boot can recover.
LEMMA StopOK ==
  ASSUME IInv, Files(disk)', \A k \in Kind : Held(disk', k) = Held(disk, k),
         run' = Idle, UNCHANGED <<accepted, resolved>>,
         mode' \in {"off", "failed", "ready"},
         mode' = "ready" => \A k \in Kind : NoSwap(disk'[k]),
         faults' \in 0 .. MaxFaults, losses' \in 0 .. MaxPowerLosses,
         reply' \in {"none", "io"}, faults' = 0 => mode' = "off" /\ reply' = "none"
  PROVE  IInv'
<1>1. run'.prog = "idle"
  BY DEF Idle
<1>2. RunTypes'
  BY <1>1 DEF IInv, RunTypes, Running, Idle, ProgramName, Kind
<1>3. HistoryTypes' /\ History'
  <2>1. HistoryTypes'
    BY DEF IInv, HistoryTypes
  <2>2. History'
    BY DEF IInv, History
  <2> QED
    BY <2>1, <2>2
<1>4. Modes'
  BY <1>1 DEF Modes, Running
<1>5. Program_at'
  BY <1>1 DEF Program_at
<1>6. Sound(Held(disk, "action"), Held(disk, "completion"), accepted, resolved)'
  BY DEF IInv, Kind
<1> QED
  BY <1>2, <1>3, <1>4, <1>5, <1>6 DEF IInv

LEMMA PowerLossOK ==
  ASSUME IInv, PowerLoss
  PROVE  IInv' /\ \A k \in Kind : Held(disk', k) = Held(disk, k)
<1>1. Files(disk)' /\ \A k \in Kind : Held(disk', k) = Held(disk, k)
  <2>1. CASE UNCHANGED disk
    BY <2>1 DEF IInv, Held
  <2>2. CASE Running /\ Writes(Current) /\ Tear(Current)
    BY <2>2, TearOK
  <2> QED
    BY <2>1, <2>2 DEF PowerLoss
<1>2. /\ run' = Idle /\ UNCHANGED <<accepted, resolved>> /\ mode' = "off" /\ reply' = "none"
      /\ faults' \in 0 .. MaxFaults /\ losses' \in 0 .. MaxPowerLosses
  BY OutboxAssumption DEF PowerLoss, IInv, HistoryTypes
<1> QED
  BY <1>1, <1>2, StopOK

LEMMA BootOK ==
  ASSUME IInv, Boot
  PROVE  IInv' /\ \A k \in Kind : Held(disk', k) = Held(disk, k)
<1>1. /\ disk' = disk /\ BootStep(disk', "action")
      /\ UNCHANGED <<reply, accepted, resolved, faults, losses>>
  BY DEF Boot
<1>2. Files(disk)' /\ \A k \in Kind : Held(disk', k) = Held(disk, k)
  BY <1>1 DEF IInv, Held
<1> QED
  BY <1>1, <1>2, BootStepOK DEF Kind

\* Putting the old file back restores the journal that a swap had replaced.
LEMMA PutBackExec ==
  ASSUME IInv, Execute, run.prog = "putBack"
  PROVE  IInv' /\ (mode = "booting" => \A k \in Kind : Held(disk', k) = Held(disk, k))
         /\ mode' \notin {"off", "booting"}
<1> PICK k : k = run.kind
  OBVIOUS
<1>1. /\ k \in Kind /\ Typed(disk) /\ Files(disk) /\ mode \in {"booting", "ready"}
      /\ run.at = 1 /\ PutBackAt /\ faults > 0
  BY DEF IInv, RunTypes, Files, Modes, Running, Program_at, PutBackAt
<1>2. "current" \in Slot /\ "old" \in Slot /\ "fresh" \in Slot /\ ~Absent.exists
  BY NoFrames DEF Slot
<1>3. Current = Rename(k, "old", "current", "giveUp") /\ IsLast
  BY <1>1, PutBackText DEF Current, IsLast
<1>4. /\ Typed(disk') /\ disk'[k]["current"] = disk[k]["old"] /\ disk'[k]["old"] = Absent
      /\ \A l \in Kind, t \in Slot :
           l # k \/ t \notin {"old", "current"} => disk'[l][t] = disk[l][t]
      /\ StepOrEnd /\ UNCHANGED <<faults, losses>>
  BY <1>1, <1>2, <1>3, RenameStep
<1>5. /\ mode' = IF mode = "booting" THEN "failed" ELSE mode
      /\ run' = Idle /\ reply' = "io" /\ UNCHANGED <<accepted, resolved>>
  BY <1>3, <1>4 DEF StepOrEnd, EndOfProgram, Recovery, Undo
<1>6. disk[k]["old"].exists
  BY <1>1 DEF PutBackAt, Aside
<1>7. NoSwap(disk'[k]) /\ Held(disk', k) = disk[k]["old"].frames
  BY <1>2, <1>4, <1>6 DEF NoSwap, Held
<1>8. \A l \in Kind : l # k => disk'[l] = disk[l]
  BY <1>1, <1>4, OtherJournals
<1>9. Files(disk)'
  BY <1>1, <1>4, <1>7, <1>8 DEF Files, Shape
<1>10. mode = "booting" => \A l \in Kind : Held(disk', l) = Held(disk, l)
  BY <1>1, <1>7, <1>8 DEF PutBackAt, Aside, Held
<1>11. faults' \in 0 .. MaxFaults /\ losses' \in 0 .. MaxPowerLosses /\ faults' # 0
  BY <1>1, <1>4 DEF IInv, HistoryTypes
<1>12. CASE mode = "booting"
  BY <1>5, <1>9, <1>10, <1>11, <1>12, StopOK
<1>13. CASE mode = "ready"
  <2>1. run'.prog = "idle" /\ mode' = "ready"
    BY <1>5, <1>13 DEF Idle
  <2>2. \A l \in Kind : NoSwap(disk'[l])
    BY <1>1, <1>7, <1>8, <1>13 DEF PutBackAt
  <2>3. /\ Held(disk', "action") = IF k = "action" THEN disk[k]["old"].frames ELSE Held(disk, "action")
        /\ Held(disk', "completion") = IF k = "completion" THEN disk[k]["old"].frames
                                       ELSE Held(disk, "completion")
    BY <1>7, <1>8 DEF Held, Kind
  <2>4. Sound(Held(disk, "action"), Held(disk, "completion"), accepted, resolved)'
    <3>1. /\ k = "action" => Sound(disk[k]["old"].frames, Held(disk, "completion"), accepted, resolved)
          /\ k = "completion" => Sound(Held(disk, "action"), disk[k]["old"].frames, accepted, resolved)
      BY <1>1, <1>13 DEF PutBackAt
    <3> QED
      BY <1>1, <1>5, <2>3, <3>1 DEF Kind
  <2>5. RunTypes'
    BY <1>5, <2>1 DEF IInv, RunTypes, Running, Idle, ProgramName, Kind
  <2>6. HistoryTypes' /\ History'
    BY <1>4, <1>5 DEF IInv, HistoryTypes, History
  <2>7. Modes'
    BY <1>11, <2>1, <2>2 DEF Modes, Running
  <2>8. Program_at'
    BY <2>1 DEF Program_at
  <2> QED
    BY <1>9, <1>13, <2>1, <2>4, <2>5, <2>6, <2>7, <2>8 DEF IInv
<1> QED
  BY <1>1, <1>5, <1>10, <1>12, <1>13

-----------------------------------------------------------------------------
(* The calls.                                                              *)

\* What a call finds.
LEMMA CallFinds ==
  ASSUME IInv, Callable
  PROVE  /\ mode = "ready" /\ ~Running /\ \A k \in Kind : NoSwap(disk[k])
         /\ Stored \in Seq(Action) /\ Completed \in Seq(Action)
         /\ Sound(Stored, Completed, accepted, resolved)
         /\ Len(Stored) <= Capacity /\ accepted \in Seq(Action)
         /\ ScanOk(disk) => \A k \in Kind : Readable(disk[k]["current"])
         /\ faults = 0 => ScanOk(disk)
<1>1. mode = "ready" /\ ~Running /\ \A k \in Kind : NoSwap(disk[k])
  BY DEF Callable, IInv, Modes
<1>2. Typed(disk) /\ Files(disk)
  BY DEF IInv, Files
<1>3. Stored \in Seq(Action) /\ Completed \in Seq(Action) /\ Len(Stored) <= Capacity
  BY <1>2 DEF Stored, Completed, Typed, Journal, Kind, Slot
<1>4. Held(disk, "action") = Stored /\ Held(disk, "completion") = Completed
  BY <1>1, <1>2, HeldIsCurrent DEF Stored, Completed, Kind
<1>5. Sound(Stored, Completed, accepted, resolved) /\ accepted \in Seq(Action)
  BY <1>4 DEF IInv, HistoryTypes
<1>6. ScanOk(disk) => \A k \in Kind : Readable(disk[k]["current"])
  BY DEF ScanOk, Kind
<1>7. ASSUME faults = 0 PROVE ScanOk(disk)
  <2>1. \A k \in Kind : ~Torn(disk[k]["current"])
    BY <1>1, <1>7 DEF IInv, Modes
  <2>2. \A k \in Kind : Len(disk[k]["current"].frames) <= Capacity
    BY <1>2 DEF Typed, Slot
  <2>3. \A k \in Kind : Readable(disk[k]["current"])
    BY <2>1, <2>2 DEF Readable, Torn, Valid
  <2>4. Sound(Held(disk, "action"), Held(disk, "completion"), accepted, resolved)
    BY DEF IInv
  <2> QED
    BY <1>1, <1>2, <2>3, <2>4, ScanIsOk
<1> QED
  BY <1>1, <1>3, <1>5, <1>6, <1>7

\* A step that leaves the program where it was.
LEMMA SameProgram ==
  ASSUME Program_at, UNCHANGED <<disk, mode, run, accepted, resolved, faults>>
  PROVE  Program_at'
<1>1. run.prog = "drop" => DropAt(disk[run.kind])'
  BY DEF Program_at, DropAt
<1>2. run.prog = "repair" => RepairAt(disk[run.kind])'
  BY DEF Program_at, RepairAt
<1>3. run.prog = "activate" => ActivateAt(disk[run.kind])'
  BY DEF Program_at, ActivateAt
<1>4. run.prog = "append" => AppendAt'
  BY DEF Program_at, AppendAt, New, Stored
<1>5. run.prog = "complete" => CompleteAt'
  BY DEF Program_at, CompleteAt, Stored, Completed
<1>6. run.prog = "compact" => CompactAt'
  BY DEF Program_at, CompactAt, New
<1>7. run.prog = "putBack" => PutBackAt'
  BY DEF Program_at, PutBackAt
<1> QED
  BY <1>1, <1>2, <1>3, <1>4, <1>5, <1>6, <1>7 DEF Program_at

LEMMA AnswerOK ==
  ASSUME IInv, NEW r, Answer(r), r \in {"ok", "error", "capacity", "notFound", "invalid"},
         r = "error" => faults # 0
  PROVE  IInv'
<1>1. UNCHANGED <<disk, mode, run, accepted, resolved, faults, losses>> /\ reply' = r
  BY DEF Answer
<1>2. RunTypes'
  BY <1>1 DEF IInv, RunTypes, Running
<1>3. HistoryTypes' /\ History' /\ Files(disk)'
  BY <1>1 DEF IInv, HistoryTypes, History
<1>4. Modes'
  BY <1>1 DEF IInv, Modes, Running
<1>5. Program_at'
  BY <1>1, SameProgram DEF IInv
<1>6. Sound(Held(disk, "action"), Held(disk, "completion"), accepted, resolved)'
  BY <1>1 DEF IInv
<1> QED
  BY <1>2, <1>3, <1>4, <1>5, <1>6 DEF IInv

\* A call starts its program.
LEMMA BeginOK ==
  ASSUME IInv, Callable, NEW name \in {"append", "complete", "compact"}, NEW a \in Action,
         Begin(name, "action", a), Program_at'
  PROVE  IInv'
<1>1. /\ UNCHANGED <<disk, mode, accepted, resolved, faults, losses>> /\ reply' = "none"
      /\ run' = [prog |-> name, kind |-> "action", at |-> 1, arg |-> a]
  BY DEF Begin, Start
<1>2. run'.prog = name /\ run'.kind = "action" /\ run'.at = 1 /\ mode = "ready"
  BY <1>1, CallFinds
<1>3. RunTypes'
  <2>1. 1 \in DOMAIN Program(name, "action")
    BY CallText, CompactText
  <2>2. run' \in [prog : ProgramName, kind : Kind, at : Nat \ {0}, arg : Action \cup {None}]
    BY <1>1 DEF ProgramName, Kind
  <2> QED
    BY <1>1, <1>2, <2>1, <2>2 DEF IInv, RunTypes
<1>4. HistoryTypes' /\ History' /\ Files(disk)'
  BY <1>1 DEF IInv, HistoryTypes, History
<1>5. Modes'
  BY <1>1, <1>2 DEF IInv, Modes, Running
<1>6. Sound(Held(disk, "action"), Held(disk, "completion"), accepted, resolved)'
  BY <1>1 DEF IInv
<1> QED
  BY <1>3, <1>4, <1>5, <1>6 DEF IInv

LEMMA AppendCallOK ==
  ASSUME IInv, NEW a \in Action, AppendCall(a)
  PROVE  IInv' /\ disk' = disk /\ UNCHANGED <<accepted, resolved, mode>>
<1>1. /\ mode = "ready" /\ ~Running /\ \A k \in Kind : NoSwap(disk[k])
      /\ Stored \in Seq(Action) /\ Completed \in Seq(Action)
      /\ Sound(Stored, Completed, accepted, resolved)
      /\ Len(Stored) <= Capacity /\ accepted \in Seq(Action)
      /\ ScanOk(disk) => \A k \in Kind : Readable(disk[k]["current"])
      /\ faults = 0 => ScanOk(disk)
  BY CallFinds DEF AppendCall
<1>2. CASE \E r \in {"ok", "error", "capacity"} : Answer(r) /\ (r = "error" => ~ScanOk(disk))
  <2>1. PICK r \in {"ok", "error", "capacity"} : Answer(r) /\ (r = "error" => ~ScanOk(disk))
    BY <1>2
  <2>2. r = "error" => faults # 0
    BY <1>1, <2>1
  <2> QED
    BY <2>1, <2>2, AnswerOK DEF Answer
<1>3. CASE ScanOk(disk) /\ a \notin Range(Stored)
           /\ \/ Len(Stored) < Capacity /\ Begin("append", "action", a)
              \/ ~(Len(Stored) < Capacity) /\ Completed # <<>> /\ Begin("compact", "action", a)
  <2>1. PICK name : /\ name = IF Len(Stored) < Capacity THEN "append" ELSE "compact"
                    /\ Begin(name, "action", a)
    BY <1>3
  <2>2. /\ UNCHANGED <<disk, mode, accepted, resolved>>
        /\ run'.prog = name /\ run'.kind = "action" /\ run'.at = 1 /\ run'.arg = a
    BY <2>1 DEF Begin, Start
  <2>3. \A i \in 1 .. Len(accepted) : accepted[i] # a
    <3>1. a \notin Range(accepted)
      BY <1>3 DEF AppendCall
    <3> QED
      BY <1>1, <3>1 DEF Range
  <2>4. New'
    BY <2>2, <2>3 DEF New
  <2>5. \A k \in Kind : NoSwap(disk'[k]) /\ Readable(disk'[k]["current"])
    BY <1>1, <1>3, <2>2
  <2>6. CASE Len(Stored) < Capacity
    <3>1. AppendAt'
      BY <2>2, <2>4, <2>5, <2>6 DEF AppendAt, Stored
    <3>2. Program_at'
      BY <2>1, <2>2, <2>6, <3>1 DEF Program_at
    <3> QED
      BY <2>1, <2>2, <2>6, <3>2, BeginOK DEF AppendCall
  <2>7. CASE ~(Len(Stored) < Capacity)
    <3>1. Len(Stored) = Capacity /\ Completed # <<>> /\ Len(Stored) # 0
      BY <1>1, <1>3, <2>7, OutboxAssumption
    <3>2. "action" \in Kind /\ "completion" \in Kind /\ Absent.frames = <<>>
      BY NoFrames DEF Kind
    <3>3. /\ disk["action"]["current"].exists \/ disk["action"]["current"] = Absent
          /\ disk["completion"]["current"].exists \/ disk["completion"]["current"] = Absent
      BY <3>2 DEF IInv, Files, Typed, Slot
    <3>4. disk["action"]["current"].exists /\ disk["completion"]["current"].exists
      BY <3>1, <3>2, <3>3 DEF Stored, Completed
    <3>5. Valid(disk'["action"]["current"]) /\ Valid(disk'["completion"]["current"])
      BY <2>2, <2>5, <3>2, <3>4 DEF Readable
    <3>6. CompactAt'
      BY <2>2, <2>4, <2>5, <3>1, <3>2, <3>5 DEF CompactAt, Compacting, Stored, Completed
    <3>7. Program_at'
      BY <2>1, <2>2, <2>7, <3>6 DEF Program_at
    <3> QED
      BY <2>1, <2>2, <2>7, <3>7, BeginOK DEF AppendCall
  <2> QED
    BY <2>6, <2>7
<1> QED
  BY <1>2, <1>3 DEF AppendCall

LEMMA CompleteCallOK ==
  ASSUME IInv, NEW a \in Action, CompleteCall(a)
  PROVE  IInv' /\ disk' = disk /\ UNCHANGED <<accepted, resolved, mode>>
<1>1. /\ mode = "ready" /\ ~Running /\ \A k \in Kind : NoSwap(disk[k])
      /\ Stored \in Seq(Action) /\ Completed \in Seq(Action)
      /\ Sound(Stored, Completed, accepted, resolved)
      /\ ScanOk(disk) => \A k \in Kind : Readable(disk[k]["current"])
      /\ faults = 0 => ScanOk(disk)
  BY CallFinds DEF CompleteCall
<1>2. CASE \E r \in {"ok", "error", "notFound", "invalid"} :
             Answer(r) /\ (r = "error" => ~ScanOk(disk))
  <2>1. PICK r \in {"ok", "error", "notFound", "invalid"} :
          Answer(r) /\ (r = "error" => ~ScanOk(disk))
    BY <1>2
  <2>2. r = "error" => faults # 0
    BY <1>1, <2>1
  <2> QED
    BY <2>1, <2>2, AnswerOK DEF Answer
<1>3. CASE ScanOk(disk) /\ Pending # <<>> /\ Head(Pending) = a /\ Begin("complete", "action", a)
  <2>1. /\ UNCHANGED <<disk, mode, accepted, resolved>>
        /\ run'.prog = "complete" /\ run'.kind = "action" /\ run'.at = 1 /\ run'.arg = a
    BY <1>3 DEF Begin, Start
  <2>2. PICK n : n = Len(Completed)
    OBVIOUS
  <2>3. n \in 0 .. Len(Stored)
    BY <1>1, <2>2 DEF Sound
  <2>4. (Pending = <<>> <=> n = Len(Stored)) /\ (n < Len(Stored) => Head(Pending) = Stored[n + 1])
    BY <1>1, <2>2, <2>3, RestOK DEF Pending
  <2>5. n < Len(Stored) /\ Stored[n + 1] = a
    BY <1>1, <1>3, <2>3, <2>4
  <2>6. CompleteAt'
    BY <1>1, <1>3, <2>1, <2>2, <2>5 DEF CompleteAt, Stored, Completed
  <2>7. Program_at'
    BY <2>1, <2>6 DEF Program_at
  <2> QED
    BY <1>3, <2>1, <2>7, BeginOK DEF CompleteCall
<1> QED
  BY <1>2, <1>3 DEF CompleteCall

\* A frame is written to the current file of journal k.
LEMMA AppendOn ==
  ASSUME IInv, Execute, run.prog \in {"append", "complete"},
         NEW k \in Kind, k = IF run.prog = "append" THEN "action" ELSE "completion",
         NEW f \in Seq(Action), f = disk[k]["current"].frames, Len(f) < Capacity,
         run.arg \in Action, \A l \in Kind : NoSwap(disk[l])
  PROVE  /\ Files(disk)' /\ \A l \in Kind : NoSwap(disk'[l])
         /\ \A l \in Kind : l # k => disk'[l] = disk[l]
         /\ Valid(disk'[k]["current"]) /\ disk'[k]["current"].frames = Append(f, run.arg)
         /\ EndOfProgram /\ UNCHANGED <<faults, losses>>
<1> DEFINE g == [Empty EXCEPT !.frames = Append(disk[k]["current"].frames, run.arg)]
<1>1. Typed(disk) /\ Files(disk) /\ run.at = 1
  BY DEF IInv, Files, Program_at
<1>2. Current = Instr("append", k, "current", "current", "giveUp") /\ IsLast
  BY <1>1, CallText DEF Current, IsLast
<1>3. /\ disk' = Written(disk, k, "current", g)
      /\ StepOrEnd /\ UNCHANGED <<faults, losses>>
  BY <1>2, AppendStep
<1>4. PICK x : x = Append(f, run.arg)
  OBVIOUS
<1>5. x \in Seq(Action) /\ Len(x) <= Capacity
  BY <1>4, OutboxAssumption
<1>6. g = [Empty EXCEPT !.frames = x]
  BY <1>4
<1> HIDE DEF g
<1>7. g \in Journal /\ g.exists /\ ~g.torn /\ g.frames = x
  BY <1>5, <1>6, NoFrames DEF Journal
<1>8. "current" \in Slot /\ "fresh" \in Slot /\ "old" \in Slot
  BY DEF Slot
<1>9. /\ Typed(disk') /\ disk'[k]["current"] = g
      /\ \A l \in Kind, t \in Slot : l # k \/ t # "current" => disk'[l][t] = disk[l][t]
  <2>1. Typed(disk) /\ disk' = Written(disk, k, "current", g) /\ "current" \in Slot
    BY <1>1, <1>3, <1>8
  <2>2. g \in Journal /\ Len(g.frames) <= Capacity /\ g.exists
    BY <1>5, <1>7
  <2> QED
    BY <2>1, <2>2, PutOK
<1>10. \A l \in Kind : l # k => disk'[l] = disk[l]
  BY <1>1, <1>9, OtherJournals
<1>11. disk'[k]["old"] = disk[k]["old"]
  BY <1>8, <1>9
<1>12. \A l \in Kind : NoSwap(disk'[l])
  BY <1>7, <1>9, <1>10, <1>11 DEF NoSwap
<1>13. Valid(disk'[k]["current"])
  BY <1>5, <1>7, <1>9 DEF Valid
<1> QED
  BY <1>2, <1>3, <1>4, <1>7, <1>9, <1>10, <1>12, <1>13 DEF Files, Shape, StepOrEnd

\* One more stored action, and one more confirmed.
LEMMA SoundAppend ==
  ASSUME NEW a \in Seq(Action), NEW c \in Seq(Action), NEW acc \in Seq(Action), NEW res,
         Sound(a, c, acc, res), NEW x \in Action,
         NEW b, b = Append(a, x), NEW log, log = Append(acc, x)
  PROVE  Sound(b, c, log, res) /\ Len(b) = Len(a) + 1 /\ Len(log) = Len(acc) + 1
<1>1. /\ b \in Seq(Action) /\ Len(b) = Len(a) + 1 /\ b[Len(a) + 1] = x
      /\ \A i \in 1 .. Len(a) : b[i] = a[i]
  OBVIOUS
<1>2. /\ log \in Seq(Action) /\ Len(log) = Len(acc) + 1 /\ log[Len(acc) + 1] = x
      /\ \A i \in 1 .. Len(acc) : log[i] = acc[i]
  OBVIOUS
<1>3. /\ Len(c) <= Len(a) /\ Len(a) <= Len(acc) /\ Len(a) \in Nat /\ Len(c) \in Nat /\ Len(acc) \in Nat
      /\ \A i \in 1 .. Len(a) : a[i] = acc[Len(acc) - Len(a) + i]
      /\ \A i \in 1 .. Len(c) : c[i] = a[i]
      /\ \A i \in 1 .. (Len(acc) - Len(a) + Len(c)) : acc[i] \in res
  BY DEF Sound
<1>4. ASSUME NEW i \in 1 .. Len(b) PROVE b[i] = log[Len(log) - Len(b) + i]
  <2>1. CASE i = Len(a) + 1
    <3>1. Len(log) - Len(b) + i = Len(acc) + 1
      BY <1>1, <1>2, <1>3, <2>1
    <3> QED
      BY <1>1, <1>2, <2>1, <3>1
  <2>2. CASE i # Len(a) + 1
    <3>1. i \in 1 .. Len(a) /\ Len(log) - Len(b) + i = Len(acc) - Len(a) + i
      BY <1>1, <1>2, <1>3, <2>2
    <3>2. Len(acc) - Len(a) + i \in 1 .. Len(acc)
      BY <1>3, <3>1
    <3> QED
      BY <1>1, <1>2, <1>3, <3>1, <3>2
  <2> QED
    BY <2>1, <2>2
<1>5. \A i \in 1 .. Len(c) : c[i] = b[i]
  BY <1>1, <1>3
<1>6. Len(log) - Len(b) + Len(c) = Len(acc) - Len(a) + Len(c)
  BY <1>1, <1>2, <1>3
<1>7. \A i \in 1 .. (Len(acc) - Len(a) + Len(c)) : log[i] \in res
  BY <1>2, <1>3
<1>8. Len(c) <= Len(b) /\ Len(b) <= Len(log)
  BY <1>1, <1>2, <1>3
<1> QED
  BY <1>1, <1>2, <1>4, <1>5, <1>6, <1>7, <1>8 DEF Sound

\* One more completion: the oldest pending action has an outcome.
LEMMA SoundComplete ==
  ASSUME NEW a \in Seq(Action), NEW c \in Seq(Action), NEW acc \in Seq(Action), NEW res,
         Sound(a, c, acc, res), Len(c) < Len(a), NEW x, x = a[Len(c) + 1],
         NEW d, d = Append(c, x)
  PROVE  /\ Sound(a, d, acc, res \cup {x}) /\ Len(d) = Len(c) + 1
         /\ x = acc[Len(acc) - Len(a) + Len(c) + 1]
<1>1. /\ Len(c) <= Len(a) /\ Len(a) <= Len(acc) /\ Len(a) \in Nat /\ Len(c) \in Nat /\ Len(acc) \in Nat
      /\ \A i \in 1 .. Len(a) : a[i] = acc[Len(acc) - Len(a) + i]
      /\ \A i \in 1 .. Len(c) : c[i] = a[i]
      /\ \A i \in 1 .. (Len(acc) - Len(a) + Len(c)) : acc[i] \in res
  BY DEF Sound
<1>2. Len(c) + 1 \in 1 .. Len(a)
  BY <1>1
<1>3. x \in Action /\ x = acc[Len(acc) - Len(a) + (Len(c) + 1)]
  BY <1>1, <1>2
<1>4. /\ Len(d) = Len(c) + 1 /\ d[Len(c) + 1] = x /\ \A i \in 1 .. Len(c) : d[i] = c[i]
  BY <1>3
<1>5. ASSUME NEW i \in 1 .. Len(d) PROVE d[i] = a[i]
  <2>1. i = Len(c) + 1 \/ i \in 1 .. Len(c)
    BY <1>1, <1>4
  <2> QED
    BY <1>1, <1>4, <2>1
<1>6. ASSUME NEW i \in 1 .. (Len(acc) - Len(a) + Len(d)) PROVE acc[i] \in res \cup {x}
  <2>1. PICK m : m = Len(acc) - Len(a) + Len(c)
    OBVIOUS
  <2>2. /\ m \in Nat /\ Len(acc) - Len(a) + Len(d) = m + 1
        /\ Len(acc) - Len(a) + (Len(c) + 1) = m + 1
    BY <1>1, <1>4, <2>1
  <2>3. i = m + 1 \/ i \in 1 .. m
    BY <2>2
  <2>4. x = acc[m + 1] /\ \A h \in 1 .. m : acc[h] \in res
    BY <1>1, <1>3, <2>1, <2>2
  <2> QED
    BY <2>3, <2>4
<1>7. Len(d) <= Len(a) /\ Len(acc) - Len(a) + (Len(c) + 1) = Len(acc) - Len(a) + Len(c) + 1
  BY <1>1, <1>4
<1> QED
  BY <1>1, <1>3, <1>4, <1>5, <1>6, <1>7 DEF Sound

LEMMA AppendExec ==
  ASSUME IInv, Execute, run.prog = "append"
  PROVE  /\ IInv' /\ mode' = "ready" /\ resolved' = resolved
         /\ run.arg \in Action /\ accepted' = Append(accepted, run.arg)
         /\ Held(disk', "action") = Append(Held(disk, "action"), run.arg)
         /\ Held(disk', "completion") = Held(disk, "completion")
<1>1. /\ AppendAt /\ Typed(disk) /\ Running /\ mode = "ready" /\ accepted \in Seq(Action)
      /\ "action" \in Kind /\ "completion" \in Kind
  BY DEF IInv, Program_at, Files, Running, Modes, RunTypes, HistoryTypes, Kind
<1>2. /\ \A k \in Kind : NoSwap(disk[k]) /\ Readable(disk[k]["current"])
      /\ run.arg \in Action /\ \A i \in 1 .. Len(accepted) : accepted[i] # run.arg
      /\ Len(Stored) < Capacity
  BY <1>1 DEF AppendAt, New
<1>3. /\ Held(disk, "action") = Stored /\ Stored \in Seq(Action)
      /\ Held(disk, "completion") = Completed /\ Completed \in Seq(Action)
  BY <1>1, <1>2, HeldIsCurrent DEF Stored, Completed, Typed, Journal, Slot
<1>4. /\ Files(disk)' /\ \A l \in Kind : NoSwap(disk'[l])
      /\ disk'["completion"] = disk["completion"]
      /\ Valid(disk'["action"]["current"])
      /\ disk'["action"]["current"].frames = Append(Stored, run.arg)
      /\ EndOfProgram /\ UNCHANGED <<faults, losses>>
  BY <1>1, <1>2, <1>3, AppendOn DEF Stored
<1>5. /\ accepted' = Append(accepted, run.arg) /\ run' = Idle /\ reply' = "ok"
      /\ UNCHANGED <<mode, resolved>>
  BY <1>4 DEF EndOfProgram, Recovery, Undo
<1>6. /\ Held(disk', "action") = Append(Stored, run.arg)
      /\ Held(disk', "completion") = Completed
  BY <1>1, <1>3, <1>4, HeldIsCurrent DEF Files, Held
<1>7. PICK x, log, b : x = run.arg /\ log = Append(accepted, x) /\ b = Append(Stored, x)
  OBVIOUS
<1>8. /\ Sound(b, Completed, log, resolved) /\ Len(log) = Len(accepted) + 1
  <2>1. Sound(Stored, Completed, accepted, resolved)
    BY <1>3 DEF IInv
  <2>2. Stored \in Seq(Action) /\ Completed \in Seq(Action) /\ accepted \in Seq(Action) /\ x \in Action
    BY <1>1, <1>2, <1>3, <1>7
  <2>3. b = Append(Stored, x) /\ log = Append(accepted, x)
    BY <1>7
  <2>4. Sound(b, Completed, log, resolved)
    BY <2>1, <2>2, <2>3, SoundAppend
  <2>5. Len(log) = Len(accepted) + 1
    BY <2>2, <2>3
  <2> QED
    BY <2>4, <2>5
<1>9. Sound(Held(disk, "action"), Held(disk, "completion"), accepted, resolved)'
  BY <1>5, <1>6, <1>7, <1>8
<1>10. /\ log \in Seq(Action) /\ log[Len(accepted) + 1] = x
       /\ \A i \in 1 .. Len(accepted) : log[i] = accepted[i]
  BY <1>1, <1>2, <1>7
<1>11. History'
  <2>1. /\ \A i, j \in 1 .. Len(accepted) : accepted[i] = accepted[j] => i = j
        /\ \E n \in 0 .. Len(accepted) : resolved = {accepted[i] : i \in 1 .. n}
    BY DEF IInv, History
  <2>2. \A i \in 1 .. Len(log) : i = Len(accepted) + 1 \/ i \in 1 .. Len(accepted)
    BY <1>1, <1>8
  <2>3. \A i, j \in 1 .. Len(log) : log[i] = log[j] => i = j
    BY <1>2, <1>7, <1>10, <2>1, <2>2
  <2>4. PICK n \in 0 .. Len(accepted) : resolved = {accepted[i] : i \in 1 .. n}
    BY <2>1
  <2>5. \A i \in 1 .. n : log[i] = accepted[i]
    BY <1>1, <1>10
  <2>6. resolved = {log[i] : i \in 1 .. n} /\ n \in 0 .. Len(log)
    BY <1>1, <1>8, <2>4, <2>5
  <2>7. accepted' = log /\ resolved' = resolved
    BY <1>5, <1>7
  <2>8. \E m \in 0 .. Len(log) : resolved = {log[i] : i \in 1 .. m}
    BY <2>6
  <2>9. History' <=> /\ \A i, j \in 1 .. Len(log) : log[i] = log[j] => i = j
                    /\ \E m \in 0 .. Len(log) : resolved = {log[i] : i \in 1 .. m}
    BY <2>7 DEF History
  <2> QED
    BY <2>3, <2>8, <2>9
<1>12. run'.prog = "idle" /\ mode' = "ready"
  BY <1>1, <1>5 DEF Idle
<1>13. RunTypes'
  BY <1>1, <1>5, <1>12 DEF IInv, RunTypes, Running, Idle, ProgramName, Kind
<1>14. HistoryTypes'
  BY <1>4, <1>5, <1>7, <1>10 DEF IInv, HistoryTypes
<1>15. \A k \in Kind : ~Torn(disk'[k]["current"])
  BY <1>2, <1>4 DEF Kind, Torn, Valid, Readable
<1>16. Modes'
  BY <1>4, <1>5, <1>12, <1>15 DEF Modes, Running
<1>17. Program_at'
  BY <1>12 DEF Program_at
<1> QED
  BY <1>2, <1>3, <1>4, <1>5, <1>6, <1>9, <1>11, <1>12, <1>13, <1>14, <1>16, <1>17 DEF IInv

LEMMA CompleteExec ==
  ASSUME IInv, Execute, run.prog = "complete"
  PROVE  /\ IInv' /\ mode' = "ready" /\ accepted' = accepted
         /\ resolved' = resolved \cup {run.arg}
         /\ Held(disk', "action") = Held(disk, "action")
         /\ Len(Held(disk', "completion")) = Len(Held(disk, "completion")) + 1
         /\ Len(Held(disk, "completion")) < Len(Held(disk, "action"))
         /\ run.arg = accepted[Len(accepted) - Len(Held(disk, "action"))
                                 + Len(Held(disk, "completion")) + 1]
<1>1. /\ CompleteAt /\ Typed(disk) /\ Running /\ mode = "ready" /\ accepted \in Seq(Action)
      /\ "action" \in Kind /\ "completion" \in Kind
  BY DEF IInv, Program_at, Files, Running, Modes, RunTypes, HistoryTypes, Kind
<1>2. /\ \A k \in Kind : NoSwap(disk[k]) /\ Readable(disk[k]["current"])
      /\ Len(Completed) < Len(Stored) /\ run.arg = Stored[Len(Completed) + 1]
  BY <1>1 DEF CompleteAt
<1>3. /\ Held(disk, "action") = Stored /\ Stored \in Seq(Action) /\ Len(Stored) <= Capacity
      /\ Held(disk, "completion") = Completed /\ Completed \in Seq(Action)
  BY <1>1, <1>2, HeldIsCurrent DEF Stored, Completed, Typed, Journal, Slot
<1>4. run.arg \in Action /\ Len(Completed) < Capacity
  BY <1>2, <1>3, OutboxAssumption
<1>5. /\ Files(disk)' /\ \A l \in Kind : NoSwap(disk'[l])
      /\ disk'["action"] = disk["action"]
      /\ Valid(disk'["completion"]["current"])
      /\ disk'["completion"]["current"].frames = Append(Completed, run.arg)
      /\ EndOfProgram /\ UNCHANGED <<faults, losses>>
  BY <1>1, <1>2, <1>3, <1>4, AppendOn DEF Completed
<1>6. /\ resolved' = resolved \cup {run.arg} /\ run' = Idle /\ reply' = "ok"
      /\ UNCHANGED <<mode, accepted>>
  BY <1>5 DEF EndOfProgram, Recovery, Undo
<1>7. /\ Held(disk', "completion") = Append(Completed, run.arg)
      /\ Held(disk', "action") = Stored
  BY <1>1, <1>3, <1>5, HeldIsCurrent DEF Files, Held
<1>8. PICK x, d, m : /\ x = run.arg /\ d = Append(Completed, x)
                     /\ m = Len(accepted) - Len(Stored) + Len(Completed)
  OBVIOUS
<1>9. Sound(Stored, Completed, accepted, resolved)
  BY <1>3 DEF IInv
<1>10. /\ Sound(Stored, d, accepted, resolved \cup {x}) /\ Len(d) = Len(Completed) + 1
       /\ x = accepted[Len(accepted) - Len(Stored) + Len(Completed) + 1]
  <2>1. /\ Stored \in Seq(Action) /\ Completed \in Seq(Action) /\ accepted \in Seq(Action)
        /\ Len(Completed) < Len(Stored)
    BY <1>1, <1>2, <1>3
  <2>2. x = Stored[Len(Completed) + 1] /\ d = Append(Completed, x)
    BY <1>2, <1>8
  <2>3. Sound(Stored, d, accepted, resolved \cup {x})
    BY <1>9, <2>1, <2>2, SoundComplete
  <2>4. x = accepted[Len(accepted) - Len(Stored) + Len(Completed) + 1]
    <3>1. PICK n : n = Len(Completed) + 1
      OBVIOUS
    <3>2. n \in 1 .. Len(Stored) /\ x = Stored[n]
      BY <2>1, <2>2, <3>1
    <3>3. x = accepted[Len(accepted) - Len(Stored) + n]
      BY <1>9, <3>2 DEF Sound
    <3>4. Len(accepted) - Len(Stored) + n = Len(accepted) - Len(Stored) + Len(Completed) + 1
      BY <2>1, <3>1
    <3> QED
      BY <3>3, <3>4
  <2>5. Len(d) = Len(Completed) + 1
    BY <2>1, <2>2
  <2> QED
    BY <2>3, <2>4, <2>5
<1>11. Sound(Held(disk, "action"), Held(disk, "completion"), accepted, resolved)'
  BY <1>6, <1>7, <1>8, <1>10
<1>12. History'
  <2>1. /\ \A i, j \in 1 .. Len(accepted) : accepted[i] = accepted[j] => i = j
        /\ \E n \in 0 .. Len(accepted) : resolved = {accepted[i] : i \in 1 .. n}
    BY DEF IInv, History
  <2>2. PICK n \in 0 .. Len(accepted) : resolved = {accepted[i] : i \in 1 .. n}
    BY <2>1
  <2>3. m \in Nat /\ m + 1 \in 1 .. Len(accepted) /\ x = accepted[m + 1]
        /\ \A i \in 1 .. m : accepted[i] \in resolved
    BY <1>1, <1>2, <1>3, <1>8, <1>9, <1>10 DEF Sound
  <2>4. m <= n
    <3> SUFFICES ASSUME m > n PROVE FALSE
      BY <2>3
    <3>1. m \in 1 .. m /\ m \in 1 .. Len(accepted)
      BY <2>3
    <3>2. PICK i \in 1 .. n : accepted[m] = accepted[i]
      BY <2>2, <2>3, <3>1
    <3>3. i = m
      BY <1>1, <2>1, <3>1, <3>2
    <3> QED
      BY <3>3
  <2>5. CASE m + 1 <= n
    <3>1. x \in resolved
      BY <2>2, <2>3, <2>5
    <3>2. resolved' = resolved
      BY <1>6, <1>8, <3>1
    <3>3. accepted' = accepted
      BY <1>6
    <3> QED
      BY <3>2, <3>3 DEF IInv, History
  <2>6. CASE ~(m + 1 <= n)
    <3>1. n = m
      BY <2>3, <2>4, <2>6
    <3>2. \A i \in 1 .. (m + 1) : i \in 1 .. m \/ i = m + 1
      BY <2>3
    <3>3. resolved \cup {x} = {accepted[i] : i \in 1 .. (m + 1)}
      BY <2>2, <2>3, <3>1, <3>2
    <3>4. m + 1 \in 0 .. Len(accepted)
      BY <2>3
    <3>5. accepted' = accepted /\ resolved' = {accepted[i] : i \in 1 .. (m + 1)}
      BY <1>6, <1>8, <3>3
    <3>6. \A i, j \in 1 .. Len(accepted) : accepted[i] = accepted[j] => i = j
      BY <2>1
    <3>7. \E n1 \in 0 .. Len(accepted) : resolved' = {accepted[i] : i \in 1 .. n1}
      BY <3>4, <3>5
    <3>8. accepted' = accepted
      BY <3>5
    <3> QED
      BY <3>6, <3>7, <3>8 DEF History
  <2> QED
    BY <2>5, <2>6
<1>13. run'.prog = "idle" /\ mode' = "ready"
  BY <1>1, <1>6 DEF Idle
<1>14. RunTypes'
  BY <1>1, <1>6, <1>13 DEF IInv, RunTypes, Running, Idle, ProgramName, Kind
<1>15. HistoryTypes'
  BY <1>4, <1>5, <1>6 DEF IInv, HistoryTypes
<1>16. \A k \in Kind : ~Torn(disk'[k]["current"])
  BY <1>2, <1>5 DEF Kind, Torn, Valid, Readable
<1>17. Modes'
  BY <1>5, <1>6, <1>13, <1>16 DEF Modes, Running
<1>18. Program_at'
  BY <1>13 DEF Program_at
<1> QED
  BY <1>2, <1>3, <1>5, <1>6, <1>7, <1>8, <1>10, <1>11, <1>12, <1>13, <1>14, <1>15, <1>17, <1>18 DEF IInv

-----------------------------------------------------------------------------
(* Compaction.                                                             *)

\* Fewer completions match as well.
LEMMA SoundLess ==
  ASSUME NEW a, NEW c, NEW acc, NEW res, Sound(a, c, acc, res),
         Len(a) \in Nat, Len(c) \in Nat, Len(acc) \in Nat
  PROVE  Sound(a, <<>>, acc, res)
<1>1. Len(<<>>) = 0
  BY NoFrames
<1>2. \A i \in 1 .. (Len(acc) - Len(a) + 0) : i \in 1 .. (Len(acc) - Len(a) + Len(c))
  BY DEF Sound
<1> QED
  BY <1>1, <1>2 DEF Sound

\* The pending actions alone.
LEMMA SoundPending ==
  ASSUME NEW a \in Seq(Action), NEW c \in Seq(Action), NEW acc \in Seq(Action), NEW res,
         Sound(a, c, acc, res), NEW p \in Seq(Action), Len(p) = Len(a) - Len(c),
         \A i \in 1 .. Len(p) : p[i] = a[Len(c) + i]
  PROVE  Sound(p, <<>>, acc, res)
<1>1. /\ Len(c) <= Len(a) /\ Len(a) <= Len(acc) /\ Len(a) \in Nat /\ Len(c) \in Nat /\ Len(acc) \in Nat
      /\ \A i \in 1 .. Len(a) : a[i] = acc[Len(acc) - Len(a) + i]
      /\ \A i \in 1 .. (Len(acc) - Len(a) + Len(c)) : acc[i] \in res
      /\ Len(<<>>) = 0
  BY NoFrames DEF Sound
<1>2. ASSUME NEW i \in 1 .. Len(p) PROVE p[i] = acc[Len(acc) - Len(p) + i]
  <2>1. PICK h : h = Len(c) + i
    OBVIOUS
  <2>2. h \in 1 .. Len(a) /\ p[i] = a[h]
    BY <1>1, <2>1
  <2>3. a[h] = acc[Len(acc) - Len(a) + h]
    BY <1>1, <2>2
  <2>4. Len(acc) - Len(a) + h = Len(acc) - Len(p) + i
    BY <1>1, <2>1
  <2> QED
    BY <2>2, <2>3, <2>4
<1>3. Len(acc) - Len(p) + 0 = Len(acc) - Len(a) + Len(c)
  BY <1>1
<1>4. Len(p) <= Len(acc) /\ 0 <= Len(p)
  BY <1>1
<1>5. \A i \in 1 .. (Len(acc) - Len(p) + 0) : acc[i] \in res
  BY <1>1, <1>3
<1> QED
  BY <1>1, <1>2, <1>4, <1>5 DEF Sound

LEMMA CompactOn ==
  ASSUME IInv, run.prog = "compact", Files(disk)', UNCHANGED <<faults, losses>>,
         Sound(Held(disk', "action"), Held(disk', "completion"), accepted, resolved),
         NEW n, n \in 1 .. 17,
         Compacting(n, disk'["action"], disk'["completion"], accepted, resolved),
         \/ StepOrEnd /\ run.at < 17 /\ n = run.at + 1
         \/ UNCHANGED <<mode, run, reply, accepted, resolved>> /\ n = run.at
  PROVE  IInv' /\ UNCHANGED <<mode, accepted, resolved>>
<1>1. /\ mode = "ready" /\ Running /\ run.at \in 1 .. 17 /\ New
      /\ run \in [prog : ProgramName, kind : Kind, at : Nat \ {0}, arg : Action \cup {None}]
  BY DEF IInv, Modes, RunTypes, Running, Program_at, CompactAt
<1>2. IsLast <=> run.at = 17
  <2>1. Len(Program("compact", run.kind)) = 17
    BY CompactText
  <2> QED
    BY <2>1 DEF IsLast
<1>3. run' = [run EXCEPT !.at = n] /\ UNCHANGED <<mode, reply, accepted, resolved>>
  <2>1. CASE StepOrEnd /\ run.at < 17 /\ n = run.at + 1
    <3>1. ~IsLast
      BY <1>1, <1>2, <2>1
    <3> QED
      BY <2>1, <3>1 DEF StepOrEnd, StepOn
  <2>2. CASE UNCHANGED <<mode, run, reply, accepted, resolved>> /\ n = run.at
    BY <1>1, <2>2
  <2> QED
    BY <2>1, <2>2
<1>4. run'.prog = "compact" /\ run'.kind = run.kind /\ run'.at = n /\ run'.arg = run.arg
  BY <1>1, <1>3
<1>5. RunTypes'
  <2>1. run' \in [prog : ProgramName, kind : Kind, at : Nat \ {0}, arg : Action \cup {None}]
    BY <1>1, <1>3
  <2>2. n \in DOMAIN Program("compact", run.kind)
    BY CompactText
  <2> QED
    BY <1>3, <1>4, <2>1, <2>2 DEF IInv, RunTypes
<1>6. HistoryTypes' /\ History'
  BY <1>3 DEF IInv, HistoryTypes, History
<1>7. \A k \in Kind : ~Torn(disk'[k]["current"])
  BY NoFrames DEF Compacting, Torn, Valid, Kind, Compacted, Aside
<1>8. Modes'
  BY <1>1, <1>3, <1>4, <1>7 DEF IInv, Modes, Running
<1>9. New'
  BY <1>1, <1>3, <1>4 DEF New
<1>10. CompactAt'
  BY <1>3, <1>4, <1>9 DEF CompactAt
<1>11. Program_at'
  BY <1>4, <1>10 DEF Program_at
<1>12. Sound(Held(disk, "action"), Held(disk, "completion"), accepted, resolved)'
  BY <1>3
<1> QED
  BY <1>3, <1>5, <1>6, <1>8, <1>11, <1>12 DEF IInv

\* The pending actions, some of them copied.
LEMMA PendingOK ==
  ASSUME NEW stored \in Seq(Action), NEW done \in Seq(Action), NEW p, p = Rest(stored, Len(done)),
         Len(done) <= Len(stored), Len(done) # 0, Len(stored) = Capacity
  PROVE  /\ p \in Seq(Action) /\ Len(p) = Len(stored) - Len(done) /\ Len(p) < Capacity
         /\ \A i \in 1 .. Len(p) : p[i] = stored[Len(done) + i]
<1>1. PICK m : m = Len(done)
  OBVIOUS
<1>2. m \in 0 .. Len(stored) /\ p = Rest(stored, m)
  BY <1>1
<1>3. /\ Rest(stored, m) \in Seq(Action) /\ Len(Rest(stored, m)) = Len(stored) - m
      /\ \A i \in 1 .. Len(stored) - m : Rest(stored, m)[i] = stored[m + i]
  BY <1>2, RestOK
<1> QED
  BY <1>1, <1>2, <1>3, OutboxAssumption

Copied(f, s, m) == \A i \in 1 .. Len(f) : f[i] = s[m + i]

LEMMA CopiedOne ==
  ASSUME NEW stored \in Seq(Action), NEW m \in Nat, NEW p \in Seq(Action), NEW f \in Seq(Action),
         Len(p) = Len(stored) - m, Len(p) < Capacity, Len(f) < Len(p),
         Copied(p, stored, m), Copied(f, stored, m),
         NEW x, x = p[Len(f) + 1]
  PROVE  /\ Append(f, x) \in Seq(Action) /\ Len(Append(f, x)) <= Len(stored) - m
         /\ Len(Append(f, x)) <= Capacity
         /\ Copied(Append(f, x), stored, m)
<1> DEFINE g == Append(f, x)
<1> USE DEF Copied
<1>1. /\ Len(f) + 1 \in 1 .. Len(p) /\ m + (Len(f) + 1) = m + Len(f) + 1
      /\ m + Len(f) < Len(stored) /\ Len(f) < Len(stored)
  OBVIOUS
<1>2. g = Append(f, stored[m + Len(f) + 1])
  BY <1>1
<1>3. g \in Seq(Action) /\ Len(g) = Len(f) + 1
  <2>1. x \in Action
    BY <1>1
  <2> QED
    BY <2>1
<1>4. g[Len(f) + 1] = stored[m + (Len(f) + 1)] /\ \A i \in 1 .. Len(f) : g[i] = f[i]
  BY <1>1, <1>2
<1>5. \A i \in 1 .. Len(g) : i = Len(f) + 1 \/ i \in 1 .. Len(f)
  BY <1>3
<1>6. \A i \in 1 .. Len(g) : g[i] = stored[m + i]
  BY <1>4, <1>5
<1>7. Len(g) <= Len(p) /\ Len(g) <= Capacity
  BY <1>3, OutboxAssumption
<1> QED
  BY <1>3, <1>6, <1>7

LEMMA CompactExec ==
  ASSUME IInv, Execute, run.prog = "compact"
  PROVE  IInv' /\ UNCHANGED <<mode, accepted, resolved>> /\ mode = "ready"
<1> PICK a, c, n, acc, res :
      /\ a = disk["action"] /\ c = disk["completion"] /\ n = run.at
      /\ acc = accepted /\ res = resolved
  OBVIOUS
<1> DEFINE a2 == disk'["action"]
           c2 == disk'["completion"]
           Queue2 == Sound(Held(disk', "action"), Held(disk', "completion"), acc, res)
<1>1. /\ mode = "ready" /\ Running /\ n \in 1 .. 17 /\ New
      /\ Compacting(n, a, c, acc, res) /\ Files(disk) /\ Typed(disk)
      /\ "action" \in Kind /\ "completion" \in Kind
  BY DEF IInv, RunTypes, Modes, Running, Program_at, CompactAt, Files, Kind
<1>2. /\ "current" \in Slot /\ "fresh" \in Slot /\ "old" \in Slot
      /\ "current" # "fresh" /\ "current" # "old" /\ "fresh" # "old" /\ "action" # "completion"
  BY DEF Slot
<1>3. /\ ~Absent.exists /\ Absent.frames = <<>>
      /\ Empty.exists /\ Empty.frames = <<>> /\ ~Empty.torn /\ Len(<<>>) = 0 /\ Valid(Empty)
  BY NoFrames, OutboxAssumption DEF Valid
<1>4. /\ \A s \in Slot : /\ Len(a[s].frames) <= Capacity /\ a[s].frames \in Seq(Action)
                         /\ Len(c[s].frames) <= Capacity /\ c[s].frames \in Seq(Action)
      /\ Shape(a) /\ Shape(c)
  BY <1>1 DEF Files, Typed, Journal
<1>5. Sound(Held(disk, "action"), Held(disk, "completion"), acc, res) /\ acc \in Seq(Action)
  BY DEF IInv, HistoryTypes
<1>6. ASSUME n < 17, StepOrEnd, UNCHANGED <<faults, losses>>, Typed(disk'), Shape(a2), Shape(c2),
             Queue2, Compacting(n + 1, a2, c2, acc, res)
      PROVE  IInv' /\ UNCHANGED <<mode, accepted, resolved>>
  <2>1. Files(disk)'
    BY <1>6 DEF Files, Kind
  <2>2. n + 1 \in 1 .. 17 /\ run.at < 17 /\ n + 1 = run.at + 1
    BY <1>1, <1>6
  <2> QED
    BY <1>6, <2>1, <2>2, CompactOn
<1>7. ASSUME a2["current"] = a["current"], a["current"].exists,
             c2["current"] = c["current"], c["current"].exists
      PROVE  Queue2
  BY <1>5, <1>7 DEF Held
<1>8. CASE n \in {1, 5, 8, 13}
  <2> PICK k, s : /\ k = IF n \in {1, 13} THEN "action" ELSE "completion"
                  /\ s = IF n \in {1, 5} THEN "fresh" ELSE "old"
    OBVIOUS
  <2>1. Current = Remove(k, s)
    BY <1>8, CompactText DEF Current
  <2>2. /\ Typed(disk') /\ disk'[k][s] = Absent
        /\ \A l \in Kind, t \in Slot : l # k \/ t # s => disk'[l][t] = disk[l][t]
        /\ StepOrEnd /\ UNCHANGED <<faults, losses>>
    BY <1>1, <1>2, <2>1, RemoveStep
  <2>3. /\ a2["current"] = a["current"] /\ c2["current"] = c["current"]
        /\ n \in {1, 13} => c2 = c
        /\ n \in {5, 8} => a2 = a
    <3>1. \A l \in Kind : l # k => disk'[l] = disk[l]
      BY <1>1, <2>2, OtherJournals
    <3> QED
      BY <1>1, <1>2, <1>8, <2>2, <3>1
  <2>4. /\ n = 1 => a2["old"] = a["old"]
        /\ n = 13 => a2["fresh"] = a["fresh"] /\ a2["old"] = Absent
        /\ n = 5 => c2["old"] = c["old"]
        /\ n = 8 => c2["fresh"] = c["fresh"] /\ c2["old"] = Absent
    BY <1>1, <1>2, <2>2
  <2>5. /\ NoSwap(a) /\ Valid(a["current"]) /\ NoSwap(c) /\ c["current"].exists
    BY <1>1, <1>3, <1>8 DEF Compacting, Valid
  <2>6. NoSwap(a2) /\ NoSwap(c2)
    BY <1>3, <1>8, <2>3, <2>4, <2>5 DEF NoSwap, Valid
  <2>7. Compacting(n + 1, a2, c2, acc, res)
    <3>1. CASE n = 1
      BY <1>1, <2>3, <2>6, <3>1 DEF Compacting
    <3>2. CASE n = 5
      BY <1>1, <2>3, <2>6, <3>2 DEF Compacting
    <3>3. CASE n = 8
      BY <1>1, <2>3, <2>4, <2>6, <3>3 DEF Compacting
    <3>4. CASE n = 13
      BY <1>1, <2>3, <2>4, <2>6, <3>4 DEF Compacting
    <3> QED
      BY <1>8, <3>1, <3>2, <3>3, <3>4
  <2>8. Queue2
    BY <1>7, <2>3, <2>5 DEF Valid
  <2> QED
    BY <1>1, <1>6, <1>8, <2>2, <2>6, <2>7, <2>8 DEF Shape
<1>9. CASE n \in {2, 6}
  <2> PICK k : k = IF n = 2 THEN "action" ELSE "completion"
    OBVIOUS
  <2>1. Current = Create(k, "fresh")
    BY <1>9, CompactText DEF Current
  <2>2. /\ Typed(disk') /\ disk'[k]["fresh"] = Empty
        /\ \A l \in Kind, t \in Slot : l # k \/ t # "fresh" => disk'[l][t] = disk[l][t]
        /\ StepOrEnd /\ UNCHANGED <<faults, losses>>
    BY <1>1, <1>2, <2>1, CreateStep
  <2>3. /\ a2["current"] = a["current"] /\ c2["current"] = c["current"]
        /\ n = 2 => c2 = c
        /\ n = 6 => a2 = a
    <3>1. \A l \in Kind : l # k => disk'[l] = disk[l]
      BY <1>1, <2>2, OtherJournals
    <3> QED
      BY <1>1, <1>2, <1>9, <2>2, <3>1
  <2>4. /\ n = 2 => a2["old"] = a["old"] /\ a2["fresh"] = Empty
        /\ n = 6 => c2["old"] = c["old"] /\ c2["fresh"] = Empty
    BY <1>1, <1>2, <2>2
  <2>5. /\ NoSwap(a) /\ Valid(a["current"]) /\ NoSwap(c) /\ c["current"].exists
        /\ Valid(c["current"])
    BY <1>1, <1>3, <1>9 DEF Compacting, Valid
  <2>6. NoSwap(a2) /\ NoSwap(c2)
    BY <1>3, <1>9, <2>3, <2>4, <2>5 DEF NoSwap, Valid
  <2>7. 0 <= Len(a["current"].frames) - Len(c["current"].frames)
    <3>1. Held(disk, "action") = a["current"].frames /\ Held(disk, "completion") = c["current"].frames
      BY <1>1, <2>5 DEF Held, Valid
    <3>2. Len(c["current"].frames) <= Len(a["current"].frames)
      BY <1>5, <3>1 DEF Sound
    <3>3. Len(c["current"].frames) \in Nat /\ Len(a["current"].frames) \in Nat
      <4>1. "current" \in Slot
        BY DEF Slot
      <4>2. c["current"].frames \in Seq(Action) /\ a["current"].frames \in Seq(Action)
        BY <1>4, <4>1
      <4> QED
        BY <4>2, FramesOf
    <3> QED
      BY <3>2, <3>3
  <2>8. Compacting(n + 1, a2, c2, acc, res)
    <3>1. CASE n = 2
      <4>1. Compacting(2, a, c, acc, res) /\ c2 = c /\ a2["current"] = a["current"]
        BY <1>1, <2>3, <3>1
      <4>2. a2["fresh"].frames = <<>> /\ Valid(a2["fresh"]) /\ Len(<<>>) = 0
        BY <1>3, <2>4, <3>1
      <4>3. Compacting(3, a2, c2, acc, res)
        BY <2>5, <2>6, <2>7, <4>1, <4>2 DEF Compacting
      <4> QED
        BY <3>1, <4>3
    <3>2. CASE n = 6
      BY <1>1, <2>3, <2>4, <2>6, <3>2 DEF Compacting
    <3> QED
      BY <1>9, <3>1, <3>2
  <2>9. Queue2
    BY <1>7, <2>3, <2>5 DEF Valid
  <2> QED
    BY <1>1, <1>6, <1>9, <2>2, <2>6, <2>8, <2>9 DEF Shape
<1>10. CASE n \in {4, 7, 11, 16}
  <2>1. \E k, s, u : Current = Verify(k, s, u)
    BY <1>10, CompactText DEF Current
  <2>2. disk' = disk /\ StepOrEnd /\ UNCHANGED <<faults, losses>>
    BY <2>1, VerifyStep
  <2>3. Compacting(n + 1, a2, c2, acc, res)
    <3>1. Compacting(n, a2, c2, acc, res)
      BY <1>1, <2>2
    <3> HIDE DEF a2, c2
    <3>2. CASE n = 4
      BY <3>1, <3>2 DEF Compacting
    <3>3. CASE n = 7
      BY <3>1, <3>3 DEF Compacting
    <3>4. CASE n = 11
      BY <3>1, <3>4 DEF Compacting
    <3>5. CASE n = 16
      BY <3>1, <3>5 DEF Compacting
    <3> QED
      BY <1>10, <3>2, <3>3, <3>4, <3>5
  <2>4. Queue2
    BY <1>5, <2>2
  <2> QED
    BY <1>1, <1>4, <1>6, <1>10, <2>2, <2>3, <2>4
<1>11. CASE n = 3
  <2> DEFINE stored == a["current"].frames
             done == c["current"].frames
             f == a["fresh"].frames
  <2>1. Current = Copy("action", "current")
    BY <1>11, CompactText DEF Current
  <2>2. /\ NoSwap(a) /\ Valid(a["current"]) /\ NoSwap(c) /\ Valid(c["current"])
        /\ done # <<>> /\ Len(stored) = Capacity /\ Valid(a["fresh"])
        /\ Len(f) <= Len(stored) - Len(done)
        /\ \A i \in 1 .. Len(f) : f[i] = stored[Len(done) + i]
    <3>1. Compacting(3, a, c, acc, res)
      BY <1>1, <1>11
    <3>2. NoSwap(a) /\ Valid(a["current"]) /\ NoSwap(c) /\ Valid(c["current"])
      BY <3>1 DEF Compacting
    <3>3. done # <<>> /\ Len(stored) = Capacity /\ Valid(a["fresh"])
      BY <3>1 DEF Compacting
    <3>4. /\ Len(f) <= Len(stored) - Len(done)
          /\ \A i \in 1 .. Len(f) : f[i] = stored[Len(done) + i]
      BY <3>1 DEF Compacting
    <3> QED
      BY <3>2, <3>3, <3>4
  <2>3. stored \in Seq(Action) /\ done \in Seq(Action) /\ f \in Seq(Action) /\ Len(stored) <= Capacity
    BY <1>2, <1>4
  <2>4. Sound(stored, done, acc, res) /\ Len(done) <= Len(stored) /\ Len(done) # 0
    <3>1. Sound(stored, done, acc, res)
      BY <1>5, <2>2 DEF Held, Valid
    <3>2. Len(done) <= Len(stored)
      BY <3>1 DEF Sound
    <3>3. Len(done) # 0
      BY <2>2, <2>3
    <3> QED
      BY <3>1, <3>2, <3>3
  <2> DEFINE p == Rest(stored, Len(done))
  <2>5. /\ p \in Seq(Action) /\ Len(p) = Len(stored) - Len(done) /\ Len(p) < Capacity
        /\ \A i \in 1 .. Len(p) : p[i] = stored[Len(done) + i]
    <3> HIDE DEF stored, done
    <3>1. Len(done) <= Len(stored) /\ Len(done) # 0 /\ Len(stored) = Capacity
      BY <2>2, <2>4
    <3> QED
      BY <2>3, <3>1, PendingOK
  <2>6. p = Pending
    BY DEF Pending, Stored, Completed
  <2> HIDE DEF p
  <2>7. Len(f) <= Len(p) /\ Len(p) <= Capacity
    <3> HIDE DEF stored, done, f
    <3> QED
      BY <2>2, <2>3, <2>5, OutboxAssumption
  <2>8. /\ UNCHANGED <<faults, losses>>
        /\ \/ Len(f) = Len(p) /\ disk' = disk /\ StepOrEnd
           \/ /\ Len(f) < Len(p) /\ Typed(disk')
              /\ a2["fresh"].exists /\ a2["fresh"].torn = a["fresh"].torn
              /\ a2["fresh"].frames = Append(f, p[Len(f) + 1])
              /\ \A l \in Kind, t \in Slot :
                   l # "action" \/ t # "fresh" => disk'[l][t] = disk[l][t]
              /\ UNCHANGED <<mode, run, reply, accepted, resolved>>
    <3>1. /\ f = disk["action"]["fresh"].frames /\ disk["action"]["fresh"].exists
          /\ p = IF run.prog = "compact" THEN Pending ELSE disk["action"]["current"].frames
      BY <2>2, <2>6 DEF Valid
    <3> HIDE DEF f
    <3>2. f \in Seq(Action) /\ p \in Seq(Action)
      BY <2>3, <2>5
    <3> QED
      BY <1>1, <2>1, <2>7, <3>1, <3>2, CopyOn
  <2>9. CASE Len(f) = Len(p) /\ disk' = disk /\ StepOrEnd
    <3>1. Sound(f, <<>>, acc, res)
      <4> HIDE DEF stored, done, f
      <4>1. Len(f) = Len(stored) - Len(done)
        BY <2>5, <2>9
      <4>2. \A i \in 1 .. Len(f) : f[i] = stored[Len(done) + i]
        BY <2>2
      <4>3. Sound(stored, done, acc, res) /\ acc \in Seq(Action)
        BY <1>5, <2>4
      <4> QED
        BY <2>3, <4>1, <4>2, <4>3, SoundPending
    <3>2. Compacted(a["fresh"], acc, res)
      BY <2>2, <2>5, <2>9, <3>1 DEF Compacted
    <3>3. Compacting(n + 1, a2, c2, acc, res)
      <4>1. Compacting(3, a, c, acc, res) /\ a2 = a /\ c2 = c
        BY <1>1, <1>11, <2>9
      <4> HIDE DEF a2, c2
      <4>2. Compacting(4, a2, c2, acc, res)
        BY <3>2, <4>1 DEF Compacting
      <4> QED
        BY <1>11, <4>2
    <3>4. Queue2
      BY <1>5, <2>9
    <3> QED
      BY <1>1, <1>4, <1>6, <1>11, <2>8, <2>9, <3>3, <3>4
  <2>10. CASE /\ Len(f) < Len(p) /\ Typed(disk')
              /\ a2["fresh"].exists /\ a2["fresh"].torn = a["fresh"].torn
              /\ a2["fresh"].frames = Append(f, p[Len(f) + 1])
              /\ \A l \in Kind, t \in Slot :
                   l # "action" \/ t # "fresh" => disk'[l][t] = disk[l][t]
              /\ UNCHANGED <<mode, run, reply, accepted, resolved>>
    <3>1. a2["current"] = a["current"] /\ a2["old"] = a["old"] /\ c2 = c
      <4>1. \A l \in Kind : l # "action" => disk'[l] = disk[l]
        BY <1>1, <2>10, OtherJournals
      <4> QED
        BY <1>1, <1>2, <2>10, <4>1
    <3>2. NoSwap(a2)
      BY <2>2, <3>1 DEF NoSwap, Valid
    <3>3. PICK g : g = Append(f, p[Len(f) + 1])
      OBVIOUS
    <3>5. /\ g \in Seq(Action) /\ Len(g) <= Len(stored) - Len(done) /\ Len(g) <= Capacity
          /\ \A i \in 1 .. Len(g) : g[i] = stored[Len(done) + i]
      <4> HIDE DEF stored, done, f
      <4>1. PICK m : m = Len(done)
        OBVIOUS
      <4>2. /\ m \in Nat /\ Len(p) = Len(stored) - m /\ Len(p) < Capacity /\ Len(f) < Len(p)
            /\ p \in Seq(Action) /\ f \in Seq(Action) /\ stored \in Seq(Action)
        BY <2>3, <2>5, <2>10, <4>1
      <4>3. Copied(p, stored, m) /\ Copied(f, stored, m)
        BY <2>2, <2>5, <4>1 DEF Copied
      <4>4. PICK x : x = p[Len(f) + 1]
        OBVIOUS
      <4>5. /\ Append(f, x) \in Seq(Action) /\ Len(Append(f, x)) <= Len(stored) - m
            /\ Len(Append(f, x)) <= Capacity
            /\ Copied(Append(f, x), stored, m)
        BY <4>2, <4>3, <4>4, CopiedOne
      <4>6. g = Append(f, x)
        BY <3>3, <4>4
      <4> QED
        BY <4>1, <4>5, <4>6 DEF Copied
    <3>6. a2["fresh"].frames = g
      BY <2>10, <3>3
    <3>7. Valid(a2["fresh"])
      BY <2>2, <2>10, <3>5, <3>6 DEF Valid
    <3>8. Compacting(n, a2, c2, acc, res)
      <4>1. Compacting(3, a, c, acc, res)
        BY <1>1, <1>11
      <4>2. Compacting(3, a2, c2, acc, res)
        <5>1. /\ Len(a2["fresh"].frames) <= Len(a2["current"].frames) - Len(c2["current"].frames)
              /\ \A i \in 1 .. Len(a2["fresh"].frames) :
                   a2["fresh"].frames[i] = a2["current"].frames[Len(c2["current"].frames) + i]
          BY <3>1, <3>5, <3>6
        <5>2. /\ Valid(a2["current"]) /\ NoSwap(c2) /\ Valid(c2["current"])
              /\ c2["current"].frames # <<>> /\ Len(a2["current"].frames) = Capacity
          BY <2>2, <3>1
        <5> HIDE DEF a2, c2
        <5> QED
          BY <3>2, <3>7, <5>1, <5>2 DEF Compacting
      <4> QED
        BY <1>11, <4>2
    <3>9. Queue2
      BY <1>7, <2>2, <3>1 DEF Valid
    <3>10. Files(disk)'
      BY <1>4, <2>10, <3>1, <3>2 DEF Files, Shape, Kind
    <3>11. n \in 1 .. 17 /\ UNCHANGED <<mode, run, reply, accepted, resolved>> /\ n = run.at
      BY <1>1, <2>10
    <3> QED
      BY <1>1, <2>8, <3>8, <3>9, <3>10, <3>11, CompactOn
  <2> QED
    BY <2>8, <2>9, <2>10
<1>12. CASE n = 9
  <2>1. Current = Rename("completion", "current", "old", "giveUp")
    BY <1>12, CompactText DEF Current
  <2>2. /\ Typed(disk') /\ c2["old"] = c["current"] /\ c2["current"] = Absent
        /\ \A l \in Kind, t \in Slot :
             l # "completion" \/ t \notin {"current", "old"} => disk'[l][t] = disk[l][t]
        /\ StepOrEnd /\ UNCHANGED <<faults, losses>>
    BY <1>1, <1>2, <2>1, RenameStep
  <2>3. c2["fresh"] = c["fresh"] /\ a2 = a
    <3>1. \A l \in Kind : l # "completion" => disk'[l] = disk[l]
      BY <1>1, <2>2, OtherJournals
    <3> QED
      BY <1>1, <1>2, <2>2, <3>1
  <2>4. /\ NoSwap(a) /\ Valid(a["current"]) /\ Valid(c["current"]) /\ c["fresh"] = Empty
        /\ Compacted(a["fresh"], acc, res)
    BY <1>1, <1>12 DEF Compacting
  <2>5. Aside(c2)
    BY <1>3, <2>2, <2>3, <2>4 DEF Aside, Valid
  <2>6. Sound(a["current"].frames, c["current"].frames, acc, res)
    BY <1>5, <2>4 DEF Held, Valid
  <2>7. Compacting(n + 1, a2, c2, acc, res)
    BY <1>12, <2>2, <2>3, <2>4, <2>5, <2>6 DEF Compacting
  <2>8. Sound(a["current"].frames, <<>>, acc, res)
    BY <1>2, <1>4, <1>5, <2>6, SoundLess
  <2>9. Queue2
    BY <1>3, <2>2, <2>3, <2>4, <2>8 DEF Held, Valid
  <2> QED
    BY <1>1, <1>4, <1>6, <1>12, <2>2, <2>3, <2>5, <2>7, <2>9 DEF Shape
<1>13. CASE n = 10
  <2>1. Current = Rename("completion", "fresh", "current", "putBack")
    BY <1>13, CompactText DEF Current
  <2>2. /\ Typed(disk') /\ c2["current"] = c["fresh"] /\ c2["fresh"] = Absent
        /\ \A l \in Kind, t \in Slot :
             l # "completion" \/ t \notin {"fresh", "current"} => disk'[l][t] = disk[l][t]
        /\ StepOrEnd /\ UNCHANGED <<faults, losses>>
    BY <1>1, <1>2, <2>1, RenameStep
  <2>3. c2["old"] = c["old"] /\ a2 = a
    <3>1. \A l \in Kind : l # "completion" => disk'[l] = disk[l]
      BY <1>1, <2>2, OtherJournals
    <3> QED
      BY <1>1, <1>2, <2>2, <3>1
  <2>4. /\ NoSwap(a) /\ Valid(a["current"]) /\ c["fresh"] = Empty /\ Aside(c)
        /\ Compacted(a["fresh"], acc, res)
    BY <1>1, <1>13 DEF Compacting
  <2>5. Replaced(c2)
    BY <1>3, <2>2, <2>3, <2>4 DEF Aside, Replaced
  <2>6. Compacting(n + 1, a2, c2, acc, res)
    BY <1>13, <2>2, <2>3, <2>4, <2>5 DEF Compacting
  <2>7. Queue2
    BY <1>3, <1>5, <2>2, <2>3, <2>4 DEF Held, Aside
  <2> QED
    BY <1>1, <1>4, <1>6, <1>13, <2>2, <2>3, <2>5, <2>6, <2>7 DEF Shape
<1>14. CASE n = 12
  <2>1. Current = Discard("completion")
    BY <1>14, CompactText DEF Current
  <2>2. /\ Typed(disk') /\ c2["old"] = Absent
        /\ \A l \in Kind, t \in Slot :
             l # "completion" \/ t # "old" => disk'[l][t] = disk[l][t]
        /\ StepOrEnd /\ UNCHANGED <<faults, losses>>
    BY <1>1, <1>2, <2>1, RemoveStep
  <2>3. c2["current"] = c["current"] /\ c2["fresh"] = c["fresh"] /\ a2 = a
    <3>1. \A l \in Kind : l # "completion" => disk'[l] = disk[l]
      BY <1>1, <2>2, OtherJournals
    <3> QED
      BY <1>1, <1>2, <2>2, <3>1
  <2>4. /\ NoSwap(a) /\ Valid(a["current"]) /\ c["current"] = Empty /\ Replaced(c)
        /\ Compacted(a["fresh"], acc, res)
    BY <1>1, <1>14 DEF Compacting
  <2>5. NoSwap(c2)
    BY <1>3, <2>2, <2>3, <2>4 DEF NoSwap
  <2>6. Compacting(n + 1, a2, c2, acc, res)
    BY <1>14, <2>3, <2>4, <2>5 DEF Compacting
  <2>7. Queue2
    BY <1>3, <1>7, <2>3, <2>4 DEF Valid
  <2> QED
    BY <1>1, <1>4, <1>6, <1>14, <2>2, <2>3, <2>5, <2>6, <2>7 DEF Shape
<1>15. CASE n = 14
  <2>1. Current = Rename("action", "current", "old", "giveUp")
    BY <1>15, CompactText DEF Current
  <2>2. /\ Typed(disk') /\ a2["old"] = a["current"] /\ a2["current"] = Absent
        /\ \A l \in Kind, t \in Slot :
             l # "action" \/ t \notin {"current", "old"} => disk'[l][t] = disk[l][t]
        /\ StepOrEnd /\ UNCHANGED <<faults, losses>>
    BY <1>1, <1>2, <2>1, RenameStep
  <2>3. a2["fresh"] = a["fresh"] /\ c2 = c
    <3>1. \A l \in Kind : l # "action" => disk'[l] = disk[l]
      BY <1>1, <2>2, OtherJournals
    <3> QED
      BY <1>1, <1>2, <2>2, <3>1
  <2>4. /\ Valid(a["current"]) /\ c["current"] = Empty /\ NoSwap(c)
        /\ Compacted(a["fresh"], acc, res)
    BY <1>1, <1>15 DEF Compacting
  <2>5. Aside(a2)
    BY <1>3, <2>2, <2>3, <2>4 DEF Aside, Valid, Compacted
  <2>6. Sound(a["current"].frames, <<>>, acc, res)
    BY <1>3, <1>5, <2>4 DEF Held, Valid
  <2>7. Compacting(n + 1, a2, c2, acc, res)
    BY <1>15, <2>2, <2>3, <2>4, <2>5, <2>6 DEF Compacting
  <2>8. Queue2
    BY <1>3, <2>2, <2>3, <2>4 DEF Held, Compacted
  <2> QED
    BY <1>1, <1>4, <1>6, <1>15, <2>2, <2>3, <2>5, <2>7, <2>8 DEF Shape
<1>16. CASE n = 15
  <2>1. Current = Rename("action", "fresh", "current", "putBack")
    BY <1>16, CompactText DEF Current
  <2>2. /\ Typed(disk') /\ a2["current"] = a["fresh"] /\ a2["fresh"] = Absent
        /\ \A l \in Kind, t \in Slot :
             l # "action" \/ t \notin {"fresh", "current"} => disk'[l][t] = disk[l][t]
        /\ StepOrEnd /\ UNCHANGED <<faults, losses>>
    BY <1>1, <1>2, <2>1, RenameStep
  <2>3. a2["old"] = a["old"] /\ c2 = c
    <3>1. \A l \in Kind : l # "action" => disk'[l] = disk[l]
      BY <1>1, <2>2, OtherJournals
    <3> QED
      BY <1>1, <1>2, <2>2, <3>1
  <2>4. /\ c["current"] = Empty /\ NoSwap(c) /\ Aside(a) /\ Compacted(a["fresh"], acc, res)
    BY <1>1, <1>16 DEF Compacting
  <2>5. Replaced(a2)
    BY <1>3, <2>2, <2>3, <2>4 DEF Aside, Replaced
  <2>6. Compacting(n + 1, a2, c2, acc, res)
    BY <1>16, <2>2, <2>3, <2>4, <2>5 DEF Compacting
  <2>7. Queue2
    BY <1>3, <2>2, <2>3, <2>4 DEF Held, Compacted, Valid
  <2> QED
    BY <1>1, <1>4, <1>6, <1>16, <2>2, <2>3, <2>5, <2>6, <2>7 DEF Shape
<1>17. CASE n = 17
  <2>1. Current = Discard("action") /\ IsLast
    BY <1>17, CompactText DEF Current, IsLast
  <2>2. /\ Typed(disk') /\ a2["old"] = Absent
        /\ \A l \in Kind, t \in Slot :
             l # "action" \/ t # "old" => disk'[l][t] = disk[l][t]
        /\ StepOrEnd /\ UNCHANGED <<faults, losses>>
    BY <1>1, <1>2, <2>1, RemoveStep
  <2>3. a2["current"] = a["current"] /\ a2["fresh"] = a["fresh"] /\ c2 = c
    <3>1. \A l \in Kind : l # "action" => disk'[l] = disk[l]
      BY <1>1, <2>2, OtherJournals
    <3> QED
      BY <1>1, <1>2, <2>2, <3>1
  <2>4. c["current"] = Empty /\ NoSwap(c) /\ Replaced(a) /\ Compacted(a["current"], acc, res)
    BY <1>1, <1>17 DEF Compacting
  <2>5. /\ NoSwap(a2) /\ Valid(a2["current"]) /\ NoSwap(c2) /\ Valid(c2["current"])
        /\ Len(a2["current"].frames) < Capacity
    BY <1>3, <2>2, <2>3, <2>4 DEF NoSwap, Replaced, Compacted
  <2>6. /\ run' = [prog |-> "append", kind |-> "action", at |-> 1, arg |-> run.arg]
        /\ UNCHANGED <<mode, reply, accepted, resolved>>
    BY <2>1, <2>2 DEF StepOrEnd, EndOfProgram, Recovery, Undo, Start
  <2>7. run'.prog = "append" /\ run'.kind = "action" /\ run'.at = 1 /\ run'.arg = run.arg
    BY <2>6
  <2>8. RunTypes'
    <3>1. run' \in [prog : ProgramName, kind : Kind, at : Nat \ {0}, arg : Action \cup {None}]
      BY <1>1, <2>6 DEF New, ProgramName, Kind
    <3>2. 1 \in DOMAIN Program("append", "action")
      BY CallText
    <3> QED
      BY <2>6, <2>7, <3>1, <3>2 DEF IInv, RunTypes
  <2>9. HistoryTypes' /\ History'
    BY <2>2, <2>6 DEF IInv, HistoryTypes, History
  <2>10. \A k \in Kind : NoSwap(disk'[k]) /\ Valid(disk'[k]["current"])
    BY <2>5 DEF Kind
  <2>11. Files(disk)'
    BY <2>2, <2>10 DEF Files, Shape
  <2>12. Modes'
    BY <1>1, <2>2, <2>6, <2>7, <2>10 DEF IInv, Modes, Running, Valid, Torn
  <2>13. AppendAt'
    <3>1. New'
      BY <1>1, <2>6, <2>7 DEF New
    <3> QED
      BY <2>5, <2>10, <3>1 DEF AppendAt, Stored, Readable
  <2>14. Program_at'
    BY <2>7, <2>13 DEF Program_at
  <2>15. Queue2
    BY <1>3, <1>7, <2>3, <2>4 DEF Replaced, Valid
  <2>16. Sound(Held(disk, "action"), Held(disk, "completion"), accepted, resolved)'
    BY <2>6, <2>15
  <2> QED
    BY <1>1, <2>6, <2>8, <2>9, <2>11, <2>12, <2>14, <2>16 DEF IInv
<1> QED
  BY <1>1, <1>8, <1>9, <1>10, <1>11, <1>12, <1>13, <1>14, <1>15, <1>16, <1>17

-----------------------------------------------------------------------------
(* Reported failures.                                                      *)

LEMMA Undos ==
  ASSUME NEW k, NEW n
  PROVE  /\ n \in {1, 2, 3, 4, 6} => Program("repair", k)[n].undo = "giveUp"
         /\ n \in {1, 2, 3, 5, 6, 8, 9, 13, 14} => Program("compact", k)[n].undo = "giveUp"
         /\ n \in {1, 2} => Program("activate", k)[n].undo = "giveUp"
         /\ n \in {1, 2} => Program("drop", k)[n].undo = "giveUp"
<1>1. n \in {1, 2, 3, 4, 6} => Program("repair", k)[n].undo = "giveUp"
  BY RepairText, Fields
<1>2. n \in {1, 2, 3} => Program("compact", k)[n].undo = "giveUp"
  BY CompactText, Fields
<1>3. n \in {5, 6, 8} => Program("compact", k)[n].undo = "giveUp"
  BY CompactText, Fields
<1>4. n \in {9, 13, 14} => Program("compact", k)[n].undo = "giveUp"
  BY CompactText, Fields
<1>5. n \in {1, 2} => Program("activate", k)[n].undo = "giveUp"
  BY ActivateText, Fields
<1>6. n \in {1, 2} => Program("drop", k)[n].undo = "giveUp"
  BY DropText, Fields
<1> QED
  BY <1>1, <1>2, <1>3, <1>4, <1>5, <1>6

LEMMA RepairDo ==
  ASSUME NEW k
  PROVE  /\ Program("repair", k)[1].do = "remove" /\ Program("repair", k)[2].do = "remove"
         /\ Program("repair", k)[3].do = "create" /\ Program("repair", k)[4].do = "copy"
         /\ Program("repair", k)[5].do = "verify" /\ Program("repair", k)[6].do = "rename"
         /\ Program("repair", k)[7].do = "rename" /\ Program("repair", k)[8].do = "verify"
         /\ Program("repair", k)[9].do = "discard"
  BY RepairText, Fields

LEMMA RenameCan ==
  ASSUME NEW k, NEW from, NEW to, NEW u, Current = Rename(k, from, to, u),
         disk[k][from].exists, ~disk[k][to].exists
  PROVE  Possible(Current)
<1>1. Current.kind = k /\ Current.from = from /\ Current.to = to
  BY Fields
<1> QED
  BY <1>1 DEF Possible

\* Every rename finds its source and no target.
LEMMA AlwaysPossible ==
  ASSUME IInv, Running
  PROVE  Possible(Current)
<1>1. /\ run.kind \in Kind
      /\ run.prog \in {"drop", "repair", "activate", "append", "complete", "compact", "putBack"}
  BY AtEnd DEF IInv
<1>2. Current.do # "rename" => Possible(Current)
  BY DEF Possible
<1>3. CASE run.prog = "drop"
  <2>1. Current.do = "remove"
    BY <1>3, DropText, Fields DEF IInv, Program_at, Current
  <2> QED
    BY <1>2, <2>1
<1>4. CASE run.prog = "activate"
  <2>1. run.at \in 1 .. 4 /\ ActivateAt(disk[run.kind])
    BY <1>4 DEF IInv, Program_at
  <2>2. CASE run.at = 2
    <3>1. Current = Rename(run.kind, "fresh", "current", "giveUp")
      BY <1>4, <2>2, ActivateText DEF Current
    <3>2. disk[run.kind]["fresh"].exists /\ ~disk[run.kind]["current"].exists
      BY <2>1, <2>2 DEF ActivateAt, Aside, Valid
    <3> QED
      BY <3>1, <3>2, RenameCan
  <2>3. CASE run.at # 2
    <3>1. Current.do # "rename"
      BY <1>4, <2>1, <2>3, ActivateText, Fields DEF Current
    <3> QED
      BY <1>2, <3>1
  <2> QED
    BY <2>2, <2>3
<1>5. CASE run.prog = "repair"
  <2>1. run.at \in 1 .. 9 /\ RepairAt(disk[run.kind])
    BY <1>5 DEF IInv, Program_at
  <2>2. CASE run.at = 6
    <3>1. Current = Rename(run.kind, "current", "old", "giveUp")
      BY <1>5, <2>2, RepairText DEF Current
    <3>2. disk[run.kind]["current"].exists /\ ~disk[run.kind]["old"].exists
      BY <2>1, <2>2 DEF RepairAt, NoSwap, Torn
    <3> QED
      BY <3>1, <3>2, RenameCan
  <2>3. CASE run.at = 7
    <3>1. Current = Rename(run.kind, "fresh", "current", "putBack")
      BY <1>5, <2>3, RepairText DEF Current
    <3>2. disk[run.kind]["fresh"].exists /\ ~disk[run.kind]["current"].exists
      BY <2>1, <2>3 DEF RepairAt, Aside, Valid
    <3> QED
      BY <3>1, <3>2, RenameCan
  <2>4. CASE run.at \notin {6, 7}
    <3>1. Current.do # "rename"
      BY <1>5, <2>1, <2>4, RepairDo DEF Current
    <3> QED
      BY <1>2, <3>1
  <2> QED
    BY <2>2, <2>3, <2>4
<1>6. CASE run.prog = "compact"
  <2> PICK a, c, n : a = disk["action"] /\ c = disk["completion"] /\ n = run.at
    OBVIOUS
  <2>1. n \in 1 .. 17 /\ Compacting(n, a, c, accepted, resolved)
    BY <1>6 DEF IInv, Program_at, CompactAt
  <2>2. CASE n = 9
    <3>1. Current = Rename("completion", "current", "old", "giveUp")
      BY <1>6, <2>2, CompactText DEF Current
    <3>2. c["current"].exists /\ ~c["old"].exists
      BY <2>1, <2>2 DEF Compacting, NoSwap, Valid
    <3> QED
      BY <3>1, <3>2, RenameCan
  <2>3. CASE n = 10
    <3>1. Current = Rename("completion", "fresh", "current", "putBack")
      BY <1>6, <2>3, CompactText DEF Current
    <3>2. c["fresh"].exists /\ ~c["current"].exists
      BY <2>1, <2>3 DEF Compacting, Aside, Valid
    <3> QED
      BY <3>1, <3>2, RenameCan
  <2>4. CASE n = 14
    <3>1. Current = Rename("action", "current", "old", "giveUp")
      BY <1>6, <2>4, CompactText DEF Current
    <3>2. a["current"].exists /\ ~a["old"].exists
      BY <2>1, <2>4 DEF Compacting, NoSwap, Valid
    <3> QED
      BY <3>1, <3>2, RenameCan
  <2>5. CASE n = 15
    <3>1. Current = Rename("action", "fresh", "current", "putBack")
      BY <1>6, <2>5, CompactText DEF Current
    <3>2. a["fresh"].exists /\ ~a["current"].exists
      BY <2>1, <2>5 DEF Compacting, Aside, Valid
    <3> QED
      BY <3>1, <3>2, RenameCan
  <2>6. CASE n \notin {9, 10, 14, 15}
    <3>1. Current.do # "rename"
      BY <1>6, <2>1, <2>6, CompactDo DEF Current
    <3> QED
      BY <1>2, <3>1
  <2> QED
    BY <2>2, <2>3, <2>4, <2>5, <2>6
<1>7. CASE run.prog \in {"append", "complete"}
  <2>1. Current.do = "append"
    BY <1>7, CallText, Fields DEF IInv, Program_at, Current
  <2> QED
    BY <1>2, <2>1
<1>8. CASE run.prog = "putBack"
  <2>1. Current = Rename(run.kind, "old", "current", "giveUp")
    BY <1>8, PutBackText DEF IInv, Program_at, Current
  <2>2. disk[run.kind]["old"].exists /\ ~disk[run.kind]["current"].exists
    BY <1>8 DEF IInv, Program_at, PutBackAt, Aside
  <2> QED
    BY <2>1, <2>2, RenameCan
<1> QED
  BY <1>1, <1>3, <1>4, <1>5, <1>6, <1>7, <1>8

\* What a failure is: one of a primitive that may fail, of a program that has
\* something to lose.
LEMMA FailIs ==
  ASSUME Benign, IInv, Fail
  PROVE  /\ Running /\ Current.do \in Faultable /\ Current.do \notin {"discard", "verify"}
         /\ faults < MaxFaults /\ faults' = faults + 1 /\ losses' = losses
         /\ disk' = disk \/ (Writes(Current) /\ Tear(Current))
         /\ run.prog \in {"drop", "repair", "activate", "append", "complete", "compact"}
         /\ UNCHANGED <<accepted, resolved>>
         /\ IF Current.undo = "giveUp"
            THEN /\ run' = Idle /\ reply' = "io"
                 /\ mode' = IF mode = "booting" THEN "failed" ELSE mode
            ELSE run' = Start(Current.undo, Current.kind, None) /\ UNCHANGED <<mode, reply>>
<1>1. Running /\ Possible(Current)
  BY AlwaysPossible DEF Fail
<1>2. Current.do \in Faultable /\ faults < MaxFaults /\ faults' = faults + 1
  BY <1>1 DEF Fail
<1>3. Current.do \notin {"discard", "verify"}
  BY <1>2 DEF Benign
<1>4. run.prog \in {"drop", "repair", "activate", "append", "complete", "compact", "putBack"}
  BY <1>1, AtEnd DEF IInv
<1>5. run.prog # "putBack"
  <2> SUFFICES ASSUME run.prog = "putBack" PROVE FALSE
    OBVIOUS
  <2>1. faults >= MaxFaults
    BY DEF IInv, Program_at, PutBackAt
  <2> QED
    BY <1>2, <2>1, OutboxAssumption DEF IInv, HistoryTypes
<1>6. run.prog \notin Undo
  BY <1>4, <1>5 DEF Undo
<1> QED
  BY <1>1, <1>2, <1>3, <1>4, <1>5, <1>6 DEF Fail

LEMMA GiveUpOK ==
  ASSUME Benign, IInv, Fail, Current.undo = "giveUp"
  PROVE  IInv' /\ \A k \in Kind : Held(disk', k) = Held(disk, k)
<1>1. /\ Running /\ Current.do \notin {"discard", "verify"}
      /\ faults < MaxFaults /\ faults' = faults + 1 /\ losses' = losses
      /\ disk' = disk \/ (Writes(Current) /\ Tear(Current))
      /\ run.prog \in {"drop", "repair", "activate", "append", "complete", "compact"}
      /\ UNCHANGED <<accepted, resolved>> /\ run' = Idle /\ reply' = "io"
      /\ mode' = IF mode = "booting" THEN "failed" ELSE mode
  BY FailIs
<1>2. /\ Files(disk)' /\ \A k \in Kind : Held(disk', k) = Held(disk, k)
      /\ \A k \in Kind : NoSwap(disk[k]) => NoSwap(disk'[k])
  <2>1. CASE disk' = disk
    BY <2>1 DEF IInv, Held
  <2>2. CASE Writes(Current) /\ Tear(Current)
    BY <1>1, <2>2, TearOK
  <2> QED
    BY <1>1, <2>1, <2>2
<1>3. faults' \in 0 .. MaxFaults /\ losses' \in 0 .. MaxPowerLosses /\ faults' # 0
  BY <1>1, OutboxAssumption DEF IInv, HistoryTypes
<1>4. mode \in {"booting", "ready"}
  BY <1>1 DEF IInv, RunTypes, Modes
<1>5. mode = "ready" => \A k \in Kind : NoSwap(disk[k])
  <2> SUFFICES ASSUME mode = "ready" PROVE \A k \in Kind : NoSwap(disk[k])
    OBVIOUS
  <2>1. CASE run.prog \in {"append", "complete"}
    BY <2>1 DEF IInv, Program_at, AppendAt, CompleteAt
  <2>2. CASE run.prog = "compact"
    <3> PICK a, c, n : a = disk["action"] /\ c = disk["completion"] /\ n = run.at
      OBVIOUS
    <3>1. n \in 1 .. 17 /\ Compacting(n, a, c, accepted, resolved)
      BY <2>2 DEF IInv, Program_at, CompactAt
    <3>2. n \notin {4, 7, 11, 12, 16, 17}
      BY <1>1, <2>2, CompactDo DEF Current
    <3>3. n \notin {10, 15}
      <4>1. n = 10 => Current = Rename("completion", "fresh", "current", "putBack")
        BY <2>2, CompactText DEF Current
      <4>2. n = 15 => Current = Rename("action", "fresh", "current", "putBack")
        BY <2>2, CompactText DEF Current
      <4> QED
        BY <4>1, <4>2, Fields
    <3>4. n <= 9 \/ n \in 13 .. 14
      BY <3>1, <3>2, <3>3
    <3>5. NoSwap(a) /\ NoSwap(c)
      BY <3>1, <3>4 DEF Compacting
    <3> QED
      BY <3>5 DEF Kind
  <2>3. CASE run.prog \in {"drop", "repair", "activate"}
    BY <2>3 DEF IInv, Modes
  <2> QED
    BY <1>1, <2>1, <2>2, <2>3
<1>6. mode' \in {"failed", "ready"} /\ (mode' = "ready" => \A k \in Kind : NoSwap(disk'[k]))
  BY <1>1, <1>2, <1>4, <1>5
<1> QED
  BY <1>1, <1>2, <1>3, <1>6, StopOK

\* The rename of the fresh file has failed: the old one is to be put back.
LEMMA FallBackOK ==
  ASSUME Benign, IInv, Fail, Current.undo # "giveUp"
  PROVE  IInv' /\ \A k \in Kind : Held(disk', k) = Held(disk, k)
<1>1. /\ Running /\ Current.do \in Faultable /\ Current.do \notin {"discard", "verify"}
      /\ faults < MaxFaults /\ faults' = faults + 1 /\ losses' = losses
      /\ disk' = disk \/ (Writes(Current) /\ Tear(Current))
      /\ run.prog \in {"drop", "repair", "activate", "append", "complete", "compact"}
      /\ UNCHANGED <<accepted, resolved, mode, reply>>
      /\ run' = Start(Current.undo, Current.kind, None)
  BY FailIs
<1>2. PICK k \in Kind :
        /\ Current = Rename(k, "fresh", "current", "putBack")
        /\ \/ run.prog = "repair" /\ run.at = 7 /\ k = run.kind
           \/ run.prog = "compact" /\ run.at = 10 /\ k = "completion"
           \/ run.prog = "compact" /\ run.at = 15 /\ k = "action"
  <2>1. CASE run.prog = "repair"
    <3>1. run.at \in 1 .. 9 /\ run.kind \in Kind
      BY <2>1 DEF IInv, Program_at, RunTypes
    <3>2. run.at \notin {5, 8, 9}
      BY <1>1, <2>1, RepairDo DEF Current
    <3>3. run.at \notin {1, 2, 3, 4, 6}
      BY <2>1, Undos DEF Current
    <3>4. run.at = 7
      BY <3>1, <3>2, <3>3
    <3> QED
      BY <2>1, <3>1, <3>4, RepairText DEF Current
  <2>2. CASE run.prog = "compact"
    <3>1. run.at \in 1 .. 17
      BY <2>2 DEF IInv, Program_at
    <3>2. run.at \notin {4, 7, 11, 12, 16, 17}
      BY <1>1, <2>2, CompactDo DEF Current
    <3>3. run.at \notin {1, 2, 3, 5, 6, 8, 9, 13, 14}
      BY <2>2, Undos DEF Current
    <3>4. run.at = 10 \/ run.at = 15
      BY <3>1, <3>2, <3>3
    <3>5. CASE run.at = 10
      BY <2>2, <3>5, CompactText DEF Current, Kind
    <3>6. CASE run.at = 15
      BY <2>2, <3>6, CompactText DEF Current, Kind
    <3> QED
      BY <3>4, <3>5, <3>6
  <2>3. CASE run.prog \in {"append", "complete"}
    BY <2>3, CallText, Fields DEF IInv, Program_at, Current
  <2>4. CASE run.prog = "drop"
    BY <2>4, Undos DEF IInv, Program_at, Current
  <2>5. CASE run.prog = "activate"
    <3>1. run.at \in 1 .. 4
      BY <2>5 DEF IInv, Program_at
    <3>2. run.at \notin {3, 4}
      BY <1>1, <2>5, ActivateText, Fields DEF Current
    <3>3. run.at \notin {1, 2}
      BY <2>5, Undos DEF Current
    <3> QED
      BY <3>1, <3>2, <3>3
  <2> QED
    BY <1>1, <2>1, <2>2, <2>3, <2>4, <2>5
<1>3. /\ Current.do = "rename" /\ Current.undo = "putBack" /\ Current.kind = k
  BY <1>2, Fields
<1>4. disk' = disk
  BY <1>1, <1>3 DEF Writes
<1>5. /\ run' = [prog |-> "putBack", kind |-> k, at |-> 1, arg |-> None]
      /\ UNCHANGED <<disk, mode, reply, accepted, resolved>>
  BY <1>1, <1>3, <1>4 DEF Start
<1>6. run'.prog = "putBack" /\ run'.kind = k /\ run'.at = 1
  BY <1>5
<1>7. faults' > 0 /\ faults' >= MaxFaults /\ faults' \in 0 .. MaxFaults
  BY <1>1, <1>3, OutboxAssumption DEF Benign, IInv, HistoryTypes
<1>8. Files(disk)' /\ \A l \in Kind : Held(disk', l) = Held(disk, l)
  BY <1>5 DEF IInv, Held
<1>9. RunTypes'
  <2>1. run' \in [prog : ProgramName, kind : Kind, at : Nat \ {0}, arg : Action \cup {None}]
    BY <1>5 DEF ProgramName, Undo
  <2>2. 1 \in DOMAIN Program("putBack", k)
    BY PutBackText
  <2> QED
    BY <1>5, <1>6, <2>1, <2>2 DEF IInv, RunTypes
<1>10. HistoryTypes' /\ History'
  BY <1>1, <1>5, <1>7 DEF IInv, HistoryTypes, History
<1>11. Modes'
  <2>1. CASE run.prog = "repair" /\ k = run.kind
    <3>1. mode = "booting" /\ (run.kind = "completion" => Clean(disk["action"]))
      BY <1>1, <2>1 DEF IInv, Modes, RunTypes
    <3> QED
      BY <1>5, <1>6, <1>7, <2>1, <3>1 DEF Modes, Running
  <2>2. CASE run.prog = "compact"
    <3>1. mode = "ready"
      BY <1>1, <2>2 DEF IInv, Modes, RunTypes
    <3> QED
      BY <1>5, <1>6, <1>7, <3>1 DEF Modes, Running
  <2> QED
    BY <1>2, <2>1, <2>2
<1>12. PutBackAt'
  <2> PICK a, c : a = disk["action"] /\ c = disk["completion"]
    OBVIOUS
  <2>1. CASE run.prog = "repair" /\ run.at = 7 /\ k = run.kind
    <3>1. Aside(disk[k]) /\ disk[k]["fresh"].frames = disk[k]["old"].frames
      BY <2>1 DEF IInv, Program_at, RepairAt
    <3>2. mode = "booting"
      BY <1>1, <2>1 DEF IInv, Modes, RunTypes
    <3> QED
      BY <1>5, <1>6, <1>7, <3>1, <3>2 DEF PutBackAt
  <2>2. CASE run.prog = "compact" /\ run.at = 10 /\ k = "completion"
    <3>1. Compacting(10, a, c, accepted, resolved)
      BY <2>2 DEF IInv, Program_at, CompactAt
    <3>2. /\ Aside(c) /\ NoSwap(a) /\ Valid(a["current"])
          /\ Sound(a["current"].frames, c["old"].frames, accepted, resolved)
      BY <3>1 DEF Compacting
    <3>3. Sound(Held(disk, "action"), c["old"].frames, accepted, resolved)
      BY <3>2 DEF Held, Valid
    <3>4. mode = "ready"
      BY <1>1, <2>2 DEF IInv, Modes, RunTypes
    <3>5. \A l \in Kind : l # "completion" => NoSwap(disk[l])
      BY <3>2 DEF Kind
    <3> QED
      BY <1>5, <1>6, <1>7, <2>2, <3>2, <3>3, <3>4, <3>5 DEF PutBackAt
  <2>3. CASE run.prog = "compact" /\ run.at = 15 /\ k = "action"
    <3>1. Compacting(15, a, c, accepted, resolved)
      BY <2>3 DEF IInv, Program_at, CompactAt
    <3>2. /\ Aside(a) /\ NoSwap(c) /\ c["current"] = Empty
          /\ Sound(a["old"].frames, <<>>, accepted, resolved)
      BY <3>1 DEF Compacting
    <3>3. Sound(a["old"].frames, Held(disk, "completion"), accepted, resolved)
      BY <3>2, NoFrames DEF Held
    <3>4. mode = "ready"
      BY <1>1, <2>3 DEF IInv, Modes, RunTypes
    <3>5. \A l \in Kind : l # "action" => NoSwap(disk[l])
      BY <3>2 DEF Kind
    <3> QED
      BY <1>5, <1>6, <1>7, <2>3, <3>2, <3>3, <3>4, <3>5 DEF PutBackAt
  <2> QED
    BY <1>2, <2>1, <2>2, <2>3
<1>13. Program_at'
  BY <1>6, <1>12 DEF Program_at
<1>14. Sound(Held(disk, "action"), Held(disk, "completion"), accepted, resolved)'
  BY <1>5 DEF IInv
<1> QED
  BY <1>8, <1>9, <1>10, <1>11, <1>13, <1>14 DEF IInv

-----------------------------------------------------------------------------
(* The specification.                                                      *)

LEMMA InitOK == Init => IInv
<1> SUFFICES ASSUME Init PROVE IInv
  OBVIOUS
<1>1. \A k \in Kind, s \in Slot : disk[k][s] = Absent
  BY DEF Init
<1>2. Absent \in Journal /\ ~Absent.exists /\ Absent.frames = <<>> /\ Len(<<>>) = 0
  BY NoFrames
<1>3. /\ "action" \in Kind /\ "completion" \in Kind
      /\ "current" \in Slot /\ "fresh" \in Slot /\ "old" \in Slot
  BY DEF Kind, Slot
<1>4. Typed(disk)
  <2>1. disk \in [Kind -> [Slot -> Journal]]
    BY <1>2 DEF Init
  <2> QED
    BY <1>1, <1>2, <2>1, OutboxAssumption DEF Typed
<1>5. \A k \in Kind : NoSwap(disk[k])
  BY <1>1, <1>2, <1>3 DEF NoSwap
<1>6. Files(disk)
  BY <1>4, <1>5 DEF Files, Shape
<1>7. run.prog = "idle" /\ mode = "off" /\ accepted = <<>> /\ resolved = {} /\ reply = "none"
  BY DEF Init, Idle
<1>8. RunTypes
  BY <1>7 DEF Init, RunTypes, Running, Idle, ProgramName, Kind
<1>9. HistoryTypes
  BY OutboxAssumption DEF Init, HistoryTypes
<1>10. History
  <2>1. resolved = {accepted[i] : i \in 1 .. 0} /\ 0 \in 0 .. Len(accepted)
    BY <1>2, <1>7
  <2> QED
    BY <1>2, <1>7, <2>1 DEF History
<1>11. Modes
  BY <1>7 DEF Modes, Running
<1>12. Program_at
  BY <1>7 DEF Program_at
<1>13. Sound(Held(disk, "action"), Held(disk, "completion"), accepted, resolved)
  <2>1. Held(disk, "action") = <<>> /\ Held(disk, "completion") = <<>>
    BY <1>1, <1>2, <1>3 DEF Held
  <2> QED
    BY <1>2, <1>7, <2>1 DEF Sound
<1> QED
  BY <1>6, <1>8, <1>9, <1>10, <1>11, <1>12, <1>13 DEF IInv

\* What a step does to the frames a boot would find.
SameHeld == \A k \in Kind : Held(disk', k) = Held(disk, k)

LEMMA ExecuteOK ==
  ASSUME IInv, Execute
  PROVE  IInv' /\ (mode = "booting" \/ mode' \in {"off", "booting"} => SameHeld)
<1>1. Running
  BY DEF Execute
<1>2. run.prog \in {"drop", "repair", "activate", "append", "complete", "compact", "putBack"}
  BY <1>1, AtEnd DEF IInv
<1>3. CASE run.prog = "drop"
  BY <1>3, DropExec DEF SameQueue, SameHeld
<1>4. CASE run.prog = "repair"
  BY <1>4, RepairExec DEF SameQueue, SameHeld
<1>5. CASE run.prog = "activate"
  BY <1>5, ActivateExec DEF SameQueue, SameHeld
<1>6. CASE run.prog = "append"
  <2>1. mode = "ready"
    BY <1>6 DEF IInv, RunTypes, Modes, Running
  <2> QED
    BY <1>6, <2>1, AppendExec
<1>7. CASE run.prog = "complete"
  <2>1. mode = "ready"
    BY <1>7 DEF IInv, RunTypes, Modes, Running
  <2> QED
    BY <1>7, <2>1, CompleteExec
<1>8. CASE run.prog = "compact"
  BY <1>8, CompactExec
<1>9. CASE run.prog = "putBack"
  BY <1>9, PutBackExec DEF SameHeld
<1> QED
  BY <1>2, <1>3, <1>4, <1>5, <1>6, <1>7, <1>8, <1>9

\* Every step keeps the invariant, and a recovery finds the same frames
\* however often it is interrupted.
LEMMA StepOK ==
  ASSUME Benign, IInv, [Next]_vars
  PROVE  IInv' /\ (mode = "booting" \/ mode' \in {"off", "booting"} => SameHeld)
<1>1. ASSUME NEW a \in Action, AppendCall(a)
      PROVE  IInv' /\ SameHeld
  BY <1>1, AppendCallOK DEF SameHeld
<1>2. ASSUME NEW a \in Action, CompleteCall(a)
      PROVE  IInv' /\ SameHeld
  BY <1>2, CompleteCallOK DEF SameHeld
<1>3. CASE Fail
  BY <1>3, GiveUpOK, FallBackOK DEF SameHeld
<1>4. CASE PowerLoss
  BY <1>4, PowerLossOK DEF SameHeld
<1>5. CASE Boot
  BY <1>5, BootOK DEF SameHeld
<1>6. CASE UNCHANGED vars
  <2>1. UNCHANGED <<disk, mode, run, reply, accepted, resolved, faults, losses>>
    BY <1>6 DEF vars
  <2>2. SameHeld
    BY <2>1 DEF SameHeld
  <2>3. RunTypes' /\ HistoryTypes' /\ History' /\ Files(disk)'
    BY <2>1 DEF IInv, RunTypes, HistoryTypes, History, Running
  <2>4. Modes'
    BY <2>1 DEF IInv, Modes, Running
  <2>5. Sound(Held(disk, "action"), Held(disk, "completion"), accepted, resolved)'
    BY <2>1 DEF IInv
  <2>6. Program_at'
    BY <2>1, SameProgram DEF IInv
  <2> QED
    BY <2>2, <2>3, <2>4, <2>5, <2>6 DEF IInv
<1> QED
  BY <1>1, <1>2, <1>3, <1>4, <1>5, <1>6, ExecuteOK DEF Next

\* What the invariant says of the frames that a boot would find.
LEMMA HeldIs ==
  ASSUME IInv
  PROVE  /\ Held(disk, "action") \in Seq(Action) /\ Held(disk, "completion") \in Seq(Action)
         /\ RecoveredFrames("action") = Held(disk, "action")
         /\ RecoveredFrames("completion") = Held(disk, "completion")
         /\ Sound(Held(disk, "action"), Held(disk, "completion"), accepted, resolved)
         /\ accepted \in Seq(Action)
<1>1. "action" \in Kind /\ "completion" \in Kind /\ Files(disk)
  BY DEF Kind, IInv
<1>2. \A k \in Kind : Held(disk, k) \in Seq(Action)
  BY DEF IInv, Files, Typed, Held, Journal, Slot
<1> QED
  BY <1>1, <1>2, HeldIsRecovered DEF IInv, HistoryTypes

\* The pending actions of a sound journal are the last ones confirmed.
LEMMA PendingAre ==
  ASSUME NEW a \in Seq(Action), NEW c \in Seq(Action), NEW acc \in Seq(Action), NEW res,
         Sound(a, c, acc, res)
  PROVE  \E h \in 0 .. Len(acc) :
           /\ h = Len(acc) - Len(a) + Len(c) /\ \A i \in 1 .. h : acc[i] \in res
           /\ Rest(a, Len(c)) = Rest(acc, h) /\ Len(Rest(a, Len(c))) = Len(acc) - h
<1>0. PICK h \in 0 .. Len(acc) : Len(acc) - h = Len(a) - Len(c)
  <2>1. Len(c) <= Len(a) /\ Len(a) <= Len(acc)
    BY DEF Sound
  <2>2. /\ Len(acc) - Len(a) + Len(c) \in 0 .. Len(acc)
        /\ Len(acc) - (Len(acc) - Len(a) + Len(c)) = Len(a) - Len(c)
    BY <2>1
  <2> QED
    BY <2>2
<1>1. /\ Len(c) <= Len(a) /\ Len(a) <= Len(acc)
      /\ \A i \in 1 .. Len(a) : a[i] = acc[Len(acc) - Len(a) + i]
      /\ h = Len(acc) - Len(a) + Len(c) /\ \A i \in 1 .. h : acc[i] \in res
  BY <1>0 DEF Sound
<1>2. Len(c) \in 0 .. Len(a)
  BY <1>1
<1>3. /\ Rest(a, Len(c)) \in Seq(Action) /\ Len(Rest(a, Len(c))) = Len(a) - Len(c)
      /\ \A i \in 1 .. Len(a) - Len(c) : Rest(a, Len(c))[i] = a[Len(c) + i]
  BY <1>2, RestOK
<1>4. /\ Rest(acc, h) \in Seq(Action) /\ Len(Rest(acc, h)) = Len(acc) - h
      /\ \A i \in 1 .. Len(acc) - h : Rest(acc, h)[i] = acc[h + i]
  <2>1. h \in 0 .. Len(acc)
    BY <1>0
  <2> QED
    BY <2>1 DEF Rest
<1>5. ASSUME NEW i \in 1 .. Len(a) - Len(c)
      PROVE  Rest(a, Len(c))[i] = Rest(acc, h)[i]
  <2>1. Len(c) + i \in 1 .. Len(a) /\ Len(acc) - Len(a) + (Len(c) + i) = h + i
    <3>1. PICK l, m, n : l = Len(acc) /\ m = Len(a) /\ n = Len(c)
      OBVIOUS
    <3>2. l \in Nat /\ m \in Nat /\ n \in Nat
      BY <3>1, FramesOf
    <3>3. h = l - m + n /\ i \in 1 .. m - n
      BY <1>1, <3>1
    <3>4. n + i \in 1 .. m /\ l - m + (n + i) = h + i
      BY <3>2, <3>3
    <3> QED
      BY <3>1, <3>4
  <2>2. a[Len(c) + i] = acc[h + i]
    BY <1>1, <2>1
  <2> QED
    BY <1>0, <1>2, <1>3, <1>4, <2>2
<1>6. Rest(a, Len(c)) = Rest(acc, h)
  <2>1. \A i \in 1 .. Len(Rest(a, Len(c))) : Rest(a, Len(c))[i] = Rest(acc, h)[i]
    BY <1>3, <1>5
  <2>2. Len(Rest(a, Len(c))) = Len(Rest(acc, h))
    BY <1>0, <1>2, <1>3, <1>4
  <2> QED
    BY <1>3, <1>4, <2>1, <2>2, SameFrames
<1> QED
  BY <1>0, <1>1, <1>2, <1>4, <1>6

\* The actions that the queue would offer are the last ones confirmed, and all
\* before them have an outcome.
LEMMA SurvivorsAre ==
  ASSUME IInv
  PROVE  \E h \in 0 .. Len(accepted) :
           /\ h = Len(accepted) - Len(Held(disk, "action")) + Len(Held(disk, "completion"))
           /\ Survivors = Rest(accepted, h)
           /\ Len(Survivors) = Len(accepted) - h
           /\ \A i \in 1 .. h : accepted[i] \in resolved
<1> PICK a, c : a = Held(disk, "action") /\ c = Held(disk, "completion")
  OBVIOUS
<1>1. /\ a \in Seq(Action) /\ c \in Seq(Action) /\ Sound(a, c, accepted, resolved)
      /\ accepted \in Seq(Action) /\ Survivors = Rest(a, Len(c))
  BY HeldIs DEF Survivors
<1> QED
  BY <1>1, PendingAre

LEMMA AlwaysIInv ==
  ASSUME Benign
  PROVE  Spec => []IInv
<1>1. IInv /\ [Next]_vars => IInv'
  BY StepOK
<1> QED
  BY <1>1, InitOK, PTL DEF Spec

\* The six files, the program counter and the histories are of their kinds, a
\* program counter points at an instruction of its program, and no journal
\* outgrows what a reader accepts.
THEOREM OutboxTypeCorrect ==
  ASSUME Benign
  PROVE  Spec => []TypeOK
<1>1. IInv => TypeOK
  BY DEF IInv, Files, Typed, DiskTypes, TypeOK
<1> QED
  BY <1>1, AlwaysIInv, PTL

\* Whatever instant the power is cut, the recovered queue offers exactly the
\* last confirmed actions, in the order they were stored, and every earlier
\* one had a known outcome (Outbox::append, compact, recoverJournal).
THEOREM ConfirmedActionsSurvive ==
  ASSUME Benign
  PROVE  Spec => []NoConfirmedActionLost
<1>1. ASSUME IInv PROVE NoConfirmedActionLost
  <2>1. PICK h \in 0 .. Len(accepted) :
          Survivors = Rest(accepted, h) /\ \A i \in 1 .. h : accepted[i] \in resolved
    BY <1>1, SurvivorsAre
  <2>2. accepted \in Seq(Action)
    BY <1>1, HeldIs
  <2>3. /\ SubSeq(accepted, 1, h) \in Seq(Action) /\ Len(SubSeq(accepted, 1, h)) = h
        /\ \A i \in 1 .. h : SubSeq(accepted, 1, h)[i] = accepted[i]
    BY <2>2
  <2>4. Range(SubSeq(accepted, 1, h)) \subseteq resolved
    BY <2>1, <2>3 DEF Range
  <2> QED
    BY <2>1, <2>4 DEF NoConfirmedActionLost
<1> QED
  BY <1>1, AlwaysIInv, PTL

\* The recovered completions are always the first recovered actions, so that
\* scanQueue never finds a hole (scanQueue, and the order in which compact
\* clears the journals).
THEOREM CompletionsStayInStep ==
  ASSUME Benign
  PROVE  Spec => []CompletionsMatchActions
<1>1. ASSUME IInv PROVE CompletionsMatchActions
  <2> PICK a, c : a = Held(disk, "action") /\ c = Held(disk, "completion")
    OBVIOUS
  <2>1. /\ a \in Seq(Action) /\ c \in Seq(Action) /\ Sound(a, c, accepted, resolved)
        /\ RecoveredFrames("action") = a /\ RecoveredFrames("completion") = c
    BY <1>1, HeldIs
  <2>2. IsPrefixOf(c, a)
    BY <2>1, PrefixIs DEF Sound
  <2> QED
    BY <2>1, <2>2 DEF CompletionsMatchActions
<1> QED
  BY <1>1, AlwaysIInv, PTL

\* Without a reported failure every power cycle ends in a readable outbox, and
\* no call reports an error (Outbox::begin, Outbox::append, Outbox::complete).
THEOREM OutboxIsUsable ==
  ASSUME Benign
  PROVE  Spec => []NeverBricked
<1>1. IInv => NeverBricked
  BY DEF IInv, Modes, NeverBricked
<1> QED
  BY <1>1, AlwaysIInv, PTL

\* A recovery interrupted at any point and started again yields the same queue
\* (recoverJournal).
THEOREM RecoveryCanBeRepeated ==
  ASSUME Benign
  PROVE  Spec => RecoveryIsStable
<1>1. IInv => \A k \in Kind : RecoveredFrames(k) = Held(disk, k)
  BY HeldIsRecovered DEF IInv
<1>2. IInv' => (\A k \in Kind : RecoveredFrames(k) = Held(disk, k))'
  BY <1>1, PTL
<1>3. ASSUME IInv, [Next]_vars, mode = "booting" \/ mode' \in {"off", "booting"}
      PROVE  Survivors' = Survivors
  <2>1. IInv' /\ SameHeld
    BY <1>3, StepOK
  <2> QED
    BY <1>1, <1>2, <1>3, <2>1 DEF Survivors, SameHeld, Kind
<1>4. IInv /\ [Next]_vars =>
        [mode = "booting" \/ mode' \in {"off", "booting"} => Survivors' = Survivors]_vars
  BY <1>3
<1> QED
  BY <1>4, AlwaysIInv, PTL DEF Spec, RecoveryIsStable

-----------------------------------------------------------------------------
(* The queue that the outbox promises.                                     *)

\* Distinct actions, counted.
Distinct(acc, n) == \A i, j \in 1 .. n : acc[i] = acc[j] => i = j

LEMMA CountKnown ==
  ASSUME NEW acc, NEW n \in Nat, Distinct(acc, n)
  PROVE  /\ IsFiniteSet({acc[i] : i \in 1 .. n})
         /\ Cardinality({acc[i] : i \in 1 .. n}) = n
<1> DEFINE S == {acc[i] : i \in 1 .. n}
           f == [i \in 1 .. n |-> acc[i]]
<1>1. f \in Bijection(1 .. n, S)
  BY DEF Distinct, Bijection, Injection, Surjection, IsInjective
<1>2. ExistsBijection(1 .. n, S)
  BY <1>1 DEF ExistsBijection
<1>3. IsFiniteSet(1 .. n) /\ Cardinality(1 .. n) = n
  BY FS_Interval
<1> QED
  BY <1>2, <1>3, FS_Bijection

\* How many actions have a known outcome, and how many of these are not offered.
HeadIs(h, n) ==
  /\ n \in 0 .. Len(accepted) /\ h \in 0 .. n
  /\ IsFiniteSet(resolved) /\ n = Cardinality(resolved)
  /\ resolved = {accepted[i] : i \in 1 .. n}
  /\ h = Len(accepted) - Len(Survivors)
  /\ h = Len(accepted) - Len(Held(disk, "action")) + Len(Held(disk, "completion"))

LEMMA HeadOK == IInv => \E n, h \in Nat : HeadIs(h, n)
<1> SUFFICES ASSUME IInv PROVE \E n, h \in Nat : HeadIs(h, n)
  OBVIOUS
<1>1. PICK n \in 0 .. Len(accepted) : resolved = {accepted[i] : i \in 1 .. n}
  BY DEF IInv, History
<1>2. PICK h \in 0 .. Len(accepted) :
        /\ h = Len(accepted) - Len(Held(disk, "action")) + Len(Held(disk, "completion"))
        /\ Len(Survivors) = Len(accepted) - h
        /\ \A i \in 1 .. h : accepted[i] \in resolved
  BY SurvivorsAre
<1>3. Len(accepted) \in Nat
  BY DEF IInv, HistoryTypes
<1>4. \A i, j \in 1 .. Len(accepted) : accepted[i] = accepted[j] => i = j
  BY DEF IInv, History
<1>5. IsFiniteSet(resolved) /\ n = Cardinality(resolved)
  <2>1. Distinct(accepted, n)
    BY <1>3, <1>4 DEF Distinct
  <2>2. n \in Nat
    BY <1>3
  <2>3. /\ IsFiniteSet({accepted[i] : i \in 1 .. n})
        /\ Cardinality({accepted[i] : i \in 1 .. n}) = n
    BY <2>1, <2>2, CountKnown
  <2> QED
    BY <1>1, <2>3
<1>6. h <= n
  <2> SUFFICES ASSUME ~(h <= n) PROVE FALSE
    OBVIOUS
  <2>1. h \in 1 .. h /\ h \in 1 .. Len(accepted)
    BY <1>3
  <2>2. PICK i \in 1 .. n : accepted[h] = accepted[i]
    BY <1>1, <1>2, <2>1
  <2>3. i \in 1 .. Len(accepted) /\ i # h
    BY <1>3
  <2> QED
    BY <1>4, <2>1, <2>2, <2>3
<1>7. h = Len(accepted) - Len(Survivors)
  BY <1>2, <1>3
<1>8. HeadIs(h, n)
  BY <1>1, <1>2, <1>5, <1>6, <1>7 DEF HeadIs
<1> QED
  BY <1>3, <1>8

\* Only the last step of an append and of a completion confirm an action.
LEMMA Confirms ==
  ASSUME Benign, IInv, [Next]_vars,
         Execute => run.prog \notin {"append", "complete"}
  PROVE  UNCHANGED <<accepted, resolved>>
<1>1. CASE Execute
  <2>1. run.prog \in {"drop", "repair", "activate", "compact", "putBack"}
    BY <1>1, AtEnd DEF IInv, Execute
  <2>2. CASE run.prog = "compact"
    BY <1>1, <2>2, CompactExec
  <2>3. CASE run.prog \in {"drop", "repair", "activate", "putBack"}
    BY <1>1, <2>3 DEF Execute, StepOrEnd, StepOn, EndOfProgram, Recovery, Undo
  <2> QED
    BY <2>1, <2>2, <2>3
<1>2. CASE Fail
  BY <1>2, FailIs
<1>3. CASE PowerLoss \/ Boot \/ UNCHANGED vars
  BY <1>3 DEF PowerLoss, Boot, vars
<1>4. ASSUME NEW a \in Action, AppendCall(a) \/ CompleteCall(a)
      PROVE  UNCHANGED <<accepted, resolved>>
  BY <1>4, AppendCallOK, CompleteCallOK
<1> QED
  BY <1>1, <1>2, <1>3, <1>4 DEF Next

LEMMA QueueInit == Init => Queue!Init
<1> SUFFICES ASSUME Init PROVE Queue!Init
  OBVIOUS
<1>1. accepted = <<>> /\ resolved = {} /\ Len(<<>>) = 0
  BY DEF Init
<1>2. Cardinality(resolved) = 0
  BY <1>1, FS_EmptySet
<1>3. PICK n, h \in Nat : HeadIs(h, n)
  BY InitOK, HeadOK
<1>4. Len(accepted) - Len(Survivors) = 0
  BY <1>1, <1>3 DEF HeadIs
<1> QED
  BY <1>1, <1>2, <1>4 DEF Queue!Init

LEMMA QueueStep ==
  ASSUME Benign, IInv, [Next]_vars,
         NEW n \in Nat, NEW h \in Nat, HeadIs(h, n),
         NEW n2 \in Nat, NEW h2 \in Nat, HeadIs(h2, n2)'
  PROVE  Queue!Next
<1>1. /\ Cardinality(resolved) = n /\ Cardinality(resolved') = n2
      /\ Len(accepted) - Len(Survivors) = h /\ Len(accepted') - Len(Survivors') = h2
      /\ h \in 0 .. n /\ n \in 0 .. Len(accepted)
      /\ h2 \in 0 .. n2 /\ resolved = {accepted[i] : i \in 1 .. n}
  BY DEF HeadIs
<1>len. PICK l, m, c : /\ l = Len(accepted) /\ m = Len(Held(disk, "action"))
                   /\ c = Len(Held(disk, "completion"))
  OBVIOUS
<1>next. PICK l2, m2, c2 : /\ l2 = Len(accepted') /\ m2 = Len(Held(disk', "action"))
                      /\ c2 = Len(Held(disk', "completion"))
  OBVIOUS
<1>2. h = l - m + c /\ h2 = l2 - m2 + c2
  BY <1>len, <1>next DEF HeadIs
<1>3. /\ accepted \in Seq(Action) /\ Held(disk, "action") \in Seq(Action)
      /\ Held(disk, "completion") \in Seq(Action)
  BY HeldIs
<1>4. l \in Nat /\ m \in Nat /\ c \in Nat
  BY <1>len, <1>3
<1>5. CASE Execute /\ run.prog = "append"
  <2>1. /\ resolved' = resolved /\ run.arg \in Action /\ accepted' = Append(accepted, run.arg)
        /\ Held(disk', "action") = Append(Held(disk, "action"), run.arg)
        /\ Held(disk', "completion") = Held(disk, "completion")
    BY <1>5, AppendExec
  <2>2. l2 = l + 1 /\ m2 = m + 1 /\ c2 = c
    BY <1>len, <1>next, <1>3, <2>1
  <2>3. h2 = h
    BY <1>2, <1>4, <2>2
  <2>4. n2 = n
    BY <1>1, <2>1
  <2>5. Queue!Accept(run.arg)
    BY <1>1, <2>1, <2>3, <2>4 DEF Queue!Accept
  <2> QED
    BY <2>1, <2>5 DEF Queue!Next
<1>6. CASE Execute /\ run.prog = "complete"
  <2>1. /\ accepted' = accepted /\ resolved' = resolved \cup {run.arg}
        /\ Held(disk', "action") = Held(disk, "action")
        /\ Len(Held(disk', "completion")) = Len(Held(disk, "completion")) + 1
        /\ Len(Held(disk, "completion")) < Len(Held(disk, "action"))
        /\ run.arg = accepted[Len(accepted) - Len(Held(disk, "action"))
                                + Len(Held(disk, "completion")) + 1]
    BY <1>6, CompleteExec
  <2>2. h2 = h + 1
    <3>1. l2 = l /\ m2 = m /\ c2 = c + 1
      BY <1>len, <1>next, <2>1
    <3> QED
      BY <1>2, <1>4, <3>1
  <2>3. h < l
    <3>1. m <= l /\ c < m
      BY <1>len, <2>1 DEF IInv, Sound
    <3> QED
      BY <1>2, <1>4, <3>1
  <2>4. run.arg = accepted[h + 1]
    BY <1>len, <1>2, <2>1
  <2>5. n2 = IF n < h + 1 THEN h + 1 ELSE n
    <3>1. CASE n < h + 1
      <4>1. n = h
        BY <1>1, <3>1
      <4>2. n + 1 \in 1 .. n + 1 /\ accepted[n + 1] \in resolved'
        BY <2>1, <2>4, <4>1
      <4>3. resolved' # resolved
        <5>1. \A i \in 1 .. n : accepted[i] # accepted[n + 1]
          <6>1. \A i, j \in 1 .. Len(accepted) : accepted[i] = accepted[j] => i = j
            BY DEF IInv, History
          <6>2. \A i \in 1 .. n : i \in 1 .. Len(accepted) /\ i # n + 1
            BY <1>len, <1>1, <1>4
          <6>3. n + 1 \in 1 .. Len(accepted)
            BY <1>len, <1>4, <2>3, <4>1
          <6> QED
            BY <6>1, <6>2, <6>3
        <5> QED
          BY <1>1, <4>2, <5>1
      <4>4. n2 = n + 1
        <5>1. run.arg \notin resolved
          BY <2>1, <4>3
        <5>2. IsFiniteSet(resolved)
          BY DEF HeadIs
        <5> QED
          BY <1>1, <2>1, <5>1, <5>2, FS_AddElement
      <4> QED
        BY <3>1, <4>1, <4>4
    <3>2. CASE ~(n < h + 1)
      <4>1. h + 1 \in 1 .. n
        BY <3>2
      <4>2. run.arg \in resolved
        BY <1>1, <2>4, <4>1
      <4> QED
        BY <1>1, <2>1, <3>2, <4>2
    <3> QED
      BY <3>1, <3>2
  <2>6. Queue!Resolve
    BY <1>len, <1>1, <2>1, <2>2, <2>3, <2>5 DEF Queue!Resolve
  <2> QED
    BY <2>6 DEF Queue!Next
<1>7. CASE ~(Execute /\ run.prog \in {"append", "complete"})
  <2>1. UNCHANGED <<accepted, resolved>>
    BY <1>7, Confirms
  <2>2. n2 = n
    BY <1>1, <2>1
  <2>3. Queue!OfferKnown
    BY <1>1, <2>1, <2>2 DEF Queue!OfferKnown
  <2> QED
    BY <2>3 DEF Queue!Next
<1> QED
  BY <1>5, <1>6, <1>7

\* The outbox implements the queue it promises: actions enter in the order
\* they are confirmed, their outcomes become known in that order, and whatever
\* compaction, power losses and failures do, the queue goes on to offer every
\* action of unknown outcome.
THEOREM OutboxIsAQueue ==
  ASSUME Benign
  PROVE  Spec => ImplementsQueue
<1>1. IInv' => (\E n, h \in Nat : HeadIs(h, n))'
  BY HeadOK, PTL
<1>2. IInv /\ [Next]_vars => [Queue!Next]_Queue!vars
  <2> SUFFICES ASSUME IInv, [Next]_vars PROVE Queue!Next
    OBVIOUS
  <2>1. PICK n, h \in Nat : HeadIs(h, n)
    BY HeadOK
  <2>2. PICK n2, h2 \in Nat : HeadIs(h2, n2)'
    BY <1>1, StepOK
  <2> QED
    BY <2>1, <2>2, QueueStep
<1> QED
  BY <1>2, QueueInit, AlwaysIInv, PTL DEF Spec, ImplementsQueue, Queue!Spec
=============================================================================
