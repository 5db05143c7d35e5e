------------------------------- MODULE Export -------------------------------
(***************************************************************************)
(* The verification package of one employee's record: every writer of an   *)
(* event seals it with a hash of its own recipe and links it to the one    *)
(* before; the export works the hashes out again from the stored columns,  *)
(* by the version, the source and the flags of each row, and examines the  *)
(* links. A hash is the sequence of what is hashed, so two are the same    *)
(* exactly when their texts are; the employee and the company, the same in *)
(* all of them, are left out. A time is text of one of two forms: as the   *)
(* code formats it, and as the database gives a stored one back.           *)
(***************************************************************************)
EXTENDS Integers, Sequences, FiniteSets, SequencesExt

CONSTANTS
  MaxEvents,     \* bound: events written
  ClockTimes,    \* the times at which they are clocked
  Columns        \* columns that may be altered in the stored rows, or "lost"

ASSUME ExportData ==
  /\ MaxEvents \in Nat /\ ClockTimes \subseteq Nat \ {0}
  /\ Columns \subseteq {"kind", "correctedKind", "corrects", "occurredAt", "previousHash",
                       "breakPaid", "lost"}

VARIABLES
  chain,         \* work_events in order of creation
  writes,        \* requests served so far, which names each of them
  damage         \* what happened to the stored rows, "none" or a column

exportVars == <<chain, writes, damage>>

NoText == <<"none", 0>>
Iso(t) == <<"iso", t>>
Db(t) == <<"db", t>>
NoHash == <<>>

\* What a row holds where its writer sets nothing.
Blank ==
  [version |-> "v1", source |-> "web", kind |-> "clock_in", correctedKind |-> "none",
   corrects |-> 0, void |-> FALSE, occurred |-> 1, recorded |-> 1, adjustment |-> 0, manual |-> 0,
   requestId |-> <<"none", 0, 0>>, previous |-> NoHash, terminal |-> "none", captured |-> 0,
   synced |-> 0, sequence |-> 0, offline |-> FALSE, paid |-> FALSE, hash |-> NoHash]

Hashes(c) == {c[i].hash : i \in DOMAIN c}
Referenced(c) == {c[i].previous : i \in DOMAIN c} \ {NoHash}

\* The newest event that no other refers to.
integrityTipHash(c) ==
  LET tips == {i \in DOMAIN c : c[i].hash \notin Referenced(c)}
  IN IF tips = {} THEN NoHash ELSE c[CHOOSE i \in tips : \A j \in tips : j <= i].hash

-----------------------------------------------------------------------------
(* The writers: each row is sealed after its columns are set.              *)

v2Hash(x, occurred, recorded) ==
  <<"v2", x.kind, x.correctedKind, x.corrects, occurred, recorded, x.adjustment, x.requestId,
    x.previous>>

\* An event of the web clock, or a manager's correction sent as one.
webEvent(k, corrected, target, t, adjustment) ==
  LET x == [Blank EXCEPT !.version = "v2", !.kind = k, !.correctedKind = corrected,
                         !.corrects = target, !.occurred = t, !.recorded = t + adjustment,
                         !.adjustment = adjustment, !.requestId = <<"web", writes, 0>>,
                         !.previous = integrityTipHash(chain)]
  IN [x EXCEPT !.hash = v2Hash(x, Iso(x.occurred), Iso(x.recorded))]

\* The correction that the approval of a request writes.
correctionEvent(k, target, t) ==
  LET x == [Blank EXCEPT !.version = "v2", !.source = "admin", !.kind = "correction",
                         !.correctedKind = k, !.corrects = target, !.occurred = t, !.recorded = t,
                         !.requestId = <<"correction-request", writes, 0>>,
                         !.previous = integrityTipHash(chain)]
  IN [x EXCEPT !.hash = v2Hash(x, Iso(x.occurred), Iso(x.recorded))]

\* An event of a declared day, the index-th of its request. Its times are
\* those of the stored request.
manualEvent(c, k, t, index) ==
  LET previous == integrityTipHash(c)
  IN [Blank EXCEPT !.source = "manual", !.kind = k, !.occurred = t, !.manual = writes,
                   !.requestId = <<"manual", writes, index>>, !.previous = previous,
                   !.hash = <<k, Db(t), writes, index, previous>>]

\* The void of an event of a day that is replaced.
voidEvent(c, target) ==
  LET id == <<"replacement-void", writes, 0>>
      previous == integrityTipHash(c)
  IN [Blank EXCEPT !.source = "manual", !.kind = "correction", !.corrects = target,
                   !.void = TRUE, !.occurred = chain[target].occurred, !.manual = writes,
                   !.requestId = id, !.previous = previous,
                   !.hash = <<"correction", "void", target, Db(chain[target].occurred), id,
                              previous>>]

\* An event of a terminal, live or from its queue.
terminalEvent(k, t, adjustment, offline) ==
  LET id == <<"terminal", writes, 0>>
      previous == integrityTipHash(chain)
  IN [Blank EXCEPT !.version = "v3", !.source = "terminal", !.kind = k, !.occurred = t,
                   !.recorded = t + adjustment, !.adjustment = adjustment, !.requestId = id,
                   !.previous = previous, !.terminal = "terminal", !.captured = t + adjustment,
                   !.synced = t, !.sequence = writes, !.offline = offline,
                   !.hash = <<"v3", k, "none", 0, Iso(t), Iso(t + adjustment), adjustment, id,
                              previous, "terminal", Iso(t + adjustment), Iso(t), writes,
                              offline>>]

\* A row from before the versions: the migration called it v1.
legacyEvent ==
  LET id == <<"web", 0, 0>>
  IN [Blank EXCEPT !.requestId = id, !.hash = <<"clock_in", "none", 0, Iso(1), id, NoHash>>]

-----------------------------------------------------------------------------
(* The export.                                                             *)

\* Mistake: only the form the code writes is tried.
dateCanonical(t) == IF t = 0 THEN {NoText} ELSE {Iso(t)}

\* A stored time as it is read and as it may have been hashed.
dateVariants(t) == IF t = 0 THEN {NoText} ELSE {Db(t), Iso(t)}

eventHashMatches(x) ==
  LET occurred == dateVariants(x.occurred)
      recorded == dateVariants(x.recorded)
      declared == x.version = "v1" /\ x.source = "manual" /\ (x.void \/ x.manual # 0)
  IN \/ /\ x.version = "v3"
        /\ \E o \in occurred, r \in recorded,
              c \in dateVariants(x.captured), s \in dateVariants(x.synced) :
             x.hash = <<"v3", x.kind, x.correctedKind, x.corrects, o, r, x.adjustment,
                        x.requestId, x.previous, x.terminal, c, s, x.sequence, x.offline>>
     \/ /\ x.version = "v2"
        /\ \E o \in occurred, r \in recorded : x.hash = v2Hash(x, o, r)
     \/ /\ declared /\ x.void
        /\ \E o \in occurred :
             x.hash = <<"correction", "void", x.corrects, o, x.requestId, x.previous>>
     \/ /\ declared /\ ~x.void
        /\ \E o \in occurred : x.hash = <<x.kind, o, x.manual, x.requestId[3], x.previous>>
     \/ /\ x.version \notin {"v2", "v3"} /\ ~declared
        /\ \E o \in occurred :
             x.hash = <<x.kind, x.correctedKind, x.corrects, o, x.requestId, x.previous>>

\* The status of the package: valid when every hash is there, is its own and
\* is worked out again, every predecessor exists, and there is one root and
\* one tip.
workEventExportData(c) ==
  LET one(S) == c = <<>> \/ Cardinality(S) = 1
  IN /\ \A i \in DOMAIN c :
          /\ c[i].hash # NoHash
          /\ \A j \in 1 .. i - 1 : c[j].hash # c[i].hash
          /\ eventHashMatches(c[i])
          /\ c[i].previous = NoHash \/ c[i].previous \in Hashes(c)
     /\ one({i \in DOMAIN c : c[i].previous = NoHash})
     /\ one({i \in DOMAIN c : c[i].hash \notin Referenced(c)})

-----------------------------------------------------------------------------
(* What is written, and what may happen to the stored rows.                *)

Write(rows) ==
  /\ damage = "none" /\ Len(chain) + Len(rows) <= MaxEvents
  /\ chain' = chain \o rows
  /\ writes' = writes + 1
  /\ UNCHANGED damage

Targets == {i \in DOMAIN chain : chain[i].kind # "correction"}

WebClock(k, t, adjustment) == Write(<<webEvent(k, "none", 0, t, adjustment)>>)
WebCorrection(k, t) == \E i \in Targets : Write(<<webEvent("correction", k, i, t, 0)>>)
CorrectionApproved(k, t) == \E i \in Targets : Write(<<correctionEvent(k, i, t)>>)
TerminalAction(k, t, adjustment, offline) == Write(<<terminalEvent(k, t, adjustment, offline)>>)

\* The events of a declared day, two here, after the voids of the events they
\* replace, one here or none; each is linked to the one before.
ManualDay(voided, t) ==
  LET voids == [i \in 1 .. Cardinality(voided) |-> voidEvent(chain, CHOOSE x \in voided : TRUE)]
      first == manualEvent(chain \o voids, "clock_in", t, 0)
      last  == manualEvent(Append(chain \o voids, first), "clock_out", t + 1, 1)
  IN Write(voids \o <<first, last>>)

Altered(x, column) ==
  CASE column = "kind" -> [x EXCEPT !.kind = IF @ = "break_end" THEN "clock_in" ELSE "break_end"]
    [] column = "correctedKind" -> [x EXCEPT !.correctedKind = "break_end"]
    [] column = "corrects" -> [x EXCEPT !.corrects = @ + 1]
    [] column = "occurredAt" -> [x EXCEPT !.occurred = @ + 1]
    [] column = "previousHash" -> [x EXCEPT !.previous = <<"another">>]
    [] column = "breakPaid" -> [x EXCEPT !.paid = ~@]

\* Some recipe of the row's version covers the column: none covers whether a
\* break is paid, and that of a void neither its kind nor a corrected kind.
Sealed(x, column) ==
  \/ column \in {"occurredAt", "previousHash"}
  \/ column = "kind" /\ ~x.void
  \/ column = "corrects" /\ x.kind = "correction"
  \/ column = "correctedKind" /\ x.kind = "correction" /\ ~x.void

\* A row of the database is changed behind the application, or is lost.
Damage(i, column) ==
  /\ damage = "none" /\ i \in DOMAIN chain
  /\ chain' = IF column = "lost" THEN RemoveAt(chain, i)
              ELSE [chain EXCEPT ![i] = Altered(@, column)]
  /\ damage' = IF IF column = "lost" THEN i < Len(chain) ELSE Sealed(chain[i], column)
               THEN column ELSE "unsealed"
  /\ UNCHANGED writes

ExportInit ==
  /\ chain \in {<<>>, <<legacyEvent>>}
  /\ writes = 1
  /\ damage = "none"

ExportNext ==
  \/ \E k \in {"clock_in", "clock_out"}, t \in ClockTimes :
       \/ \E adjustment \in {0, 1} :
            \/ WebClock(k, t, adjustment)
            \/ \E offline \in BOOLEAN : TerminalAction(k, t, adjustment, offline)
       \/ WebCorrection(k, t) \/ CorrectionApproved(k, t)
  \/ \E voided \in {{}} \union {{i} : i \in Targets}, t \in ClockTimes : ManualDay(voided, t)
  \/ \E i \in 1 .. MaxEvents, column \in Columns : Damage(i, column)

ExportSpec == ExportInit /\ [][ExportNext]_exportVars

-----------------------------------------------------------------------------

ExportTypes ==
  /\ Len(chain) <= MaxEvents
  /\ \A i \in DOMAIN chain : DOMAIN chain[i] = DOMAIN Blank
  /\ damage \in Columns \union {"none", "unsealed"}

\* The package of a record that its writers alone wrote is valid, whichever
\* of them wrote what after whom: the export knows the recipe of each. And
\* it is not valid once a sealed column of a row has changed, or a row that
\* another refers to was lost.
PackageTellsWhatWasWritten ==
  /\ damage = "none" => workEventExportData(chain)
  /\ damage \notin {"none", "unsealed"} => ~workEventExportData(chain)
=============================================================================
