-------------------------- MODULE WorkTime_proofs --------------------------
(***************************************************************************)
(* Theorems about the versions and receipts of monthly statements, for     *)
(* every log, calendar, contract and clock, and any number of closings and *)
(* acknowledgements handled at once; and about leave, for any number of    *)
(* leaves and reviewers, every plan, contract and blackout; and about the  *)
(* weeks of a flexible contract, on a calendar of any length; and about    *)
(* the editor and the panel of the browser, for any draft and any log.     *)
(***************************************************************************)
EXTENDS Statements, WebTime, Leave, Contracts, Timesheet_proofs

-----------------------------------------------------------------------------
(* Positions in a sequence.                                                *)

\* What a sequence is once an element is appended.
LEMMA Appended ==
  ASSUME NEW s, s \in Seq(Range(s)), NEW e
  PROVE  /\ Append(s, e) \in Seq(Range(Append(s, e)))
         /\ Len(s) \in Nat /\ DOMAIN s = 1 .. Len(s)
         /\ DOMAIN Append(s, e) = 1 .. Len(s) + 1
         /\ \A i \in 1 .. Len(s) : Append(s, e)[i] = s[i]
         /\ Append(s, e)[Len(s) + 1] = e
<1> DEFINE t == Append(s, e)
<1>1. t \in Seq(Range(s) \union {e})
  OBVIOUS
<1>2. /\ Len(s) \in Nat /\ DOMAIN s = 1 .. Len(s)
      /\ Len(t) = Len(s) + 1 /\ DOMAIN t = 1 .. Len(s) + 1
      /\ \A i \in 1 .. Len(s) : t[i] = s[i]
      /\ t[Len(s) + 1] = e
  OBVIOUS
<1>3. \A i \in 1 .. Len(t) : t[i] \in Range(t)
  BY <1>2 DEF Range
<1>4. t \in Seq(Range(t))
  BY <1>1, <1>3
<1> QED
  BY <1>2, <1>4

-----------------------------------------------------------------------------
(* Statements: the inductive invariant.                                    *)

\* The version at i continues the one before it, if there is one.
Continues(i) ==
  LET s      == statements[i]
      before == {j \in VersionsOf(s.period) : j < i}
  IN IF before = {} THEN s.version = 1 /\ s.previous = 0
     ELSE /\ s.previous \in before /\ \A j \in before : j <= s.previous
          /\ s.version = statements[s.previous].version + 1

Linked == \A i \in DOMAIN statements : statements[i].version \in Nat /\ Continues(i)

\* Versions grow with their positions: the highest is the last one stored.
Ascending ==
  \A i, j \in DOMAIN statements :
    i < j /\ statements[i].period = statements[j].period =>
      statements[i].version < statements[j].version

\* What a closing holds was read once, and what was read stays.
Numbered ==
  \A s \in Supervisors : closing[s].step = "numbered" =>
    IF closing[s].previous = 0 THEN closing[s].version = 1
    ELSE /\ closing[s].previous \in VersionsOf(closing[s].period)
         /\ closing[s].version = statements[closing[s].previous].version + 1

OneReceipt == \A i, j \in DOMAIN receipts : receipts[i] = receipts[j] => i = j

StatementInv ==
  /\ statements \in Seq(Range(statements)) /\ receipts \in Seq(Range(receipts))
  /\ closing = [s \in Supervisors |-> closing[s]]
  /\ Linked /\ Ascending /\ Numbered /\ OneReceipt

LEMMA StatementInvInit == StatementInit => StatementInv
<1> SUFFICES ASSUME StatementInit PROVE StatementInv
  OBVIOUS
<1>1. /\ statements = <<>> /\ receipts = <<>>
      /\ closing = [s \in Supervisors |-> NotClosing]
  BY DEF StatementInit
<1>2. DOMAIN statements = {} /\ DOMAIN receipts = {}
  BY <1>1
<1>3. statements \in Seq(Range(statements)) /\ receipts \in Seq(Range(receipts))
  BY <1>1
<1>4. Numbered
  BY <1>1 DEF Numbered, NotClosing
<1> QED
  BY <1>1, <1>2, <1>3, <1>4 DEF StatementInv, Linked, Ascending, OneReceipt

-----------------------------------------------------------------------------
(* Closing.                                                                *)

\* The version read last is the highest, which exists if any does.
LEMMA LatestIsAVersion ==
  ASSUME StatementInv, NEW p
  PROVE  IF VersionsOf(p) = {} THEN LatestOf(p) = 0
         ELSE LatestOf(p) \in VersionsOf(p) /\ LatestOf(p) # 0
<1>1. CASE VersionsOf(p) = {}
  BY <1>1 DEF LatestOf
<1>2. CASE VersionsOf(p) # {}
  <2>1. /\ statements \in Seq(Range(statements))
        /\ Len(statements) \in Nat /\ DOMAIN statements = 1 .. Len(statements)
    BY DEF StatementInv
  <2>2. VersionsOf(p) \in SUBSET (1 .. Len(statements))
    BY <2>1 DEF VersionsOf
  <2>3. PICK i \in VersionsOf(p) : \A j \in VersionsOf(p) : j <= i
    BY <1>2, <2>1, <2>2, GreatestIndex
  <2>4. ASSUME NEW j \in VersionsOf(p)
        PROVE  statements[j].version <= statements[i].version
    <3>1. /\ i \in DOMAIN statements /\ j \in DOMAIN statements
          /\ statements[i].period = p /\ statements[j].period = p
      BY DEF VersionsOf
    <3>2. statements[i].version \in Nat /\ statements[j].version \in Nat
      BY <3>1 DEF StatementInv, Linked
    <3>3. j <= i /\ i \in Nat /\ j \in Nat
      BY <2>1, <2>3, <3>1
    <3>4. j # i => statements[j].version < statements[i].version
      BY <3>1, <3>3 DEF StatementInv, Ascending
    <3> QED
      BY <3>2, <3>4
  <2>5. LatestOf(p) \in VersionsOf(p)
    BY <1>2, <2>4 DEF LatestOf
  <2>6. LatestOf(p) # 0
    BY <2>2, <2>5
  <2> QED
    BY <1>2, <2>5, <2>6
<1> QED
  BY <1>1, <1>2

LEMMA CloseReadKeepsStatements ==
  ASSUME StatementInv, NEW s \in Supervisors, NEW p \in Periods, CloseRead(s, p)
  PROVE  StatementInv'
<1>1. /\ closing' = [closing EXCEPT ![s] =
           [step |-> "read", period |-> p, data |-> monthlyStatementData(p)]]
      /\ UNCHANGED <<statements, receipts>>
  BY DEF CloseRead
<1>2. closing'[s].step = "read" /\ \A t \in Supervisors \ {s} : closing'[t] = closing[t]
  BY <1>1 DEF StatementInv
<1>3. Numbered'
  BY <1>1, <1>2 DEF StatementInv, Numbered, VersionsOf
<1>4. closing' = [t \in Supervisors |-> closing'[t]]
  BY <1>1 DEF StatementInv
<1> QED
  BY <1>1, <1>3, <1>4
     DEF StatementInv, Linked, Continues, VersionsOf, Ascending, OneReceipt

LEMMA CloseNumberKeepsStatements ==
  ASSUME StatementInv, NEW s \in Supervisors, CloseNumber(s)
  PROVE  StatementInv'
<1> DEFINE p        == closing[s].period
           previous == LatestOf(p)
           version  == IF previous = 0 THEN 1 ELSE statements[previous].version + 1
<1>1. /\ closing' = [closing EXCEPT ![s] =
           [step |-> "numbered", period |-> p, data |-> closing[s].data,
            version |-> version, previous |-> previous]]
      /\ UNCHANGED <<statements, receipts>>
  BY DEF CloseNumber
<1>2. /\ closing'[s].period = p /\ closing'[s].version = version
      /\ closing'[s].previous = previous
      /\ \A t \in Supervisors \ {s} : closing'[t] = closing[t]
  BY <1>1 DEF StatementInv
<1>3. previous = 0 \/ previous \in VersionsOf(p)
  BY LatestIsAVersion
<1>4. Numbered'
  BY <1>1, <1>2, <1>3 DEF StatementInv, Numbered, VersionsOf
<1>5. closing' = [t \in Supervisors |-> closing'[t]]
  BY <1>1 DEF StatementInv
<1> QED
  BY <1>1, <1>4, <1>5
     DEF StatementInv, Linked, Continues, VersionsOf, Ascending, OneReceipt

\* A version that no stored statement of its month has is the next one of the
\* month: the index that refuses a second one is what keeps the chain.
LEMMA FreeVersionIsNext ==
  ASSUME StatementInv, NEW s \in Supervisors, closing[s].step = "numbered",
         ~ \E i \in VersionsOf(closing[s].period) :
             statements[i].version = closing[s].version
  PROVE  IF VersionsOf(closing[s].period) = {}
         THEN closing[s].version = 1 /\ closing[s].previous = 0
         ELSE /\ closing[s].previous \in VersionsOf(closing[s].period)
              /\ \A j \in VersionsOf(closing[s].period) : j <= closing[s].previous
              /\ closing[s].version = statements[closing[s].previous].version + 1
<1> DEFINE p        == closing[s].period
           previous == closing[s].previous
           version  == closing[s].version
           its      == VersionsOf(p)
<1>1. IF previous = 0 THEN version = 1
      ELSE previous \in its /\ version = statements[previous].version + 1
  BY DEF StatementInv, Numbered
<1>2. /\ statements \in Seq(Range(statements))
      /\ Len(statements) \in Nat /\ DOMAIN statements = 1 .. Len(statements)
  BY DEF StatementInv
<1>3. /\ its \in SUBSET (1 .. Len(statements)) /\ its \in SUBSET Nat
      /\ \A i \in its : i \in DOMAIN statements /\ statements[i].period = p
  BY <1>2 DEF VersionsOf
<1>4. CASE its = {}
  BY <1>1, <1>4
<1>5. CASE its # {}
  <2>1. previous # 0
    <3>1. PICK i \in its : \A j \in its : i <= j
      BY <1>3, <1>5, LeastNatural
    <3>2. {j \in its : j < i} = {}
      BY <1>3, <3>1
    <3>3. statements[i].version = 1
      BY <1>3, <3>2 DEF StatementInv, Linked, Continues
    <3> QED
      BY <1>1, <3>3
  <2>2. ASSUME NEW k \in its, ~ (k <= previous)
        PROVE  FALSE
    <3> DEFINE after == {j \in its : previous < j}
    <3>1. previous \in its /\ version = statements[previous].version + 1
      BY <1>1, <2>1
    <3>2. previous \in Nat /\ k \in Nat /\ previous < k
      BY <1>3, <2>2, <3>1
    <3>3. after \in SUBSET Nat /\ after # {}
      BY <1>3, <3>2
    <3>4. PICK i \in after : \A j \in after : i <= j
      BY <3>3, LeastNatural
    <3> DEFINE before == {j \in its : j < i}
    <3>5. previous \in before /\ i \in its /\ i \in Nat
      BY <1>3, <3>1, <3>4
    <3>6. \A j \in before : j <= previous
      <4>1. ASSUME NEW j \in before, previous < j PROVE FALSE
        <5>1. j \in after /\ j < i /\ j \in Nat
          BY <1>3, <4>1
        <5> QED
          BY <3>4, <3>5, <5>1
      <4> QED
        BY <1>3, <3>2, <4>1
    <3>7. /\ statements[i].previous \in before
          /\ \A j \in before : j <= statements[i].previous
          /\ statements[i].version = statements[statements[i].previous].version + 1
      BY <1>3, <3>5 DEF StatementInv, Linked, Continues
    <3>8. statements[i].previous = previous
      BY <1>3, <3>5, <3>6, <3>7
    <3> QED
      BY <3>1, <3>5, <3>7, <3>8
  <2> QED
    BY <1>1, <1>5, <2>1, <2>2
<1> QED
  BY <1>4, <1>5

\* A next version keeps the chain and the order.
LEMMA NextVersionKeepsChain ==
  ASSUME StatementInv, NEW c, statements' = Append(statements, c),
         IF VersionsOf(c.period) = {} THEN c.version = 1 /\ c.previous = 0
         ELSE /\ c.previous \in VersionsOf(c.period)
              /\ \A j \in VersionsOf(c.period) : j <= c.previous
              /\ c.version = statements[c.previous].version + 1
  PROVE  /\ statements' \in Seq(Range(statements'))
         /\ \A p : VersionsOf(p) \subseteq VersionsOf(p)'
         /\ \A i \in DOMAIN statements : statements'[i] = statements[i]
         /\ Linked' /\ Ascending'
<1> PICK n : n = Len(statements) + 1
  OBVIOUS
<1> DEFINE its == VersionsOf(c.period)
<1>1. /\ statements' \in Seq(Range(statements'))
      /\ Len(statements) \in Nat /\ DOMAIN statements = 1 .. Len(statements)
      /\ DOMAIN statements' = 1 .. n
      /\ \A i \in 1 .. Len(statements) : statements'[i] = statements[i]
      /\ statements'[n] = c
  BY Appended DEF StatementInv
<1>2. \A p, i : i \in VersionsOf(p)' <=> i \in VersionsOf(p) \/ (i = n /\ c.period = p)
  BY <1>1 DEF VersionsOf
<1>3. \A p : \A i \in VersionsOf(p) : i \in 1 .. Len(statements) /\ i < n
  BY <1>1 DEF VersionsOf
<1>4. ASSUME NEW i \in 1 .. Len(statements)
      PROVE  statements'[i].version \in Nat /\ Continues(i)'
  <2> DEFINE p      == statements[i].period
             before == {j \in VersionsOf(p) : j < i}
             after  == {j \in VersionsOf(p)' : j < i}
  <2>1. statements'[i] = statements[i]
    BY <1>1
  <2>2. after = before
    BY <1>1, <1>2
  <2>3. /\ statements[i].version \in Nat
        /\ IF before = {} THEN statements[i].version = 1 /\ statements[i].previous = 0
           ELSE /\ statements[i].previous \in before
                /\ \A j \in before : j <= statements[i].previous
                /\ statements[i].version = statements[statements[i].previous].version + 1
    BY <1>1 DEF StatementInv, Linked, Continues
  <2>4. \A j \in before : statements'[j] = statements[j]
    BY <1>1, <1>3
  <2> HIDE DEF before, after
  <2>5. /\ statements'[i].version \in Nat
        /\ IF after = {} THEN statements'[i].version = 1 /\ statements'[i].previous = 0
           ELSE /\ statements'[i].previous \in after
                /\ \A j \in after : j <= statements'[i].previous
                /\ statements'[i].version = statements'[statements'[i].previous].version + 1
    BY <2>1, <2>2, <2>3, <2>4
  <2> QED
    BY <2>1, <2>5 DEF Continues, after
<1>5. {j \in VersionsOf(c.period)' : j < n} = its
  BY <1>1, <1>2, <1>3
<1>6. its # {} => /\ c.previous \in 1 .. Len(statements)
                  /\ statements[c.previous].version \in Nat
                  /\ statements'[c.previous] = statements[c.previous]
  BY <1>1, <1>3 DEF StatementInv, Linked
<1>7. statements'[n].version \in Nat /\ Continues(n)'
  <2>1. c.version \in Nat
    BY <1>6
  <2>2. /\ IF its = {} THEN c.version = 1 /\ c.previous = 0
           ELSE /\ c.previous \in its /\ \A j \in its : j <= c.previous
                /\ c.version = statements'[c.previous].version + 1
    BY <1>6
  <2> QED
    BY <1>1, <1>5, <2>1, <2>2 DEF Continues
<1>8. Linked'
  <2>1. ASSUME NEW i \in DOMAIN statements'
        PROVE  statements'[i].version \in Nat /\ Continues(i)'
    <3>1. i \in 1 .. Len(statements) \/ i = n
      BY <1>1
    <3> QED
      BY <1>4, <1>7, <3>1
  <2> QED
    BY <2>1 DEF Linked
<1>9. ASSUME NEW i \in DOMAIN statements', NEW j \in DOMAIN statements', i < j,
             statements'[i].period = statements'[j].period
      PROVE  statements'[i].version < statements'[j].version
  <2>1. i \in 1 .. Len(statements)
    BY <1>1, <1>9
  <2>2. CASE j \in 1 .. Len(statements)
    BY <1>1, <1>9, <2>1, <2>2 DEF StatementInv, Ascending
  <2>3. CASE j = n
    <3>1. i \in its
      BY <1>1, <1>9, <2>1, <2>3 DEF VersionsOf
    <3>2. /\ c.previous \in its /\ i <= c.previous
          /\ c.version = statements[c.previous].version + 1
      BY <3>1
    <3>3. statements[i].version \in Nat /\ statements[c.previous].version \in Nat
      BY <1>1, <1>6, <2>1, <3>1 DEF StatementInv, Linked
    <3>4. /\ c.previous \in DOMAIN statements /\ statements[c.previous].period = c.period
          /\ statements[i].period = c.period /\ i \in DOMAIN statements
      BY <3>1, <3>2 DEF VersionsOf
    <3>5. i \in Nat /\ c.previous \in Nat
      BY <1>1, <3>4
    <3>6. statements[i].version <= statements[c.previous].version
      <4>1. CASE i = c.previous
        BY <3>3, <4>1
      <4>2. CASE i < c.previous
        BY SMTT(20), <3>3, <3>4, <4>2 DEF StatementInv, Ascending
      <4> QED
        BY <3>2, <3>5, <4>1, <4>2
    <3>7. statements'[i] = statements[i] /\ statements'[j] = c
      BY <1>1, <2>1, <2>3
    <3> QED
      BY <3>2, <3>3, <3>6, <3>7
  <2> QED
    BY <1>1, <2>2, <2>3
<1>10. \A p : VersionsOf(p) \subseteq VersionsOf(p)'
  BY <1>2
<1> QED
  BY <1>1, <1>8, <1>9, <1>10 DEF Ascending

LEMMA CloseSaveKeepsStatements ==
  ASSUME StatementInv, NEW s \in Supervisors, CloseSave(s)
  PROVE  StatementInv'
<1> DEFINE c     == closing[s]
           taken == \E i \in DOMAIN statements :
                      statements[i].period = c.period /\ statements[i].version = c.version
           new   == [period |-> c.period, version |-> c.version,
                     previous |-> c.previous, data |-> c.data]
<1>1. /\ c.step = "numbered"
      /\ statements' = IF taken THEN statements ELSE Append(statements, new)
      /\ closing' = [closing EXCEPT ![s] = NotClosing]
      /\ receipts' = receipts
  BY DEF CloseSave
<1>2. /\ closing' = [t \in Supervisors |-> closing'[t]]
      /\ closing'[s].step # "numbered"
      /\ \A t \in Supervisors \ {s} : closing'[t] = closing[t]
  BY <1>1 DEF StatementInv, NotClosing
<1>3. CASE taken
  <2>1. statements' = statements
    BY <1>1, <1>3
  <2>2. Numbered'
    BY <1>2, <2>1 DEF StatementInv, Numbered, VersionsOf
  <2>3. Linked' /\ Ascending' /\ OneReceipt'
    BY <1>1, <2>1
       DEF StatementInv, Linked, Continues, VersionsOf, Ascending, OneReceipt
  <2> HIDE DEF taken, new
  <2> QED
    BY <1>1, <1>2, <2>1, <2>2, <2>3 DEF StatementInv
<1>4. CASE ~taken
  <2>1. ~ \E i \in VersionsOf(c.period) : statements[i].version = c.version
    BY <1>4 DEF VersionsOf
  <2>2. IF VersionsOf(new.period) = {} THEN new.version = 1 /\ new.previous = 0
        ELSE /\ new.previous \in VersionsOf(new.period)
             /\ \A j \in VersionsOf(new.period) : j <= new.previous
             /\ new.version = statements[new.previous].version + 1
    <3>1. new.period = c.period /\ new.version = c.version /\ new.previous = c.previous
      OBVIOUS
    <3> HIDE DEF new
    <3> QED
      BY <1>1, <2>1, <3>1, FreeVersionIsNext
  <2>3. statements' = Append(statements, new)
    BY <1>1, <1>4
  <2> HIDE DEF new, c, taken
  <2>4. /\ statements' \in Seq(Range(statements'))
        /\ \A p : VersionsOf(p) \subseteq VersionsOf(p)'
        /\ \A i \in DOMAIN statements : statements'[i] = statements[i]
        /\ Linked' /\ Ascending'
    BY <2>2, <2>3, NextVersionKeepsChain
  <2>5. ASSUME NEW t \in Supervisors, closing'[t].step = "numbered"
        PROVE  IF closing'[t].previous = 0 THEN closing'[t].version = 1
               ELSE /\ closing'[t].previous \in DOMAIN statements'
                    /\ statements'[closing'[t].previous].period = closing'[t].period
                    /\ closing'[t].version
                         = statements'[closing'[t].previous].version + 1
    <3>1. closing'[t] = closing[t]
      BY <1>2, <2>5
    <3>2. IF closing[t].previous = 0 THEN closing[t].version = 1
          ELSE /\ closing[t].previous \in VersionsOf(closing[t].period)
               /\ closing[t].version = statements[closing[t].previous].version + 1
      BY <2>5, <3>1 DEF StatementInv, Numbered
    <3>3. closing[t].previous # 0 =>
            /\ closing[t].previous \in DOMAIN statements
            /\ statements[closing[t].previous].period = closing[t].period
      BY <3>2 DEF VersionsOf
    <3>4. DOMAIN statements \subseteq DOMAIN statements'
      <4>1. \A i \in DOMAIN statements : i \in VersionsOf(statements[i].period)
        BY DEF VersionsOf
      <4>2. ASSUME NEW i \in DOMAIN statements PROVE i \in DOMAIN statements'
        <5> PICK p : p = statements[i].period
          OBVIOUS
        <5>1. i \in VersionsOf(p)'
          BY <2>4, <4>1
        <5> QED
          BY <5>1 DEF VersionsOf
      <4> QED
        BY <4>2
    <3> QED
      BY <2>4, <3>1, <3>2, <3>3, <3>4
  <2>6. Numbered'
    BY <2>5 DEF Numbered, VersionsOf
  <2>7. receipts' \in Seq(Range(receipts')) /\ OneReceipt'
    BY <1>1 DEF StatementInv, OneReceipt
  <2> QED
    BY <1>2, <2>4, <2>6, <2>7 DEF StatementInv
<1> QED
  BY <1>3, <1>4

-----------------------------------------------------------------------------
(* Acknowledging.                                                          *)

LEMMA AcknowledgeKeepsStatements ==
  ASSUME StatementInv, NEW i, AcknowledgeSave(i)
  PROVE  StatementInv'
<1>1. /\ receipts' = IF i \in Range(receipts) THEN receipts ELSE Append(receipts, i)
      /\ UNCHANGED <<statements, closing>>
  BY DEF AcknowledgeSave
<1>2. receipts' \in Seq(Range(receipts')) /\ OneReceipt'
  <2>1. CASE i \in Range(receipts)
    BY <1>1, <2>1 DEF StatementInv, OneReceipt
  <2>2. CASE i \notin Range(receipts)
    <3>1. receipts' = Append(receipts, i)
      BY <1>1, <2>2
    <3>2. /\ receipts' \in Seq(Range(receipts'))
          /\ Len(receipts) \in Nat /\ DOMAIN receipts = 1 .. Len(receipts)
          /\ DOMAIN receipts' = 1 .. Len(receipts) + 1
          /\ \A k \in 1 .. Len(receipts) : receipts'[k] = receipts[k]
          /\ receipts'[Len(receipts) + 1] = i
      BY <3>1, Appended DEF StatementInv
    <3>3. \A k \in 1 .. Len(receipts) : receipts'[k] # i
      BY <2>2, <3>2 DEF Range
    <3> QED
      BY <3>2, <3>3 DEF StatementInv, OneReceipt
  <2> QED
    BY <2>1, <2>2
<1> QED
  BY <1>1, <1>2
     DEF StatementInv, Linked, Continues, VersionsOf, Ascending, Numbered

LEMMA OtherStepsKeepStatements ==
  ASSUME StatementInv, UNCHANGED <<statements, closing, receipts>>
  PROVE  StatementInv'
  BY DEF StatementInv, Linked, Continues, VersionsOf, Ascending, Numbered, OneReceipt

-----------------------------------------------------------------------------

LEMMA StatementStep ==
  StatementInv /\ [StatementNext(Supervisors, NewSchedules)]_statementVars => StatementInv'
<1> SUFFICES ASSUME StatementInv, [StatementNext(Supervisors, NewSchedules)]_statementVars
             PROVE  StatementInv'
  OBVIOUS
<1>1. ASSUME NEW s \in Supervisors, NEW p \in Periods, CloseRead(s, p)
      PROVE  StatementInv'
  BY <1>1, CloseReadKeepsStatements
<1>2. ASSUME NEW s \in Supervisors, CloseNumber(s)
      PROVE  StatementInv'
  BY <1>2, CloseNumberKeepsStatements
<1>3. ASSUME NEW s \in Supervisors, CloseSave(s)
      PROVE  StatementInv'
  BY <1>3, CloseSaveKeepsStatements
<1>4. ASSUME NEW i \in 1 .. MaxStatements, AcknowledgeRead(i)
      PROVE  StatementInv'
  BY <1>4, OtherStepsKeepStatements DEF AcknowledgeRead
<1>5. ASSUME NEW i \in 1 .. MaxStatements, AcknowledgeSave(i)
      PROVE  StatementInv'
  BY <1>5, AcknowledgeKeepsStatements
<1>6. ASSUME NEW s \in NewSchedules, SchedulePublish(s)
      PROVE  StatementInv'
  BY <1>6, OtherStepsKeepStatements DEF SchedulePublish
<1>7. ASSUME NEW i \in DOMAIN plan.schedules, NEW active \in BOOLEAN, ScheduleUpdate(i, active)
      PROVE  StatementInv'
  BY <1>7, OtherStepsKeepStatements DEF ScheduleUpdate
<1>8. CASE UNCHANGED statementVars
  BY <1>8, OtherStepsKeepStatements DEF statementVars
<1> QED
  BY <1>1, <1>2, <1>3, <1>4, <1>5, <1>6, <1>7, <1>8 DEF StatementNext

\* The versions of a month are 1, 2, 3... in order of creation, each continues
\* the one before it, and each has one receipt at most: whoever closes and
\* acknowledges at the same moment, of two closings that read the same
\* previous version the index lets one through.
THEOREM MonthsFormAChain == StatementSpec => []StatementsFormAChain
<1>1. StatementInv => StatementsFormAChain
  BY DEF StatementInv, Linked, Continues, OneReceipt, StatementsFormAChain
<1> QED
  BY <1>1, StatementInvInit, StatementStep, PTL DEF StatementSpec

-----------------------------------------------------------------------------
(* Leave: the inductive invariant.                                         *)

\* What was handled at once.
Beside(l, m) == {l, m} \in leaveBeside
DecidedTwice(m) == {m} \in leaveBeside

\* What a leave asks for is numbers, in a year that has a balance.
Charged(l) ==
  /\ leaves[l].start \in Int /\ leaves[l].end \in Int /\ leaves[l].days \in Nat
  /\ YearOf(leaves[l].start) \in Years

LeaveShapes ==
  /\ leaves = [l \in Leaves |-> leaves[l]]
  /\ leaveDesk = [s \in Reviewers \union {"owner"} |-> leaveDesk[s]]
  /\ balance \in [Years -> {NoBalance} \union Entitlements]
  /\ \A l \in Leaves : leaves[l].stage # "none" => Charged(l)

\* Two creations that have made their checks were handled at once.
CheckedTogether ==
  \A l, m \in Leaves :
    (l # m /\ leaves[l].stage = "checked" /\ leaves[m].stage = "checked") => Beside(l, m)

\* A leave that made its checks has nothing in its way, but what was handled
\* beside it or is decided twice.
CheckedIsClear ==
  \A l, m \in Leaves :
    (/\ l # m /\ leaves[l].stage = "checked" /\ Standing(m)
     /\ Meets(leaves[l], leaves[m])) => Beside(l, m) \/ DecidedTwice(m)

\* What an update request holds was pending when it read it, and a request
\* that decided it since was handled beside this one.
Busy(s) == leaveDesk[s].op # "idle"
DesksHold ==
  \A s \in DOMAIN leaveDesk : Busy(s) =>
    LET m == leaveDesk[s].leave
    IN /\ m \in Leaves /\ LeaveStored(m)
       /\ leaves[m].status = "pending" \/ DecidedTwice(m)
       /\ \A t \in DOMAIN leaveDesk \ {s} : (Busy(t) /\ leaveDesk[t].leave = m) => DecidedTwice(m)
       /\ \A l \in Leaves : leaves[l].stage = "checked" => Beside(l, m)

LeaveInv ==
  LeaveShapes /\ CheckedTogether /\ CheckedIsClear /\ DesksHold /\ NoOverlappingLeave

\* The drafts are of whole days, and what a balance grants is a number.
LeaveData ==
  /\ \A x \in LeaveDrafts : x.start \in Int /\ x.end \in Int
  /\ Entitlements \subseteq Int

\* The days charged are a number.
LEMMA ChargeIsANumber ==
  ASSUME NEW start \in Int, NEW end \in Int, NEW p
  PROVE  requestedDaysFor(leavePlan, leaveContract, start, end, p) \in Nat
<1> DEFINE D == {d \in start .. end : d \notin leavePlan.holidays
                                       /\ isWorkingDay(leavePlan, leaveContract, d)}
<1>1. IsFiniteSet(start .. end)
  BY FS_Interval
<1>2. Cardinality(D) \in Nat
  <2>1. D \subseteq start .. end
    OBVIOUS
  <2> HIDE DEF D
  <2> QED
    BY <1>1, <2>1, FS_Subset, FS_CardinalityType
<1>3. requestedDaysFor(leavePlan, leaveContract, start, end, p) = InHalves(Cardinality(D), p)
  BY DEF requestedDaysFor
<1> HIDE DEF D
<1> QED
  BY <1>2, <1>3 DEF InHalves

\* A request that begins is beside all that are under way.
LEMMA BeginsBeside ==
  ASSUME NEW l, leaveBeside' = leaveBeside \union InHandBeside(l)
  PROVE  /\ leaveBeside \subseteq leaveBeside'
         /\ \A m \in Leaves \ {l} :
              leaves[m].stage = "checked" => {l, m} \in leaveBeside' /\ {m, l} \in leaveBeside'
         /\ \A s \in DOMAIN leaveDesk : Busy(s) =>
              /\ {l, leaveDesk[s].leave} \in leaveBeside'
              /\ leaveDesk[s].leave = l => {l} \in leaveBeside'
<1>1. leaveBeside \subseteq leaveBeside' /\ InHandBeside(l) \subseteq leaveBeside'
  OBVIOUS
<1>2. ASSUME NEW m \in Leaves \ {l}, leaves[m].stage = "checked"
      PROVE  {l, m} \in leaveBeside' /\ {m, l} \in leaveBeside'
  <2>1. {l, m} \in InHandBeside(l) /\ {m, l} = {l, m}
    BY <1>2 DEF InHandBeside
  <2> QED
    BY <1>1, <2>1
<1>3. ASSUME NEW s \in DOMAIN leaveDesk, Busy(s)
      PROVE  /\ {l, leaveDesk[s].leave} \in leaveBeside'
             /\ leaveDesk[s].leave = l => {l} \in leaveBeside'
  <2>1. {l, leaveDesk[s].leave} \in InHandBeside(l)
    BY <1>3 DEF InHandBeside, Busy
  <2>2. leaveDesk[s].leave = l => {l, leaveDesk[s].leave} = {l}
    OBVIOUS
  <2> QED
    BY <1>1, <2>1, <2>2
<1> QED
  BY <1>1, <1>2, <1>3

LEMMA LeaveInvInit == LeaveInit => LeaveInv
<1> SUFFICES ASSUME LeaveInit PROVE LeaveInv
  OBVIOUS
<1>1. /\ leaves = [l \in Leaves |-> NoLeave]
      /\ leaveDesk = [s \in Reviewers \union {"owner"} |-> AtRest]
      /\ balance \in [Years -> {NoBalance} \union Entitlements]
  BY DEF LeaveInit
<1>2. /\ \A l \in Leaves : leaves[l].stage = "none"
      /\ \A s \in DOMAIN leaveDesk : ~Busy(s)
  BY <1>1 DEF NoLeave, AtRest, Busy
<1>3. LeaveShapes
  BY <1>1, <1>2 DEF LeaveShapes
<1>4. \A l \in Leaves : leaves[l].stage # "checked" /\ ~Standing(l)
  BY <1>2 DEF Standing, LeaveStored
<1> QED
  BY <1>2, <1>3, <1>4
     DEF LeaveInv, CheckedTogether, CheckedIsClear, DesksHold, NoOverlappingLeave

LEMMA CheckKeepsLeaves ==
  ASSUME LeaveData, LeaveInv, NEW l \in Leaves, NEW by, NEW x \in LeaveDrafts,
         LeaveCheck(l, by, x)
  PROVE  LeaveInv'
<1> DEFINE days == requestedDaysFor(leavePlan, leaveContract, x.start, x.end, x.part)
<1>1. /\ leaves[l].stage = "none" /\ OverlappingLeaves(x) = {}
      /\ leaves' = [leaves EXCEPT ![l] =
           [stage |-> "checked", type |-> x.type, start |-> x.start, end |-> x.end,
            part |-> x.part, days |-> days,
            auto |-> by # "owner" \/ ~requiresApproval(x.type)]]
      /\ leaveBeside' = leaveBeside \union InHandBeside(l)
      /\ UNCHANGED <<balance, leaveDesk>>
  BY DEF LeaveCheck
<1>2. x.start \in Int /\ x.end \in Int /\ days \in Nat /\ YearOf(x.start) \in Years
  BY ChargeIsANumber DEF LeaveData, Years
<1> HIDE DEF days
<1>3. /\ leaves'[l].stage = "checked" /\ leaves'[l].start = x.start
      /\ leaves'[l].end = x.end /\ leaves'[l].days = days
      /\ \A m \in Leaves \ {l} : leaves'[m] = leaves[m]
      /\ leaves' = [m \in Leaves |-> leaves'[m]]
  BY <1>1 DEF LeaveInv, LeaveShapes
<1>4. /\ leaveBeside \subseteq leaveBeside'
      /\ \A m \in Leaves \ {l} :
           leaves[m].stage = "checked" => {l, m} \in leaveBeside' /\ {m, l} \in leaveBeside'
      /\ \A s \in DOMAIN leaveDesk : Busy(s) => {l, leaveDesk[s].leave} \in leaveBeside'
  BY <1>1, BeginsBeside
<1>5. \A m \in Leaves : Standing(m)' <=> Standing(m) /\ m # l
  BY <1>1, <1>3 DEF Standing, LeaveStored
<1>6. LeaveShapes'
  <2>1. \A m \in Leaves : leaves'[m].stage # "none" => Charged(m)'
    BY <1>2, <1>3 DEF LeaveInv, LeaveShapes, Charged
  <2> QED
    BY <1>1, <1>3, <2>1 DEF LeaveInv, LeaveShapes
<1>7. CheckedTogether'
  BY <1>3, <1>4 DEF LeaveInv, CheckedTogether, Beside
<1>8. CheckedIsClear'
  <2> SUFFICES ASSUME NEW m \in Leaves, NEW n \in Leaves, m # n,
                      leaves'[m].stage = "checked", Standing(n)',
                      Meets(leaves'[m], leaves'[n])
               PROVE  {m, n} \in leaveBeside' \/ {n} \in leaveBeside'
    BY DEF CheckedIsClear, Beside, DecidedTwice
  <2>1. Standing(n) /\ n # l /\ leaves'[n] = leaves[n]
    BY <1>3, <1>5
  <2>2. CASE m = l
    <3>1. Meets(leaves[n], x)
      <4>1. LeaveStored(n)
        BY <2>1 DEF Standing
      <4>2. Charged(n)
        BY <4>1 DEF LeaveStored, LeaveInv, LeaveShapes
      <4> QED
        BY <1>2, <1>3, <2>1, <2>2, <4>2 DEF Meets, Charged
    <3> QED
      BY <1>1, <2>1, <3>1 DEF OverlappingLeaves
  <2>3. CASE m # l
    BY <1>3, <1>4, <2>1, <2>3 DEF LeaveInv, CheckedIsClear, Beside, DecidedTwice
  <2> QED
    BY <2>2, <2>3
<1>9. DesksHold'
  <2> SUFFICES ASSUME NEW s \in DOMAIN leaveDesk, Busy(s), NEW m, m = leaveDesk[s].leave
               PROVE  /\ m \in Leaves /\ LeaveStored(m)'
                      /\ leaves'[m].status = "pending" \/ {m} \in leaveBeside'
                      /\ \A t \in DOMAIN leaveDesk \ {s} :
                           (Busy(t) /\ leaveDesk[t].leave = m) => {m} \in leaveBeside'
                      /\ \A k \in Leaves :
                           leaves'[k].stage = "checked" => {k, m} \in leaveBeside'
    BY <1>1 DEF DesksHold, Busy, Beside, DecidedTwice
  <2>1. /\ m \in Leaves /\ LeaveStored(m)
        /\ leaves[m].status = "pending" \/ {m} \in leaveBeside
        /\ \A t \in DOMAIN leaveDesk \ {s} :
             (Busy(t) /\ leaveDesk[t].leave = m) => {m} \in leaveBeside
        /\ \A k \in Leaves : leaves[k].stage = "checked" => {k, m} \in leaveBeside
    BY DEF LeaveInv, DesksHold, Beside, DecidedTwice
  <2>2. m # l /\ leaves'[m] = leaves[m]
    BY <1>1, <1>3, <2>1 DEF LeaveStored
  <2>3. \A k \in Leaves : leaves'[k].stage = "checked" => {k, m} \in leaveBeside'
    BY <1>3, <1>4, <2>1
  <2> QED
    BY <1>4, <2>1, <2>2, <2>3 DEF LeaveStored
<1>10. NoOverlappingLeave'
  <2> SUFFICES ASSUME NEW m \in Leaves, NEW n \in Leaves, m # n, Standing(m)', Standing(n)',
                      Meets(leaves'[m], leaves'[n])
               PROVE  {{m}, {n}, {m, n}} \intersect leaveBeside' # {}
    BY DEF NoOverlappingLeave
  <2>1. Standing(m) /\ Standing(n) /\ Meets(leaves[m], leaves[n])
    BY <1>3, <1>5
  <2>2. {{m}, {n}, {m, n}} \intersect leaveBeside # {}
    BY <2>1 DEF LeaveInv, NoOverlappingLeave
  <2> QED
    BY <1>4, <2>2
<1> QED
  BY <1>6, <1>7, <1>8, <1>9, <1>10 DEF LeaveInv

LEMMA SaveKeepsLeaves ==
  ASSUME LeaveInv, NEW l \in Leaves, LeaveSave(l)
  PROVE  LeaveInv'
<1>1. /\ leaves[l].stage = "checked"
      /\ leaves' = [leaves EXCEPT ![l] =
           [stage |-> "stored", status |-> IF leaves[l].auto THEN "approved" ELSE "pending",
            type |-> leaves[l].type, start |-> leaves[l].start, end |-> leaves[l].end,
            part |-> leaves[l].part, days |-> leaves[l].days, auto |-> leaves[l].auto]]
      /\ UNCHANGED <<balance, leaveDesk, leaveBeside>>
  BY DEF LeaveSave
<1>2. /\ leaves'[l].stage = "stored" /\ leaves'[l].start = leaves[l].start
      /\ leaves'[l].end = leaves[l].end /\ leaves'[l].days = leaves[l].days
      /\ \A m \in Leaves \ {l} : leaves'[m] = leaves[m]
      /\ leaves' = [m \in Leaves |-> leaves'[m]]
  BY <1>1 DEF LeaveInv, LeaveShapes
<1>3. \A m \in Leaves : Meets(leaves'[l], leaves'[m]) <=> Meets(leaves[l], leaves[m])
  BY <1>2 DEF Meets
<1>4. \A m \in Leaves \ {l} : Standing(m)' <=> Standing(m)
  BY <1>2 DEF Standing, LeaveStored
<1>5. LeaveShapes'
  <2>1. \A m \in Leaves : leaves'[m].stage # "none" => Charged(m)'
    BY <1>1, <1>2 DEF LeaveInv, LeaveShapes, Charged
  <2> QED
    BY <1>1, <1>2, <2>1 DEF LeaveInv, LeaveShapes
<1>6. CheckedTogether'
  BY <1>1, <1>2 DEF LeaveInv, CheckedTogether, Beside
<1>7. CheckedIsClear'
  <2> SUFFICES ASSUME NEW m \in Leaves, NEW n \in Leaves, m # n,
                      leaves'[m].stage = "checked", Standing(n)',
                      Meets(leaves'[m], leaves'[n])
               PROVE  {m, n} \in leaveBeside \/ {n} \in leaveBeside
    BY <1>1 DEF CheckedIsClear, Beside, DecidedTwice
  <2>1. m # l /\ leaves'[m] = leaves[m]
    BY <1>2
  <2>2. CASE n = l
    BY <1>1, <2>1, <2>2 DEF LeaveInv, CheckedTogether, Beside
  <2>3. CASE n # l
    BY <1>2, <1>4, <2>1, <2>3 DEF LeaveInv, CheckedIsClear, Beside, DecidedTwice
  <2> QED
    BY <2>2, <2>3
<1>8. DesksHold'
  <2> SUFFICES ASSUME NEW s \in DOMAIN leaveDesk, Busy(s), NEW m, m = leaveDesk[s].leave
               PROVE  /\ m \in Leaves /\ LeaveStored(m)'
                      /\ leaves'[m].status = "pending" \/ {m} \in leaveBeside
                      /\ \A t \in DOMAIN leaveDesk \ {s} :
                           (Busy(t) /\ leaveDesk[t].leave = m) => {m} \in leaveBeside
                      /\ \A k \in Leaves :
                           leaves'[k].stage = "checked" => {k, m} \in leaveBeside
    BY <1>1 DEF DesksHold, Busy, Beside, DecidedTwice
  <2>1. /\ m \in Leaves /\ LeaveStored(m)
        /\ leaves[m].status = "pending" \/ {m} \in leaveBeside
        /\ \A t \in DOMAIN leaveDesk \ {s} :
             (Busy(t) /\ leaveDesk[t].leave = m) => {m} \in leaveBeside
        /\ \A k \in Leaves : leaves[k].stage = "checked" => {k, m} \in leaveBeside
    BY DEF LeaveInv, DesksHold, Beside, DecidedTwice
  <2>2. m # l /\ leaves'[m] = leaves[m]
    BY <1>1, <1>2, <2>1 DEF LeaveStored
  <2>3. \A k \in Leaves : leaves'[k].stage = "checked" => leaves[k].stage = "checked"
    BY <1>2
  <2> QED
    BY <2>1, <2>2, <2>3 DEF LeaveStored
<1>9. NoOverlappingLeave'
  <2> SUFFICES ASSUME NEW m \in Leaves, NEW n \in Leaves, m # n, Standing(m)', Standing(n)',
                      Meets(leaves'[m], leaves'[n])
               PROVE  {{m}, {n}, {m, n}} \intersect leaveBeside # {}
    BY <1>1 DEF NoOverlappingLeave
  <2>1. CASE m = l
    <3>1. {m, n} \in leaveBeside \/ {n} \in leaveBeside
      BY <1>1, <1>3, <1>4, <2>1 DEF LeaveInv, CheckedIsClear, Beside, DecidedTwice
    <3> QED
      BY <3>1
  <2>2. CASE n = l
    <3>1. Charged(m)' /\ Charged(n)'
      BY <1>2, <1>5 DEF LeaveShapes, Standing, LeaveStored
    <3>2. Meets(leaves'[n], leaves'[m])
      BY <3>1 DEF Meets, Charged
    <3>3. {n, m} \in leaveBeside \/ {m} \in leaveBeside
      BY <1>1, <1>3, <1>4, <2>2, <3>2 DEF LeaveInv, CheckedIsClear, Beside, DecidedTwice
    <3>4. {n, m} = {m, n}
      OBVIOUS
    <3> QED
      BY <3>3, <3>4
  <2>3. CASE m # l /\ n # l
    BY <1>2, <1>4, <2>3 DEF LeaveInv, NoOverlappingLeave
  <2> QED
    BY <2>1, <2>2, <2>3
<1> QED
  BY <1>5, <1>6, <1>7, <1>8, <1>9 DEF LeaveInv

LEMMA ReadKeepsLeaves ==
  ASSUME LeaveInv, NEW s \in Reviewers \union {"owner"}, NEW l \in Leaves, NEW status,
         LeaveUpdateRead(s, l, status)
  PROVE  LeaveInv'
<1>1. /\ ~Busy(s) /\ LeaveStored(l) /\ leaves[l].status = "pending"
      /\ leaveDesk' = [leaveDesk EXCEPT ![s] = [op |-> "update", leave |-> l, status |-> status]]
      /\ leaveBeside' = leaveBeside \union InHandBeside(l)
      /\ UNCHANGED <<balance, leaves>>
  BY DEF LeaveUpdateRead, Busy
<1>2. /\ leaveDesk' = [t \in Reviewers \union {"owner"} |-> leaveDesk'[t]]
      /\ DOMAIN leaveDesk = Reviewers \union {"owner"} /\ DOMAIN leaveDesk' = DOMAIN leaveDesk
      /\ leaveDesk'[s].leave = l
      /\ \A t \in DOMAIN leaveDesk \ {s} : leaveDesk'[t] = leaveDesk[t]
  BY <1>1 DEF LeaveInv, LeaveShapes
<1>3. /\ leaveBeside \subseteq leaveBeside'
      /\ \A m \in Leaves \ {l} :
           leaves[m].stage = "checked" => {l, m} \in leaveBeside' /\ {m, l} \in leaveBeside'
      /\ \A t \in DOMAIN leaveDesk :
           (Busy(t) /\ leaveDesk[t].leave = l) => {l} \in leaveBeside'
  BY <1>1, BeginsBeside
<1>4. LeaveShapes'
  BY <1>1, <1>2 DEF LeaveInv, LeaveShapes, Charged
<1>5. CheckedTogether' /\ CheckedIsClear'
  BY <1>1, <1>3 DEF LeaveInv, CheckedTogether, CheckedIsClear, Standing, LeaveStored,
                    Beside, DecidedTwice
<1>6. DesksHold'
  <2> SUFFICES ASSUME NEW t \in DOMAIN leaveDesk', Busy(t)', NEW m, m = leaveDesk'[t].leave
               PROVE  /\ m \in Leaves /\ LeaveStored(m)
                      /\ leaves[m].status = "pending" \/ {m} \in leaveBeside'
                      /\ \A u \in DOMAIN leaveDesk' \ {t} :
                           (Busy(u)' /\ leaveDesk'[u].leave = m) => {m} \in leaveBeside'
                      /\ \A k \in Leaves :
                           leaves[k].stage = "checked" => {k, m} \in leaveBeside'
    BY <1>1 DEF DesksHold, LeaveStored, Beside, DecidedTwice
  <2>1. CASE t = s
    <3>1. m = l
      BY <1>2, <2>1
    <3>2. \A k \in Leaves : leaves[k].stage = "checked" => k # l
      BY <1>1 DEF LeaveStored
    <3>3. \A u \in DOMAIN leaveDesk' \ {t} : Busy(u)' => Busy(u)
      BY <1>2, <2>1 DEF Busy
    <3> QED
      BY <1>1, <1>2, <1>3, <2>1, <3>1, <3>2, <3>3
  <2>2. CASE t # s
    <3>1. Busy(t) /\ m = leaveDesk[t].leave /\ t \in DOMAIN leaveDesk
      BY <1>2, <2>2 DEF Busy
    <3>2. /\ m \in Leaves /\ LeaveStored(m)
          /\ leaves[m].status = "pending" \/ {m} \in leaveBeside
          /\ \A u \in DOMAIN leaveDesk \ {t} :
               (Busy(u) /\ leaveDesk[u].leave = m) => {m} \in leaveBeside
          /\ \A k \in Leaves : leaves[k].stage = "checked" => {k, m} \in leaveBeside
      BY <3>1 DEF LeaveInv, DesksHold, Beside, DecidedTwice
    <3>3. ASSUME NEW u \in DOMAIN leaveDesk' \ {t}, Busy(u)', leaveDesk'[u].leave = m
          PROVE  {m} \in leaveBeside'
      <4>1. CASE u = s
        BY <1>2, <1>3, <3>1, <3>3, <4>1
      <4>2. CASE u # s
        <5>1. Busy(u) /\ leaveDesk[u].leave = m /\ u \in DOMAIN leaveDesk \ {t}
          BY <1>2, <3>3, <4>2 DEF Busy
        <5> QED
          BY <1>3, <3>2, <5>1
      <4> QED
        BY <4>1, <4>2
    <3> QED
      BY <1>3, <3>2, <3>3
  <2> QED
    BY <2>1, <2>2
<1>7. NoOverlappingLeave'
  <2>1. \A m, n \in Leaves :
          (m # n /\ Standing(m)' /\ Standing(n)' /\ Meets(leaves'[m], leaves'[n])) =>
            {{m}, {n}, {m, n}} \intersect leaveBeside' # {}
    BY <1>1, <1>3 DEF LeaveInv, NoOverlappingLeave, Standing, LeaveStored
  <2> QED
    BY <2>1 DEF NoOverlappingLeave
<1> QED
  BY <1>4, <1>5, <1>6, <1>7 DEF LeaveInv

LEMMA DecisionKeepsLeaves ==
  ASSUME LeaveInv, NEW s \in Reviewers \union {"owner"}, LeaveUpdateSave(s)
  PROVE  LeaveInv'
<1> DEFINE l == leaveDesk[s].leave
<1>1. /\ Busy(s)
      /\ leaves' = [leaves EXCEPT ![l] =
           [stage |-> "stored", status |-> leaveDesk[s].status, type |-> leaves[l].type,
            start |-> leaves[l].start, end |-> leaves[l].end, part |-> leaves[l].part,
            days |-> leaves[l].days, auto |-> leaves[l].auto]]
      /\ leaveDesk' = [leaveDesk EXCEPT ![s] = AtRest]
      /\ UNCHANGED <<balance, leaveBeside>>
  BY DEF LeaveUpdateSave, Busy
<1>2. /\ leaveDesk' = [t \in Reviewers \union {"owner"} |-> leaveDesk'[t]]
      /\ DOMAIN leaveDesk = Reviewers \union {"owner"} /\ DOMAIN leaveDesk' = DOMAIN leaveDesk
      /\ ~Busy(s)'
      /\ \A t \in DOMAIN leaveDesk \ {s} : leaveDesk'[t] = leaveDesk[t]
  BY <1>1 DEF LeaveInv, LeaveShapes, AtRest, Busy
<1>3. /\ l \in Leaves /\ LeaveStored(l)
      /\ leaves[l].status = "pending" \/ {l} \in leaveBeside
      /\ \A t \in DOMAIN leaveDesk \ {s} :
           (Busy(t) /\ leaveDesk[t].leave = l) => {l} \in leaveBeside
      /\ \A k \in Leaves : leaves[k].stage = "checked" => {k, l} \in leaveBeside
  BY <1>1, <1>2 DEF LeaveInv, DesksHold, Beside, DecidedTwice
<1> HIDE DEF l
<1>4. /\ leaves'[l].stage = "stored" /\ leaves'[l].start = leaves[l].start
      /\ leaves'[l].end = leaves[l].end /\ leaves'[l].days = leaves[l].days
      /\ \A m \in Leaves \ {l} : leaves'[m] = leaves[m]
      /\ leaves' = [m \in Leaves |-> leaves'[m]]
  BY <1>1, <1>3 DEF LeaveInv, LeaveShapes
<1>5. /\ \A m \in Leaves : LeaveStored(m)' <=> LeaveStored(m)
      /\ \A m \in Leaves : leaves'[m].stage = "checked" <=> leaves[m].stage = "checked"
      /\ \A m \in Leaves \ {l} : Standing(m)' <=> Standing(m)
      /\ Standing(l) \/ {l} \in leaveBeside
  BY <1>3, <1>4 DEF Standing, LeaveStored
<1>6. \A m, n \in Leaves : Meets(leaves'[m], leaves'[n]) <=> Meets(leaves[m], leaves[n])
  BY <1>4 DEF Meets
<1>7. LeaveShapes'
  <2>1. \A m \in Leaves : leaves'[m].stage # "none" => Charged(m)'
    BY <1>3, <1>4 DEF LeaveInv, LeaveShapes, Charged, LeaveStored
  <2> QED
    BY <1>1, <1>2, <1>4, <2>1 DEF LeaveInv, LeaveShapes
<1>8. CheckedTogether'
  BY <1>1, <1>5 DEF LeaveInv, CheckedTogether, Beside
<1>9. CheckedIsClear'
  <2> SUFFICES ASSUME NEW m \in Leaves, NEW n \in Leaves, m # n,
                      leaves'[m].stage = "checked", Standing(n)',
                      Meets(leaves'[m], leaves'[n])
               PROVE  {m, n} \in leaveBeside \/ {n} \in leaveBeside
    BY <1>1 DEF CheckedIsClear, Beside, DecidedTwice
  <2>1. leaves[m].stage = "checked" /\ Meets(leaves[m], leaves[n])
    BY <1>5, <1>6
  <2>2. CASE n = l
    BY <1>3, <2>1, <2>2
  <2>3. CASE n # l
    BY <1>5, <2>1, <2>3 DEF LeaveInv, CheckedIsClear, Beside, DecidedTwice
  <2> QED
    BY <2>2, <2>3
<1>10. DesksHold'
  <2> SUFFICES ASSUME NEW t \in DOMAIN leaveDesk', Busy(t)', NEW m, m = leaveDesk'[t].leave
               PROVE  /\ m \in Leaves /\ LeaveStored(m)'
                      /\ leaves'[m].status = "pending" \/ {m} \in leaveBeside
                      /\ \A u \in DOMAIN leaveDesk' \ {t} :
                           (Busy(u)' /\ leaveDesk'[u].leave = m) => {m} \in leaveBeside
                      /\ \A k \in Leaves :
                           leaves'[k].stage = "checked" => {k, m} \in leaveBeside
    BY <1>1 DEF DesksHold, Beside, DecidedTwice
  <2>1. t # s /\ t \in DOMAIN leaveDesk /\ Busy(t) /\ m = leaveDesk[t].leave
    BY <1>2 DEF Busy
  <2>2. /\ m \in Leaves /\ LeaveStored(m)
        /\ leaves[m].status = "pending" \/ {m} \in leaveBeside
        /\ \A u \in DOMAIN leaveDesk \ {t} :
             (Busy(u) /\ leaveDesk[u].leave = m) => {m} \in leaveBeside
        /\ \A k \in Leaves : leaves[k].stage = "checked" => {k, m} \in leaveBeside
    BY <2>1 DEF LeaveInv, DesksHold, Beside, DecidedTwice
  <2>3. leaves'[m].status = "pending" \/ {m} \in leaveBeside
    <3>1. m = l => {m} \in leaveBeside
      BY <1>3, <2>1
    <3> QED
      BY <1>4, <2>2, <3>1
  <2>4. \A u \in DOMAIN leaveDesk' \ {t} : (Busy(u)' /\ leaveDesk'[u].leave = m) =>
          u \in DOMAIN leaveDesk \ {t} /\ Busy(u) /\ leaveDesk[u].leave = m
    BY <1>2 DEF Busy
  <2> QED
    BY <1>5, <2>2, <2>3, <2>4
<1>11. NoOverlappingLeave'
  <2> SUFFICES ASSUME NEW m \in Leaves, NEW n \in Leaves, m # n, Standing(m)', Standing(n)',
                      Meets(leaves'[m], leaves'[n])
               PROVE  {{m}, {n}, {m, n}} \intersect leaveBeside # {}
    BY <1>1 DEF NoOverlappingLeave
  <2>1. CASE (m = l \/ n = l) /\ {l} \in leaveBeside
    BY <2>1
  <2>2. CASE Standing(m) /\ Standing(n)
    BY <1>6, <2>2 DEF LeaveInv, NoOverlappingLeave
  <2> QED
    BY <1>5, <2>1, <2>2
<1> QED
  BY <1>7, <1>8, <1>9, <1>10, <1>11 DEF LeaveInv

LEMMA BalanceKeepsLeaves ==
  ASSUME LeaveInv, NEW year \in Years, NEW entitled \in Entitlements, BalanceSet(year, entitled)
  PROVE  LeaveInv'
<1>1. /\ balance' = [balance EXCEPT ![year] = entitled]
      /\ leaveBeside \subseteq leaveBeside'
      /\ UNCHANGED <<leaves, leaveDesk>>
  BY DEF BalanceSet
<1>2. LeaveShapes'
  BY <1>1 DEF LeaveInv, LeaveShapes, Charged
<1>3. CheckedTogether' /\ CheckedIsClear' /\ DesksHold'
  BY <1>1 DEF LeaveInv, CheckedTogether, CheckedIsClear, DesksHold, Busy, Standing,
              LeaveStored, Beside, DecidedTwice
<1>4. \A m, n \in Leaves :
        (m # n /\ Standing(m)' /\ Standing(n)' /\ Meets(leaves'[m], leaves'[n])) =>
          {{m}, {n}, {m, n}} \intersect leaveBeside' # {}
  BY <1>1 DEF LeaveInv, NoOverlappingLeave, Standing, LeaveStored
<1>5. NoOverlappingLeave'
  BY <1>4 DEF NoOverlappingLeave
<1> QED
  BY <1>2, <1>3, <1>5 DEF LeaveInv

LEMMA LeaveStep ==
  ASSUME LeaveData, LeaveInv, [LeaveNext]_leaveVars
  PROVE  LeaveInv'
<1>1. ASSUME NEW l \in Leaves, NEW by \in {"owner", "manager", "admin"},
             NEW x \in LeaveDrafts, LeaveCheck(l, by, x)
      PROVE  LeaveInv'
  BY <1>1, CheckKeepsLeaves
<1>2. ASSUME NEW l \in Leaves, LeaveSave(l)
      PROVE  LeaveInv'
  BY <1>2, SaveKeepsLeaves
<1>3. ASSUME NEW s \in Reviewers \union {"owner"}, NEW l \in Leaves,
             NEW status \in {"approved", "rejected", "cancelled"}, LeaveUpdateRead(s, l, status)
      PROVE  LeaveInv'
  BY <1>3, ReadKeepsLeaves
<1>4. ASSUME NEW s \in Reviewers \union {"owner"}, LeaveUpdateSave(s)
      PROVE  LeaveInv'
  BY <1>4, DecisionKeepsLeaves
<1>5. ASSUME NEW year \in Years, NEW entitled \in Entitlements, BalanceSet(year, entitled)
      PROVE  LeaveInv'
  BY <1>5, BalanceKeepsLeaves
<1>6. CASE UNCHANGED leaveVars
  <2>1. UNCHANGED <<leaves, leaveDesk, balance, leaveBeside>>
    BY <1>6 DEF leaveVars
  <2>2. LeaveShapes' /\ CheckedTogether'
    BY <2>1 DEF LeaveInv, LeaveShapes, Charged, CheckedTogether, Beside
  <2>3. CheckedIsClear' /\ NoOverlappingLeave'
    BY <2>1 DEF LeaveInv, CheckedIsClear, NoOverlappingLeave, Standing, LeaveStored,
                Beside, DecidedTwice
  <2>4. DesksHold'
    BY <2>1 DEF LeaveInv, DesksHold, Busy, LeaveStored, Beside, DecidedTwice
  <2> QED
    BY <2>2, <2>3, <2>4 DEF LeaveInv
<1> QED
  BY <1>1, <1>2, <1>3, <1>4, <1>5, <1>6 DEF LeaveNext

\* Two leaves that stand share a day only if they were handled at once or one
\* of them was decided twice at once: for any number of leaves and reviewers,
\* whatever was in the way of a leave when it was checked either does not stand
\* when it is saved, or was under way beside it.
THEOREM LeavesDoNotOverlap ==
  ASSUME LeaveData
  PROVE  LeaveSpec => []NoOverlappingLeave
<1>1. LeaveInv => NoOverlappingLeave
  BY DEF LeaveInv
<1>2. LeaveInv /\ [LeaveNext]_leaveVars => LeaveInv'
  BY LeaveStep
<1> QED
  BY <1>1, <1>2, LeaveInvInit, PTL DEF LeaveSpec

\* What a leave was charged fits the balance, as long as nothing else is
\* handled beside it.
Undisturbed(l) == \A pair \in leaveBeside : l \notin pair
ChargeFits ==
  \A l \in Leaves, year \in Years :
    (/\ leaves[l].stage = "checked" /\ Undisturbed(l) /\ deductsBalance(leaves[l].type)
     /\ YearOf(leaves[l].start) = year /\ balance[year] # NoBalance)
      => leaves[l].days + UsedIn(year) <= balance[year]

\* What of a year is used follows what is approved of it.
Used(year) ==
  {l \in Leaves : /\ LeaveStored(l) /\ leaves[l].status = "approved"
                  /\ deductsBalance(leaves[l].type) /\ YearOf(leaves[l].start) = year}

LEMMA UsedStays ==
  ASSUME NEW year, Used(year)' = Used(year),
         \A l \in Used(year) : leaves'[l].days = leaves[l].days
  PROVE  UsedIn(year)' = UsedIn(year)
<1>1. /\ UsedIn(year) = SumFunction([l \in Used(year) |-> leaves[l].days])
      /\ UsedIn(year)' = SumFunction([l \in Used(year)' |-> leaves'[l].days])
  BY DEF UsedIn, Used
<1>2. [l \in Used(year)' |-> leaves'[l].days] = [l \in Used(year) |-> leaves[l].days]
  OBVIOUS
<1> QED
  BY <1>1, <1>2

LEMMA UsedGrows ==
  ASSUME IsFiniteSet(Leaves), LeaveShapes, NEW l \in Leaves, NEW year, l \notin Used(year),
         Used(year)' = Used(year) \union {l}, leaves'[l].days \in Nat,
         \A m \in Used(year) : leaves'[m].days = leaves[m].days
  PROVE  UsedIn(year)' = UsedIn(year) + leaves'[l].days
<1> DEFINE f == [m \in Used(year) |-> leaves[m].days]
           g == [m \in Used(year)' |-> leaves'[m].days]
<1>1. UsedIn(year) = SumFunction(f) /\ UsedIn(year)' = SumFunction(g)
  BY DEF UsedIn, Used
<1>2. \A m \in Used(year) : m \in Leaves /\ leaves[m].days \in Nat
  BY DEF Used, LeaveStored, LeaveShapes, Charged
<1>3. IsFiniteSet(Used(year))
  BY FS_Subset DEF Used
<1>4. /\ DOMAIN f = Used(year) /\ DOMAIN g = DOMAIN f \union {l} /\ g[l] = leaves'[l].days
      /\ \A m \in DOMAIN f : f[m] \in Nat /\ g[m] = f[m]
  BY <1>2
<1> HIDE DEF f, g
<1>5. SumFunction(g) = SumFunction(f) + g[l]
  BY <1>3, <1>4, SumOfOneMore
<1> QED
  BY <1>1, <1>4, <1>5

\* What is used of a year is a number.
LEMMA UsedIsANumber ==
  ASSUME IsFiniteSet(Leaves), LeaveShapes, NEW year
  PROVE  UsedIn(year) \in Nat
<1> DEFINE f == [m \in Used(year) |-> leaves[m].days]
<1>1. UsedIn(year) = SumFunction(f)
  BY DEF UsedIn, Used
<1>2. \A m \in Used(year) : m \in Leaves /\ leaves[m].days \in Nat
  BY DEF Used, LeaveStored, LeaveShapes, Charged
<1>3. IsFiniteSet(Used(year))
  BY FS_Subset DEF Used
<1>4. DOMAIN f = Used(year) /\ \A m \in DOMAIN f : f[m] \in Nat
  BY <1>2
<1> HIDE DEF f
<1>5. SumFunction(f) = Cardinality(Units(f, DOMAIN f)) /\ IsFiniteSet(Units(f, DOMAIN f))
  BY <1>3, <1>4, SumFunctionIsCount, UnitsAreFinite
<1> QED
  BY <1>1, <1>5, FS_CardinalityType

-----------------------------------------------------------------------------

LEMMA ChargeFitsInit == LeaveInit => ChargeFits
<1> SUFFICES ASSUME LeaveInit PROVE ChargeFits
  OBVIOUS
<1>1. \A l \in Leaves : leaves[l].stage # "checked"
  BY DEF LeaveInit, NoLeave
<1> QED
  BY <1>1 DEF ChargeFits

\* A save is the only step that changes what is used while a leave waits for
\* its save undisturbed, and then it is its own.
LEMMA ChargeFitsStep ==
  ASSUME IsFiniteSet(Leaves), LeaveData, LeaveInv, ChargeFits, [LeaveNext]_leaveVars
  PROVE  ChargeFits' /\ UnreviewedStepIsWithinBalance
<1>0. LeaveInv'
  BY LeaveStep
<1>1. ASSUME NEW l \in Leaves, NEW by \in {"owner", "manager", "admin"},
             NEW x \in LeaveDrafts, LeaveCheck(l, by, x)
      PROVE  ChargeFits' /\ UnreviewedStepIsWithinBalance
  <2> DEFINE days == requestedDaysFor(leavePlan, leaveContract, x.start, x.end, x.part)
  <2>1. /\ leaves[l].stage = "none" /\ FitsBalance(x, days)
        /\ leaves' = [leaves EXCEPT ![l] =
             [stage |-> "checked", type |-> x.type, start |-> x.start, end |-> x.end,
              part |-> x.part, days |-> days,
              auto |-> by # "owner" \/ ~requiresApproval(x.type)]]
        /\ leaveBeside' = leaveBeside \union InHandBeside(l)
        /\ UNCHANGED <<balance, leaveDesk>>
    BY <1>1 DEF LeaveCheck
  <2>2. days \in Nat /\ YearOf(x.start) \in Years
    BY ChargeIsANumber DEF LeaveData, Years
  <2> HIDE DEF days
  <2>3. /\ leaves'[l].stage = "checked" /\ leaves'[l].start = x.start
        /\ leaves'[l].type = x.type /\ leaves'[l].days = days
        /\ \A m \in Leaves \ {l} : leaves'[m] = leaves[m]
    BY <2>1 DEF LeaveInv, LeaveShapes
  <2>4. ASSUME NEW year
        PROVE  UsedIn(year)' = UsedIn(year)
    <3>1. Used(year)' = Used(year) /\ \A m \in Used(year) : m # l /\ m \in Leaves
      BY <2>1, <2>3 DEF Used, LeaveStored
    <3> QED
      BY <2>3, <3>1, UsedStays
  <2>5. ASSUME NEW m \in Leaves, NEW y \in Years, leaves'[m].stage = "checked",
               Undisturbed(m)', deductsBalance(leaves'[m].type),
               YearOf(leaves'[m].start) = y, balance[y] # NoBalance
        PROVE  leaves'[m].days + UsedIn(y) <= balance[y]
    <3>1. CASE m = l
      <4>1. days <= balance[y] - UsedIn(y)
        BY <2>1, <2>3, <2>5, <3>1 DEF FitsBalance
      <4>2. balance[y] \in Int
        BY <2>2 DEF LeaveInv, LeaveShapes, LeaveData, NoBalance
      <4>3. UsedIn(y) \in Nat
        BY UsedIsANumber DEF LeaveInv
      <4>4. days + UsedIn(y) <= balance[y]
        BY <2>2, <4>1, <4>2, <4>3
      <4> QED
        BY <2>3, <3>1, <4>4
    <3>2. CASE m # l
      <4>1. leaves'[m] = leaves[m] /\ Undisturbed(m)
        BY <2>1, <2>3, <2>5, <3>2 DEF Undisturbed
      <4> QED
        BY <2>5, <4>1 DEF ChargeFits
    <3> QED
      BY <3>1, <3>2
  <2>6. ChargeFits'
    BY <2>1, <2>4, <2>5 DEF ChargeFits
  <2>7. \A m \in Leaves : leaves[m].stage = "checked" => leaves'[m].stage # "stored"
    BY <2>1, <2>3
  <2> QED
    BY <2>6, <2>7 DEF UnreviewedStepIsWithinBalance
<1>2. ASSUME NEW l \in Leaves, LeaveSave(l)
      PROVE  ChargeFits' /\ UnreviewedStepIsWithinBalance
  <2>1. /\ leaves[l].stage = "checked"
        /\ leaves' = [leaves EXCEPT ![l] =
             [stage |-> "stored", status |-> IF leaves[l].auto THEN "approved" ELSE "pending",
              type |-> leaves[l].type, start |-> leaves[l].start, end |-> leaves[l].end,
              part |-> leaves[l].part, days |-> leaves[l].days, auto |-> leaves[l].auto]]
        /\ UNCHANGED <<balance, leaveDesk, leaveBeside>>
    BY <1>2 DEF LeaveSave
  <2>2. /\ leaves'[l].stage = "stored" /\ leaves'[l].start = leaves[l].start
        /\ leaves'[l].type = leaves[l].type /\ leaves'[l].days = leaves[l].days
        /\ leaves[l].days \in Nat
        /\ \A m \in Leaves \ {l} : leaves'[m] = leaves[m]
    BY <2>1 DEF LeaveInv, LeaveShapes, Charged
  <2>3. \A m \in Leaves \ {l} : leaves[m].stage = "checked" => ~Undisturbed(m)
    <3>1. ASSUME NEW m \in Leaves \ {l}, leaves[m].stage = "checked" PROVE ~Undisturbed(m)
      <4>1. {m, l} \in leaveBeside
        BY <2>1, <3>1 DEF LeaveInv, CheckedTogether, Beside
      <4> QED
        BY <4>1 DEF Undisturbed
    <3> QED
      BY <3>1
  <2>4. ChargeFits'
    <3>1. \A m \in Leaves : ~(leaves'[m].stage = "checked" /\ Undisturbed(m)')
      BY <2>1, <2>2, <2>3 DEF Undisturbed
    <3> QED
      BY <3>1 DEF ChargeFits
  <2>5. ASSUME NEW m \in Leaves, NEW y \in Years, leaves[m].stage = "checked",
               leaves'[m].stage = "stored", leaves'[m].status = "approved",
               deductsBalance(leaves[m].type), YearOf(leaves[m].start) = y,
               balance[y] # NoBalance, Undisturbed(m)
        PROVE  UsedIn(y)' <= balance[y]
    <3>1. m = l
      BY <2>2, <2>5
    <3>2. leaves[l].days + UsedIn(y) <= balance[y]
      BY <2>5, <3>1 DEF ChargeFits
    <3>3. l \notin Used(y) /\ Used(y)' = Used(y) \union {l}
      <4>1. l \notin Used(y)
        BY <2>1 DEF Used, LeaveStored
      <4>2. l \in Used(y)'
        BY <2>2, <2>5, <3>1 DEF Used, LeaveStored
      <4>3. \A k \in Leaves \ {l} : k \in Used(y)' <=> k \in Used(y)
        BY <2>2 DEF Used, LeaveStored
      <4>4. Used(y) \subseteq Leaves /\ Used(y)' \subseteq Leaves
        BY DEF Used
      <4> QED
        BY <4>1, <4>2, <4>3, <4>4
    <3>4. \A k \in Used(y) : leaves'[k].days = leaves[k].days
      <4>1. Used(y) \subseteq Leaves
        BY DEF Used
      <4> QED
        BY <2>2, <3>3, <4>1
    <3>5. UsedIn(y)' = UsedIn(y) + leaves'[l].days
      BY <2>2, <3>3, <3>4, UsedGrows DEF LeaveInv
    <3>6. UsedIn(y) \in Nat
      BY UsedIsANumber DEF LeaveInv
    <3> QED
      BY <2>2, <3>2, <3>5, <3>6
  <2> QED
    BY <2>1, <2>4, <2>5 DEF UnreviewedStepIsWithinBalance, Undisturbed
<1>3. ASSUME UNCHANGED <<leaves, balance>>, leaveBeside \subseteq leaveBeside'
      PROVE  ChargeFits' /\ UnreviewedStepIsWithinBalance
  <2>1. \A year : UsedIn(year)' = UsedIn(year)
    BY <1>3 DEF UsedIn, LeaveStored
  <2>2. \A l : Undisturbed(l)' => Undisturbed(l)
    BY <1>3 DEF Undisturbed
  <2> QED
    BY <1>3, <2>1, <2>2 DEF ChargeFits, UnreviewedStepIsWithinBalance
<1>4. ASSUME NEW s \in Reviewers \union {"owner"}, NEW l \in Leaves,
             NEW status \in {"approved", "rejected", "cancelled"}, LeaveUpdateRead(s, l, status)
      PROVE  ChargeFits' /\ UnreviewedStepIsWithinBalance
  BY <1>3, <1>4 DEF LeaveUpdateRead
<1>5. ASSUME NEW s \in Reviewers \union {"owner"}, LeaveUpdateSave(s)
      PROVE  ChargeFits' /\ UnreviewedStepIsWithinBalance
  <2> DEFINE l == leaveDesk[s].leave
  <2>1. /\ Busy(s) /\ UNCHANGED <<balance, leaveBeside>>
        /\ leaves' = [leaves EXCEPT ![l] =
             [stage |-> "stored", status |-> leaveDesk[s].status, type |-> leaves[l].type,
              start |-> leaves[l].start, end |-> leaves[l].end, part |-> leaves[l].part,
              days |-> leaves[l].days, auto |-> leaves[l].auto]]
    BY <1>5 DEF LeaveUpdateSave, Busy
  <2>2. s \in DOMAIN leaveDesk
    BY DEF LeaveInv, LeaveShapes
  <2>3. /\ l \in Leaves /\ LeaveStored(l)
        /\ \A k \in Leaves : leaves[k].stage = "checked" => {k, l} \in leaveBeside
    BY <2>1, <2>2 DEF LeaveInv, DesksHold, Beside
  <2> HIDE DEF l
  <2>4. \A k \in Leaves : leaves[k].stage = "checked" => ~Undisturbed(k)
    BY <2>3 DEF Undisturbed
  <2>5. \A k \in Leaves : leaves'[k].stage = "checked" => leaves[k].stage = "checked"
    BY <2>1, <2>3 DEF LeaveInv, LeaveShapes
  <2>6. \A k \in Leaves : leaves'[k].stage = "checked" => ~Undisturbed(k)'
    BY <2>1, <2>4, <2>5 DEF Undisturbed
  <2> QED
    BY <2>4, <2>6 DEF ChargeFits, UnreviewedStepIsWithinBalance, Undisturbed
<1>6. ASSUME NEW year \in Years, NEW entitled \in Entitlements, BalanceSet(year, entitled)
      PROVE  ChargeFits' /\ UnreviewedStepIsWithinBalance
  <2>1. /\ leaves' = leaves
        /\ \A l \in Leaves : leaves[l].stage = "checked" => {l, "balance"} \in leaveBeside'
    BY <1>6 DEF BalanceSet
  <2>2. \A l \in Leaves : leaves'[l].stage = "checked" => ~Undisturbed(l)'
    BY <2>1 DEF Undisturbed
  <2>3. \A l \in Leaves : ~(leaves[l].stage = "checked" /\ leaves'[l].stage = "stored")
    BY <2>1
  <2> QED
    BY <2>2, <2>3 DEF ChargeFits, UnreviewedStepIsWithinBalance
<1>7. CASE UNCHANGED leaveVars
  BY <1>3, <1>7 DEF leaveVars
<1> QED
  BY <1>1, <1>2, <1>4, <1>5, <1>6, <1>7 DEF LeaveNext

\* A leave approved without a review leaves no year overdrawn, whoever assigns
\* it and whatever the plan it is charged by, as long as nothing was handled
\* beside it: no other leave, no decision and no edit of a balance.
THEOREM LeaveIsWithinBalance ==
  ASSUME LeaveData, IsFiniteSet(Leaves)
  PROVE  LeaveSpec => UnreviewedLeaveIsWithinBalance
<1>1. LeaveInit => LeaveInv /\ ChargeFits
  BY LeaveInvInit, ChargeFitsInit
<1>2. LeaveInv /\ ChargeFits /\ [LeaveNext]_leaveVars => LeaveInv' /\ ChargeFits'
  BY LeaveStep, ChargeFitsStep
<1>3. LeaveInv /\ ChargeFits /\ [LeaveNext]_leaveVars
        => [UnreviewedStepIsWithinBalance]_leaveVars
  BY ChargeFitsStep
<1> QED
  BY <1>1, <1>2, <1>3, PTL DEF LeaveSpec, UnreviewedLeaveIsWithinBalance

-----------------------------------------------------------------------------
(* Contracts: the weekday of a date.                                       *)

\* What a year adds to the weekday of its days from March on.
YearShift(y) == (y % 100) + (y % 100) \div 4 + (y \div 100) \div 4 + 5 * (y \div 100)

\* It grows by one, and by two into a leap year.
LEMMA YearsShift ==
  ASSUME NEW y \in Nat \ {0}
  PROVE  \E k \in Int :
           YearShift(y) = YearShift(y - 1) + 7 * k + (IF IsLeap(y) THEN 2 ELSE 1)
<1> DEFINE c == y \div 100
           o == y % 100
<1>1. y = 100 * c + o /\ c \in Nat /\ o \in 0 .. 99
  OBVIOUS
<1>2. CASE o # 0
  <2>1. (y - 1) \div 100 = c /\ (y - 1) % 100 = o - 1
    BY <1>1, <1>2
  <2>2. IsLeap(y) <=> o % 4 = 0
    BY <1>1, <1>2 DEF IsLeap
  <2>3. o \div 4 = (o - 1) \div 4 + (IF o % 4 = 0 THEN 1 ELSE 0)
    BY <1>1, <1>2
  <2>4. YearShift(y) = YearShift(y - 1) + 7 * 0 + (IF IsLeap(y) THEN 2 ELSE 1)
    BY <1>1, <2>1, <2>2, <2>3 DEF YearShift
  <2> QED
    BY <2>4
<1>3. CASE o = 0
  <2>1. c \in Nat \ {0} /\ (y - 1) \div 100 = c - 1 /\ (y - 1) % 100 = 99
    BY <1>1, <1>3
  <2>2. IsLeap(y) <=> c % 4 = 0
    BY <1>1, <1>3 DEF IsLeap
  <2>3. c \div 4 = (c - 1) \div 4 + (IF c % 4 = 0 THEN 1 ELSE 0)
    BY <2>1
  <2>4. YearShift(y) = YearShift(y - 1) + 7 * (-17) + (IF IsLeap(y) THEN 2 ELSE 1)
    BY <1>3, <2>1, <2>2, <2>3 DEF YearShift
  <2>5. -17 \in Int
    OBVIOUS
  <2> QED
    BY <2>4, <2>5
<1> QED
  BY <1>2, <1>3

\* What a day and a month add.
MonthShift(m, d) == d + (13 * (m + 1)) \div 5

\* The weekday of a date is what its year, month and day add.
LEMMA WeekdayOfDate ==
  ASSUME NEW y \in Nat \ {0}, NEW m \in 1 .. 12, NEW d \in 1 .. 31
  PROVE  calendarWeekday(<<y, m, d>>) =
           ((IF m < 3 THEN MonthShift(m + 12, d) + YearShift(y - 1)
                      ELSE MonthShift(m, d) + YearShift(y)) + 6) % 7
<1>1. ASSUME NEW x \in Int PROVE ((x % 7) + 6) % 7 = (x + 6) % 7
  BY <1>1
<1>2. CASE m < 3
  <2> DEFINE x == MonthShift(m + 12, d) + YearShift(y - 1)
  <2>1. calendarWeekday(<<y, m, d>>) = ((x % 7) + 6) % 7
    BY <1>2 DEF calendarWeekday, MonthShift, YearShift
  <2>2. x \in Int
    BY DEF MonthShift, YearShift
  <2> HIDE DEF x
  <2>3. ((x % 7) + 6) % 7 = (x + 6) % 7
    BY <1>1, <2>2
  <2> QED
    BY <1>2, <2>1, <2>3 DEF x
<1>3. CASE ~(m < 3)
  <2> DEFINE x == MonthShift(m, d) + YearShift(y)
  <2>1. calendarWeekday(<<y, m, d>>) = ((x % 7) + 6) % 7
    BY <1>3 DEF calendarWeekday, MonthShift, YearShift
  <2>2. x \in Int
    BY DEF MonthShift, YearShift
  <2> HIDE DEF x
  <2>3. ((x % 7) + 6) % 7 = (x + 6) % 7
    BY <1>1, <2>2
  <2> QED
    BY <1>3, <2>1, <2>3 DEF x
<1> QED
  BY <1>2, <1>3

\* The next date has the next weekday, also past the end of a month, of a year
\* and of a century.
LEMMA WeekdayOfNextDate ==
  ASSUME NEW x, IsDate(x)
  PROVE  IsDate(NextDate(x)) /\ calendarWeekday(NextDate(x)) = (calendarWeekday(x) + 1) % 7
<1>1. PICK y \in Nat \ {0}, m \in 1 .. 12, d \in 1 .. 31 :
        x = <<y, m, d>> /\ d <= MonthLength(y, m)
  BY DEF IsDate
<1>2. MonthLength(y, m) \in 28 .. 31
  BY DEF MonthLength
<1>3. ASSUME NEW a \in Int, NEW b \in Int, NEW k \in Int, b = a + 7 * k + 1
      PROVE  (b + 6) % 7 = (((a + 6) % 7) + 1) % 7
  BY <1>3
<1>4. YearShift(y) \in Int /\ YearShift(y - 1) \in Int
  BY DEF YearShift
<1>5. CASE d < MonthLength(y, m)
  <2>1. NextDate(x) = <<y, m, d + 1>> /\ d + 1 \in 1 .. 31
    BY <1>1, <1>2, <1>5 DEF NextDate
  <2>2. IsDate(NextDate(x))
    BY <1>2, <1>5, <2>1 DEF IsDate
  <2> DEFINE a == IF m < 3 THEN MonthShift(m + 12, d) + YearShift(y - 1)
                           ELSE MonthShift(m, d) + YearShift(y)
             b == IF m < 3 THEN MonthShift(m + 12, d + 1) + YearShift(y - 1)
                           ELSE MonthShift(m, d + 1) + YearShift(y)
  <2>3. b = a + 7 * 0 + 1 /\ a \in Int /\ b \in Int
    BY <1>4 DEF MonthShift
  <2>4. calendarWeekday(x) = (a + 6) % 7 /\ calendarWeekday(NextDate(x)) = (b + 6) % 7
    BY <1>1, <2>1, WeekdayOfDate
  <2> HIDE DEF a, b
  <2> QED
    BY <1>3, <2>2, <2>3, <2>4
<1>6. CASE d = MonthLength(y, m) /\ m < 12
  <2>1. NextDate(x) = <<y, m + 1, 1>>
    BY <1>1, <1>2, <1>6 DEF NextDate
  <2>2. IsDate(NextDate(x))
    BY <1>6, <2>1 DEF IsDate, MonthLength
  <2> DEFINE a == IF m < 3 THEN MonthShift(m + 12, d) + YearShift(y - 1)
                           ELSE MonthShift(m, d) + YearShift(y)
             b == IF m + 1 < 3 THEN MonthShift(m + 1 + 12, 1) + YearShift(y - 1)
                               ELSE MonthShift(m + 1, 1) + YearShift(y)
  <2>3. a \in Int /\ b \in Int
    BY <1>4 DEF MonthShift
  <2>6. -3 \in Int /\ -4 \in Int /\ -5 \in Int
    OBVIOUS
  <2>4. \E k \in Int : b = a + 7 * k + 1
    <3>1. CASE m = 1
      <4>1. d = 31
        BY <1>6, <3>1 DEF MonthLength
      <4>2. b = a + 7 * (-4) + 1
        BY <1>4, <3>1, <4>1 DEF MonthShift
      <4> HIDE DEF a, b
      <4> QED
        BY <4>2, <2>6
    <3>2. CASE m = 2
      <4>1. d = IF IsLeap(y) THEN 29 ELSE 28
        BY <1>6, <3>2 DEF MonthLength
      <4>2. PICK k \in Int :
              YearShift(y) = YearShift(y - 1) + 7 * k + (IF IsLeap(y) THEN 2 ELSE 1)
        BY YearsShift
      <4>3. a = d + 39 + YearShift(y - 1) /\ b = 11 + YearShift(y)
        BY <3>2 DEF MonthShift
      <4>4. b = a + 7 * (k - 8) + 1
        BY <1>4, <4>1, <4>2, <4>3
      <4>5. k - 8 \in Int
        OBVIOUS
      <4> HIDE DEF a, b
      <4> QED
        BY <4>4, <4>5
    <3>3. CASE m \in {4, 6, 9, 11}
      <4>1. d = 30
        BY <1>6, <3>3 DEF MonthLength
      <4>2. b = a + 7 * (-4) + 1 \/ b = a + 7 * (-5) + 1 \/ b = a + 7 * (-3) + 1
        BY <1>4, <3>3, <4>1 DEF MonthShift
      <4> HIDE DEF a, b
      <4> QED
        BY <4>2, <2>6
    <3>4. CASE m \in {3, 5, 7, 8, 10}
      <4>1. d = 31
        BY <1>6, <3>4 DEF MonthLength
      <4>2. b = a + 7 * (-4) + 1 \/ b = a + 7 * (-5) + 1 \/ b = a + 7 * (-3) + 1
        BY <1>4, <3>4, <4>1 DEF MonthShift
      <4> HIDE DEF a, b
      <4> QED
        BY <4>2, <2>6
    <3> QED
      BY <1>6, <3>1, <3>2, <3>3, <3>4
  <2>5. calendarWeekday(x) = (a + 6) % 7 /\ calendarWeekday(NextDate(x)) = (b + 6) % 7
    <3>1. m + 1 \in 1 .. 12 /\ 1 \in 1 .. 31
      BY <1>6
    <3>2. calendarWeekday(<<y, m + 1, 1>>) =
            ((IF m + 1 < 3 THEN MonthShift(m + 1 + 12, 1) + YearShift(y - 1)
                           ELSE MonthShift(m + 1, 1) + YearShift(y)) + 6) % 7
      BY <3>1, WeekdayOfDate
    <3>3. calendarWeekday(<<y, m, d>>) =
            ((IF m < 3 THEN MonthShift(m + 12, d) + YearShift(y - 1)
                       ELSE MonthShift(m, d) + YearShift(y)) + 6) % 7
      BY WeekdayOfDate
    <3> QED
      BY <1>1, <2>1, <3>2, <3>3
  <2> HIDE DEF a, b
  <2> QED
    BY <1>3, <2>2, <2>3, <2>4, <2>5
<1>7. CASE d = MonthLength(y, m) /\ m = 12
  <2>1. NextDate(x) = <<y + 1, 1, 1>> /\ d = 31
    BY <1>1, <1>2, <1>7 DEF NextDate, MonthLength
  <2>2. IsDate(NextDate(x))
    BY <2>1 DEF IsDate, MonthLength
  <2> DEFINE a == MonthShift(12, 31) + YearShift(y)
             b == MonthShift(13, 1) + YearShift(y)
  <2>3. b = a + 7 * (-4) + 1 /\ a \in Int /\ b \in Int
    BY <1>4 DEF MonthShift
  <2>4. calendarWeekday(x) = (a + 6) % 7
    <3>1. calendarWeekday(<<y, 12, 31>>) =
            ((IF 12 < 3 THEN MonthShift(12 + 12, 31) + YearShift(y - 1)
                        ELSE MonthShift(12, 31) + YearShift(y)) + 6) % 7
      <4>1. 12 \in 1 .. 12 /\ 31 \in 1 .. 31
        OBVIOUS
      <4> QED
        BY <4>1, WeekdayOfDate
    <3> QED
      BY <1>1, <1>7, <2>1, <3>1
  <2>5. calendarWeekday(NextDate(x)) = (b + 6) % 7
    <3>1. y + 1 \in Nat \ {0} /\ (y + 1) - 1 = y
      OBVIOUS
    <3>2. 1 \in 1 .. 12 /\ 1 \in 1 .. 31
      OBVIOUS
    <3>3. calendarWeekday(<<y + 1, 1, 1>>) =
            ((IF 1 < 3 THEN MonthShift(1 + 12, 1) + YearShift((y + 1) - 1)
                       ELSE MonthShift(1, 1) + YearShift(y + 1)) + 6) % 7
      BY <3>1, <3>2, WeekdayOfDate
    <3> QED
      BY <2>1, <3>1, <3>3
  <2> HIDE DEF a, b
  <2> QED
    BY <1>3, <2>2, <2>3, <2>4, <2>5
<1> QED
  BY <1>1, <1>2, <1>5, <1>6, <1>7

-----------------------------------------------------------------------------
(* Contracts: the minutes of a week.                                       *)

\* The chosen weekdays among the first k from Monday on.
ChosenBefore(C, k) == {v \in C : fromMonday(v) < k}

\* What the first p of n chosen days have: a share each, and of the remainder
\* what has been given out.
Given(p, base, r) == p * base + (IF p <= r THEN p ELSE r)

LEMMA GivenGrows ==
  ASSUME NEW p \in Nat, NEW base \in Nat, NEW r \in Nat
  PROVE  Given(p + 1, base, r) = Given(p, base, r) + base + (IF p + 1 <= r THEN 1 ELSE 0)
<1>1. (p + 1) * base = p * base + base
  OBVIOUS
<1>2. p * base \in Nat
  OBVIOUS
<1> DEFINE q == p * base
<1>3. Given(p + 1, base, r) = q + base + (IF p + 1 <= r THEN p + 1 ELSE r)
  BY <1>1 DEF Given
<1>4. Given(p, base, r) = q + (IF p <= r THEN p ELSE r)
  BY DEF Given
<1> HIDE DEF q
<1> QED
  BY <1>2, <1>3, <1>4 DEF q

LEMMA SevenWeekdays == IsFiniteSet(Weekdays) /\ Cardinality(Weekdays) = 7
<1>1. 0 \in Int /\ 6 \in Int /\ ~ (0 > 6) /\ 6 - 0 + 1 = 7
  OBVIOUS
<1>2. IsFiniteSet(0 .. 6) /\ Cardinality(0 .. 6) = IF 0 > 6 THEN 0 ELSE 6 - 0 + 1
  BY <1>1, FS_Interval
<1> QED
  BY <1>1, <1>2 DEF Weekdays

\* One weekday more, and it is chosen or not.
LEMMA OneWeekdayMore ==
  ASSUME NEW C \in SUBSET Weekdays, NEW k \in 0 .. 6
  PROVE  LET w == (k + 1) % 7 IN
         /\ IsFiniteSet(ChosenBefore(C, k)) /\ Cardinality(ChosenBefore(C, k)) \in Nat
         /\ w \in Weekdays /\ fromMonday(w) = k
         /\ Cardinality(ChosenBefore(C, k + 1)) =
              Cardinality(ChosenBefore(C, k)) + (IF w \in C THEN 1 ELSE 0)
<1> DEFINE w == (k + 1) % 7
<1>1. w \in Weekdays /\ fromMonday(w) = k /\ \A v \in Weekdays : fromMonday(v) = k => v = w
  BY DEF Weekdays, fromMonday
<1>2. \A v \in Weekdays : fromMonday(v) \in 0 .. 6
  BY DEF Weekdays, fromMonday
<1>3. IsFiniteSet(Weekdays)
  BY SevenWeekdays
<1>4. IsFiniteSet(ChosenBefore(C, k))
  BY <1>3, FS_Subset DEF ChosenBefore
<1> HIDE DEF w
<1>5. ChosenBefore(C, k + 1) = IF w \in C THEN ChosenBefore(C, k) \union {w} ELSE ChosenBefore(C, k)
  BY <1>1, <1>2 DEF ChosenBefore
<1>6. w \notin ChosenBefore(C, k)
  BY <1>1 DEF ChosenBefore
<1>7. Cardinality(ChosenBefore(C, k)) \in Nat
  BY <1>4, FS_CardinalityType
<1>8. Cardinality(ChosenBefore(C, k) \union {w}) = Cardinality(ChosenBefore(C, k)) + 1
  BY <1>4, <1>6, FS_AddElement
<1> QED
  BY <1>1, <1>4, <1>5, <1>7, <1>8 DEF w

\* A flexible week from a Monday on adds up to the minutes contracted.
LEMMA WeekAddsUp ==
  ASSUME NEW agreed, agreed.weekly \in Nat, NEW monday \in Int,
         FirstWeekday \in Weekdays, weekday(monday) = 1,
         NEW f, \A d \in monday .. monday + 6 :
                  f[d] = flexibleMinutesForWeekday(agreed, weekday(d))
  PROVE  /\ MapThenSumSet(LAMBDA d : f[d], monday .. monday + 6) = agreed.weekly
         /\ \A d \in monday .. monday + 6 : f[d] \in Nat
<1> DEFINE C == flexibleWeekdays(agreed)
           n == Cardinality(C)
           base == agreed.weekly \div n
           r == agreed.weekly % n
           week == monday .. monday + 6
           P(k) == Cardinality(ChosenBefore(C, k))
           S(k) == Cardinality(Units(f, monday .. monday + k - 1))
<1>1. C \in SUBSET Weekdays /\ C # {}
  BY DEF flexibleWeekdays, Weekdays
<1>2. ChosenBefore(C, 0) = {} /\ ChosenBefore(C, 7) = C
  BY <1>1 DEF ChosenBefore, Weekdays, fromMonday
<1> HIDE DEF C
<1>3. IsFiniteSet(C) /\ n \in 1 .. 7
  <2>1. IsFiniteSet(Weekdays) /\ Cardinality(Weekdays) = 7
    BY SevenWeekdays
  <2>2. IsFiniteSet(C) /\ Cardinality(C) <= 7
    BY <1>1, <2>1, FS_Subset
  <2>3. Cardinality(C) \in Nat /\ Cardinality(C) # 0
    BY <1>1, <2>2, FS_CardinalityType, FS_EmptySet
  <2> QED
    BY <2>2, <2>3
<1>4. base \in Nat /\ r \in Nat /\ r < n /\ agreed.weekly = n * base + r
  <2> HIDE DEF n
  <2>1. n = 1 \/ n = 2 \/ n = 3 \/ n = 4 \/ n = 5 \/ n = 6 \/ n = 7
    BY <1>3
  <2> QED
    BY <2>1
<1>5. ASSUME NEW k \in 0 .. 6
      PROVE  LET w == (k + 1) % 7 IN
             /\ weekday(monday + k) = w
             /\ f[monday + k] = IF w \in C THEN base + (IF P(k + 1) <= r THEN 1 ELSE 0) ELSE 0
  <2> DEFINE w == (k + 1) % 7
  <2>1. weekday(monday + k) = w
    BY DEF weekday, Weekdays
  <2>2. monday + k \in week
    OBVIOUS
  <2>3. w \in Weekdays /\ fromMonday(w) = k
    BY <1>1, OneWeekdayMore
  <2> HIDE DEF w
  <2>4. {v \in C : fromMonday(v) <= fromMonday(w)} = ChosenBefore(C, k + 1)
    <3>1. \A v \in C : fromMonday(v) <= k <=> fromMonday(v) < k + 1
      BY <1>1 DEF fromMonday, Weekdays
    <3> QED
      BY <2>3, <3>1 DEF ChosenBefore
  <2>5. f[monday + k] = flexibleMinutesForWeekday(agreed, w)
    BY <2>1, <2>2
  <2>6. f[monday + k] = IF w \in C THEN base + (IF P(k + 1) <= r THEN 1 ELSE 0) ELSE 0
    BY <2>4, <2>5 DEF flexibleMinutesForWeekday, C
  <2> QED
    BY <2>1, <2>6 DEF w
<1> HIDE DEF n, base, r
<1>6. ASSUME NEW d \in week PROVE f[d] \in Nat
  <2>1. d - monday \in 0 .. 6 /\ monday + (d - monday) = d
    OBVIOUS
  <2> QED
    BY <1>4, <1>5, <2>1
<1>7. IsFiniteSet(week)
  BY FS_Interval
<1>8. \A U \in SUBSET week : IsFiniteSet(Units(f, U))
  <2> HIDE DEF week
  <2> QED
    BY <1>6, <1>7, UnitsAreFinite
<1> DEFINE T == {k \in 0 .. 7 : S(k) = Given(P(k), base, r)}
<1>9. 0 \in T
  <2>1. monday .. monday + 0 - 1 = {}
    OBVIOUS
  <2>2. Units(f, {}) = {}
    BY DEF Units
  <2>3. S(0) = 0 /\ P(0) = 0
    BY <1>2, <2>1, <2>2, FS_EmptySet
  <2> HIDE DEF S, P
  <2> QED
    BY <1>4, <2>3 DEF Given
<1>10. ASSUME NEW k \in 0 .. 6, k \in T PROVE k + 1 \in T
  <2> DEFINE U == monday .. monday + (k + 1) - 1
             w == (k + 1) % 7
  <2>1. monday + k \in U /\ U \ {monday + k} = monday .. monday + k - 1 /\ U \in SUBSET week
    OBVIOUS
  <2>2. f[monday + k] \in Nat
    BY <1>6, <2>1
  <2>3. IsFiniteSet(Units(f, U \ {monday + k}))
    BY <1>8, <2>1
  <2>4. Cardinality(Units(f, U)) = f[monday + k] + Cardinality(Units(f, U \ {monday + k}))
    <3> HIDE DEF U
    <3> QED
      BY <2>1, <2>2, <2>3, UnitsStep
  <2>5. S(k + 1) = f[monday + k] + S(k)
    BY <2>1, <2>4
  <2>6. P(k) \in Nat /\ P(k + 1) = P(k) + (IF w \in C THEN 1 ELSE 0)
    BY <1>1, OneWeekdayMore
  <2>7. f[monday + k] = IF w \in C THEN base + (IF P(k + 1) <= r THEN 1 ELSE 0) ELSE 0
    BY <1>5
  <2>8. S(k) = Given(P(k), base, r)
    BY <1>10
  <2> HIDE DEF S, P, w
  <2>9. S(k + 1) = Given(P(k + 1), base, r)
    <3>1. Given(P(k), base, r) \in Nat /\ base \in Nat
      BY <1>4, <2>6 DEF Given
    <3>2. CASE w \in C
      <4>1. Given(P(k) + 1, base, r) =
              Given(P(k), base, r) + base + (IF P(k) + 1 <= r THEN 1 ELSE 0)
        BY <1>4, <2>6, GivenGrows
      <4> HIDE DEF T
      <4> QED
        BY <2>5, <2>6, <2>7, <2>8, <3>1, <3>2, <4>1
    <3>3. CASE w \notin C
      BY <2>5, <2>6, <2>7, <2>8, <3>1, <3>3
    <3> QED
      BY <3>2, <3>3
  <2> QED
    BY <2>9
<1>11. 7 \in T
  <2> HIDE DEF T
  <2>1. \A m \in 0 .. 7 - 1 : m \in T => m + 1 \in T
    BY <1>10
  <2> QED
    BY <1>9, <2>1, UpTo
<1>12. Cardinality(Units(f, week)) = agreed.weekly
  <2>1. monday .. monday + 7 - 1 = week
    OBVIOUS
  <2>2. Cardinality(Units(f, week)) = Given(n, base, r)
    BY <1>2, <1>11, <2>1 DEF n
  <2>3. Given(n, base, r) = n * base + r
    BY <1>3, <1>4 DEF Given
  <2> QED
    BY <1>4, <2>2, <2>3
<1>13. MapThenSumSet(LAMBDA d : f[d], week) = Cardinality(Units(f, week))
  <2> HIDE DEF week
  <2> QED
    BY <1>6, <1>7, SumIsCount
<1> QED
  BY <1>6, <1>12, <1>13

-----------------------------------------------------------------------------
(* Contracts: the invariant.                                               *)

\* The date and its number have the same weekday, and the contract stored
\* works on some weekday and on nothing else.
ContractInv ==
  /\ IsDate(date)
  /\ day \in 0 .. WalkDays
  /\ calendarWeekday(date) = weekday(day)
  /\ terms.mode \in {"scheduled", "weekly_flexible"}
  /\ terms.weekly \in Nat
  /\ terms.weekdays \subseteq Weekdays /\ terms.weekdays # {}

LEMMA NormalizedWeekdays ==
  ASSUME NEW sent
  PROVE  normalizedWeekdays(sent) \subseteq Weekdays /\ normalizedWeekdays(sent) # {}
BY DEF normalizedWeekdays, Weekdays

LEMMA ContractsBegin == ContractInit => ContractInv
<1> SUFFICES ASSUME ContractInit PROVE ContractInv
  OBVIOUS
<1>1. IsDate(date) /\ calendarWeekday(date) = FirstWeekday /\ day = 0
  BY ContractData DEF ContractInit
<1>2. weekday(day) = FirstWeekday /\ day \in 0 .. WalkDays
  BY <1>1, ContractData DEF weekday, Weekdays
<1>3. PICK sent \in SentContracts : terms = ContractCreated(sent)
  BY DEF ContractInit
<1>4. terms.mode \in {"scheduled", "weekly_flexible"}
  BY <1>3 DEF ContractCreated, scheduleMode
<1>5. terms.weekly \in Nat
  BY <1>3, ContractData DEF ContractCreated
<1>6. terms.weekdays \subseteq Weekdays /\ terms.weekdays # {}
  BY <1>3, NormalizedWeekdays DEF ContractCreated
<1> QED
  BY <1>1, <1>2, <1>4, <1>5, <1>6 DEF ContractInv

LEMMA ContractsGoOn == ContractInv /\ [ContractNext]_contractVars => ContractInv'
<1> SUFFICES ASSUME ContractInv, [ContractNext]_contractVars PROVE ContractInv'
  OBVIOUS
<1>1. CASE NextDay
  <2>1. IsDate(date') /\ calendarWeekday(date') = (calendarWeekday(date) + 1) % 7
    BY <1>1, WeekdayOfNextDate DEF NextDay, ContractInv
  <2>2. day' = day + 1 /\ day' \in 0 .. WalkDays
    BY <1>1, ContractData DEF NextDay, ContractInv
  <2>3. weekday(day + 1) = (weekday(day) + 1) % 7
    BY ContractData DEF weekday, Weekdays, ContractInv
  <2>4. calendarWeekday(date') = weekday(day')
    BY <2>1, <2>2, <2>3 DEF ContractInv
  <2>5. terms' = terms
    BY <1>1 DEF NextDay
  <2> QED
    BY <2>1, <2>2, <2>4, <2>5 DEF ContractInv
<1>2. ASSUME NEW sameUser \in BOOLEAN, NEW sent \in SentContracts, ContractUpdate(sameUser, sent)
      PROVE  ContractInv'
  <2>1. date' = date /\ day' = day
    BY <1>2 DEF ContractUpdate
  <2>2. CASE sameUser
    <3>1. terms' = terms
      BY <1>2, <2>2 DEF ContractUpdate, ContractUpdated
    <3> QED
      BY <2>1, <3>1 DEF ContractInv
  <2>3. CASE ~sameUser
    <3>1. terms' = [mode |-> scheduleMode(sent.mode), type |-> sent.type,
                    weekly |-> sent.weekly, weekdays |-> normalizedWeekdays(sent.weekdays),
                    agreement |-> sent.agreement]
      BY <1>2, <2>3 DEF ContractUpdate, ContractUpdated
    <3>2. terms'.mode \in {"scheduled", "weekly_flexible"} /\ terms'.weekly \in Nat
      BY <3>1, ContractData DEF scheduleMode
    <3>3. terms'.weekdays \subseteq Weekdays /\ terms'.weekdays # {}
      BY <3>1, NormalizedWeekdays
    <3> QED
      BY <2>1, <3>2, <3>3 DEF ContractInv
  <2> QED
    BY <2>2, <2>3
<1>3. CASE UNCHANGED contractVars
  BY <1>3 DEF contractVars, ContractInv
<1> QED
  BY <1>1, <1>2, <1>3 DEF ContractNext

LEMMA WeekIsPlanned == ContractInv => PlannedWeekIsContracted
<1> SUFFICES ASSUME ContractInv PROVE PlannedWeekIsContracted
  OBVIOUS
<1> DEFINE monday == mondayKey(day)
           week == monday .. monday + 6
           minutes == [d \in week |-> flexibleMinutesForWeekday(terms, weekday(d))]
<1>1. day \in Int /\ monday \in Int /\ day \in week /\ weekday(monday) = 1
  BY ContractData DEF ContractInv, mondayKey, fromMonday, weekday, Weekdays
<1> HIDE DEF monday
<1>2. \A d \in week : minutes[d] = flexibleMinutesForWeekday(terms, weekday(d))
  OBVIOUS
<1>3. /\ MapThenSumSet(LAMBDA d : minutes[d], week) = terms.weekly
      /\ \A d \in week : minutes[d] \in Nat
  <2>1. terms.weekly \in Nat /\ FirstWeekday \in Weekdays
    BY ContractData DEF ContractInv
  <2> HIDE DEF minutes
  <2> QED
    BY <1>1, <1>2, <2>1, WeekAddsUp
<1>4. flexibleWeekdays(terms) = terms.weekdays
  BY DEF flexibleWeekdays, ContractInv
<1> DEFINE base == terms.weekly \div Cardinality(terms.weekdays)
<1>5. \A d \in week : minutes[d] = 0 \/ weekday(d) \in terms.weekdays
  BY <1>2, <1>4 DEF flexibleMinutesForWeekday
<1>6. \A d \in week : weekday(d) \in terms.weekdays => minutes[d] = base \/ minutes[d] = base + 1
  <2>1. Cardinality(terms.weekdays) \in Nat \ {0}
    <3>1. IsFiniteSet(terms.weekdays)
      BY SevenWeekdays, FS_Subset DEF ContractInv
    <3> QED
      BY <3>1, FS_CardinalityType, FS_EmptySet DEF ContractInv
  <2>2. base \in Int
    BY <2>1 DEF ContractInv
  <2> QED
    BY <1>2, <1>4, <2>2 DEF flexibleMinutesForWeekday
<1> HIDE DEF minutes, base
<1>7. ASSUME NEW d \in week, NEW e \in week, {weekday(d), weekday(e)} \subseteq terms.weekdays
      PROVE  minutes[d] - minutes[e] <= 1
  BY <1>3, <1>6, <1>7
<1>8. \A d \in week : minutes[d] > 0 => weekday(d) \in terms.weekdays
  BY <1>3, <1>5
<1>9. calendarWeekday(date) = weekday(day)
  BY DEF ContractInv
<1> QED
  BY <1>1, <1>3, <1>7, <1>8, <1>9 DEF PlannedWeekIsContracted, monday, minutes

\* Whatever contract an integration or a form sends, on every day of a calendar
\* of any length and from any date on: the weeks of a flexible contract plan the
\* minutes contracted to the last one, evenly, on the weekdays stored, and the
\* weekday computed from the date is the one counted day by day.
THEOREM WeeksArePlanned == ContractSpec => []PlannedWeekIsContracted
<1>1. ContractSpec => []ContractInv
  BY ContractsBegin, ContractsGoOn, PTL DEF ContractSpec
<1> QED
  BY <1>1, WeekIsPlanned, PTL

-----------------------------------------------------------------------------
(* Days, months and times.                                                 *)

LEMMA QuotientBounds ==
  ASSUME NEW n \in Int, NEW k \in Nat \ {0}
  PROVE  /\ n \div k \in Int
         /\ (n \div k) * k <= n
         /\ n < (n \div k + 1) * k
  OBVIOUS

\* A product with a natural grows with the other factor.
LEMMA ProductGrows ==
  ASSUME NEW a \in Int, NEW b \in Int, a <= b
  PROVE  a * DayLen \in Int /\ b * DayLen \in Int /\ a * DayLen <= b * DayLen
<1>1. DayLen \in Nat \ {0}
  BY TimesheetAssumption
<1>2. b - a \in Nat
  OBVIOUS
<1>3. (b - a) * DayLen \in Nat
  BY <1>2, DayBegins
<1>4. (b - a) * DayLen = b * DayLen - a * DayLen
  BY <1>1
<1>5. a * DayLen \in Int /\ b * DayLen \in Int
  BY <1>1
<1> QED
  BY <1>3, <1>4, <1>5

\* The days of a month end when the month does, and it is over when it has.
LEMMA MonthEnds ==
  ASSUME NEW p \in Periods, now \in Int
  PROVE  /\ EndOf(p) \in Int /\ DayLen \in Nat \ {0}
         /\ p * MonthLen \in Int /\ (p + 1) * MonthLen \in Int
         /\ (((p + 1) * MonthLen - 1) + 1) * DayLen = EndOf(p)
         /\ MonthIsOver(p) => EndOf(p) <= now
<1>1. MonthLen \in Nat \ {0} /\ DayLen \in Nat \ {0} /\ p \in Int
  BY StatementAssumption, TimesheetAssumption DEF Periods
<1> DEFINE m == (p + 1) * MonthLen
<1>2. p * MonthLen \in Int /\ m \in Int
  BY <1>1
<1>3. EndOf(p) = m * DayLen
  BY DEF EndOf, StartOf
<1>4. (m - 1) + 1 = m
  BY <1>2
<1>5. MonthIsOver(p) => EndOf(p) <= now
  <2> SUFFICES ASSUME MonthIsOver(p) PROVE EndOf(p) <= now
    OBVIOUS
  <2>1. Today \in Int /\ Today * DayLen <= now
    BY <1>1, QuotientBounds DEF Today, DayOf
  <2>2. p + 1 <= Today \div MonthLen /\ Today \div MonthLen \in Int
    BY <1>1, <2>1 DEF MonthIsOver
  <2>3. (Today \div MonthLen) * MonthLen <= Today
    BY <1>1, <2>1, QuotientBounds
  <2>4. m <= (Today \div MonthLen) * MonthLen
    <3> DEFINE q == Today \div MonthLen
    <3>1. q - (p + 1) \in Nat
      BY <1>1, <2>2
    <3> HIDE DEF q
    <3>2. (q - (p + 1)) * MonthLen >= 0
      BY <1>1, <3>1
    <3>3. q \in Int
      BY <2>2 DEF q
    <3>4. (q - (p + 1)) * MonthLen = q * MonthLen - m
      BY <1>1, <3>3
    <3>5. q * MonthLen \in Int
      BY <1>1, <3>3
    <3>6. m <= q * MonthLen
      BY <1>2, <3>2, <3>4, <3>5
    <3> QED
      BY <3>6 DEF q
  <2>5. m <= Today
    <3>1. (Today \div MonthLen) * MonthLen \in Int
      BY <1>1, <2>2
    <3> HIDE DEF m
    <3> QED
      BY <1>2, <2>1, <2>3, <2>4, <3>1
  <2> HIDE DEF m
  <2>6. m * DayLen <= Today * DayLen /\ m * DayLen \in Int /\ Today * DayLen \in Int
    BY <1>2, <2>1, <2>5, ProductGrows
  <2> QED
    BY <1>3, <2>1, <2>6
<1> HIDE DEF m
<1>6. m * DayLen \in Int
  BY <1>1, <1>2
<1> QED
  BY <1>1, <1>2, <1>3, <1>4, <1>5, <1>6 DEF m

LEMMA DayEnds ==
  ASSUME NEW p \in Periods, now \in Int, NEW d \in DaysOf(p)
  PROVE  /\ d \in Int /\ d * DayLen \in Int /\ (d + 1) * DayLen \in Int
         /\ d * DayLen <= EndOf(p) /\ (d + 1) * DayLen <= EndOf(p)
         /\ \A t \in Int : t > EndOf(p) => DayOf(t) > d
<1>1. /\ EndOf(p) \in Int /\ DayLen \in Nat \ {0}
      /\ p * MonthLen \in Int /\ (p + 1) * MonthLen \in Int
      /\ EndOf(p) = ((p + 1) * MonthLen) * DayLen
  BY MonthEnds DEF EndOf, StartOf
<1>2. d \in Int /\ d + 1 <= (p + 1) * MonthLen
  BY <1>1 DEF DaysOf
<1> DEFINE m == (p + 1) * MonthLen
<1> HIDE DEF m
<1>3. (d + 1) * DayLen <= m * DayLen /\ (d + 1) * DayLen \in Int
  BY <1>1, <1>2, ProductGrows DEF m
<1>4. d * DayLen <= (d + 1) * DayLen /\ d * DayLen \in Int
  BY <1>1, <1>2, ProductGrows
<1>5. ASSUME NEW t \in Int, t > EndOf(p)
      PROVE  DayOf(t) > d
  <2> DEFINE q == t \div DayLen
  <2>1. q \in Int /\ t < (q + 1) * DayLen
    BY <1>1, QuotientBounds
  <2> HIDE DEF q
  <2>2. ~ (q <= d)
    <3> SUFFICES ASSUME q <= d PROVE FALSE
      OBVIOUS
    <3>1. q + 1 \in Int /\ d + 1 \in Int /\ q + 1 <= d + 1
      BY <1>2, <2>1
    <3>2. (q + 1) * DayLen <= (d + 1) * DayLen /\ (q + 1) * DayLen \in Int
      BY <3>1, ProductGrows
    <3> QED
      BY <1>1, <1>3, <1>5, <2>1, <3>2 DEF m
  <2>3. q > d
    BY <1>2, <2>1, <2>2
  <2> QED
    BY <2>3 DEF DayOf, q
<1> QED
  BY <1>1, <1>2, <1>3, <1>4, <1>5 DEF m

-----------------------------------------------------------------------------
(* Sums.                                                                   *)

\* The minutes of a span that lie between two times.
LEMMA MinutesOfSpan ==
  ASSUME NEW s \in Span, NEW from \in Int, NEW until \in Int
  PROVE  LET minutes == AtLeastZero(Earlier(s.end, until) - Later(s.start, from))
         IN minutes \in Nat /\ (s.start >= until => minutes = 0)
<1>1. s.start \in Int /\ s.end \in Int
  BY DEF Span
<1>2. Earlier(s.end, until) \in Int /\ Earlier(s.end, until) <= until
  BY <1>1 DEF Earlier
<1>3. Later(s.start, from) \in Int /\ Later(s.start, from) >= s.start
  BY <1>1 DEF Later
<1> QED
  BY <1>1, <1>2, <1>3 DEF AtLeastZero

\* Before the limit, more spans that begin after it add nothing.
LEMMA WorkedBeforeLimit ==
  ASSUME NEW t, NEW s, NEW limit \in Int, SpansBeyond(t, s, limit),
         NEW from \in Int, NEW until \in Int, until <= limit
  PROVE  workedBetween(t, from, until) = workedBetween(s, from, until)
         /\ workedBetween(s, from, until) \in Nat
<1> DEFINE minutes(x) == AtLeastZero(Earlier(x.end, until) - Later(x.start, from))
           f == [i \in DOMAIN t |-> minutes(t[i])]
           g == [i \in DOMAIN s |-> minutes(s[i])]
<1>1. /\ t \in Seq(Span) /\ s \in Seq(Span) /\ Len(s) <= Len(t)
      /\ DOMAIN t = 1 .. Len(t) /\ DOMAIN s = 1 .. Len(s) /\ Len(t) \in Nat /\ Len(s) \in Nat
      /\ \A i \in 1 .. Len(s) : t[i] = s[i]
      /\ \A i \in Len(s) + 1 .. Len(t) : t[i].start >= limit
  BY DEF SpansBeyond
<1>2. \A x \in Span : minutes(x) \in Nat /\ (x.start >= until => minutes(x) = 0)
  BY MinutesOfSpan
<1>3. workedBetween(t, from, until) = SumFunction(f)
      /\ workedBetween(s, from, until) = SumFunction(g)
  BY DEF workedBetween
<1> HIDE DEF minutes
<1>4. /\ DOMAIN f = 1 .. Len(t) /\ DOMAIN g = 1 .. Len(s)
      /\ \A i \in 1 .. Len(t) : f[i] = minutes(t[i]) /\ t[i] \in Span
      /\ \A i \in 1 .. Len(s) : g[i] = minutes(s[i]) /\ s[i] \in Span
  BY <1>1
<1> HIDE DEF f, g
<1>5. /\ \A i \in 1 .. Len(s) : f[i] = g[i]
      /\ \A i \in 1 .. Len(s) : i \in 1 .. Len(t)
  BY <1>1, <1>4
<1>6. \A i \in Len(s) + 1 .. Len(t) : f[i] = 0
  <2>1. ASSUME NEW i \in Len(s) + 1 .. Len(t)
        PROVE  f[i] = 0
    <3>1. i \in 1 .. Len(t) /\ t[i].start >= limit
      BY <1>1
    <3>2. t[i] \in Span /\ f[i] = minutes(t[i])
      BY <1>4, <3>1
    <3>3. t[i].start \in Int
      BY <3>2 DEF Span
    <3> QED
      BY <1>2, <3>1, <3>2, <3>3
  <2> QED
    BY <2>1
<1>7. /\ IsFiniteSet(DOMAIN f) /\ IsFiniteSet(DOMAIN g)
      /\ \A i \in DOMAIN f : f[i] \in Nat
      /\ \A i \in DOMAIN g : g[i] \in Nat
  <2>0. 1 \in Int /\ Len(t) \in Int /\ Len(s) \in Int
    BY <1>1
  <2>1. IsFiniteSet(1 .. Len(t)) /\ IsFiniteSet(1 .. Len(s))
    BY <2>0, FS_Interval
  <2>2. IsFiniteSet(DOMAIN f) /\ IsFiniteSet(DOMAIN g)
    BY <1>4, <2>1
  <2>3. \A i \in DOMAIN f : f[i] \in Nat
    BY <1>2, <1>4
  <2>4. \A i \in DOMAIN g : g[i] \in Nat
    BY <1>2, <1>4
  <2> QED
    BY <2>2, <2>3, <2>4
<1>8. /\ SumFunction(f) = Cardinality(Units(f, DOMAIN f))
      /\ SumFunction(g) = Cardinality(Units(g, DOMAIN g))
  BY <1>7, SumFunctionIsCount
<1>9. Units(f, DOMAIN f) = Units(g, DOMAIN g)
  <2>1. ASSUME NEW i \in 1 .. Len(t)
        PROVE  IF i \in 1 .. Len(s) THEN f[i] = g[i] ELSE f[i] = 0
    <3>1. i \in 1 .. Len(s) \/ i \in Len(s) + 1 .. Len(t)
      BY <1>1
    <3> QED
      BY <1>1, <1>5, <1>6, <3>1
  <2>2. \A u \in (1 .. Len(t)) \X Nat : u[1] \in 1 .. Len(t) /\ u[2] \in Nat
    OBVIOUS
  <2>3. ASSUME NEW u \in Units(f, DOMAIN f)
        PROVE  u \in Units(g, DOMAIN g)
    <3>1. u \in (1 .. Len(t)) \X Nat /\ u[2] \in 1 .. f[u[1]]
      BY <1>4 DEF Units
    <3>2. u[1] \in 1 .. Len(s) /\ f[u[1]] = g[u[1]]
      BY <2>1, <2>2, <3>1
    <3>3. u \in (1 .. Len(s)) \X Nat
      BY <3>1, <3>2
    <3> QED
      BY <1>4, <3>1, <3>2, <3>3 DEF Units
  <2>4. ASSUME NEW u \in Units(g, DOMAIN g)
        PROVE  u \in Units(f, DOMAIN f)
    <3>1. u \in (1 .. Len(s)) \X Nat /\ u[2] \in 1 .. g[u[1]]
      BY <1>4 DEF Units
    <3>2. u[1] \in 1 .. Len(s)
      BY <3>1
    <3>3. u[1] \in 1 .. Len(t) /\ f[u[1]] = g[u[1]]
      BY <1>5, <3>2
    <3>4. u \in (1 .. Len(t)) \X Nat
      BY <3>1, <3>3
    <3> QED
      BY <1>4, <3>1, <3>3, <3>4 DEF Units
  <2> QED
    BY <2>3, <2>4
<1>10. Cardinality(Units(g, DOMAIN g)) \in Nat
  <2>1. IsFiniteSet(Units(g, DOMAIN g))
    BY <1>7, UnitsAreFinite
  <2> QED
    BY <2>1, FS_CardinalityType
<1> QED
  BY <1>3, <1>8, <1>9, <1>10

\* The sum of a function of naturals is one, and two of them add up.
LEMMA SumIsNatural ==
  ASSUME NEW f, IsFiniteSet(DOMAIN f), \A d \in DOMAIN f : f[d] \in Nat
  PROVE  SumFunction(f) \in Nat
<1>1. SumFunction(f) = Cardinality(Units(f, DOMAIN f))
  BY SumFunctionIsCount
<1>2. IsFiniteSet(Units(f, DOMAIN f))
  BY UnitsAreFinite
<1> QED
  BY <1>1, <1>2, FS_CardinalityType

LEMMA SumsAdd ==
  ASSUME NEW D, IsFiniteSet(D), NEW f \in [D -> Nat], NEW g \in [D -> Nat], NEW h \in [D -> Nat],
         \A d \in D : h[d] = f[d] + g[d]
  PROVE  SumFunction(h) = SumFunction(f) + SumFunction(g)
<1> DEFINE on(k, S) == [d \in S |-> k[d]]
           Bad == {S \in SUBSET D :
                     SumFunction(on(h, S)) # SumFunction(on(f, S)) + SumFunction(on(g, S))}
<1>1. \A S \in SUBSET D : IsFiniteSet(S)
  BY FS_Subset
<1>2. D \notin Bad
  <2> SUFFICES ASSUME D \in Bad PROVE FALSE
    OBVIOUS
  <2>1. Bad \in SUBSET SUBSET D /\ Bad # {}
    OBVIOUS
  <2>2. PICK S \in Bad : \A X \in Bad : X \subseteq S => X = S
    <3> HIDE DEF Bad
    <3> QED
      BY <2>1, MinimalSet
  <2>3. S \in SUBSET D
        /\ SumFunction(on(h, S)) # SumFunction(on(f, S)) + SumFunction(on(g, S))
    OBVIOUS
  <2>4. \A X \in SUBSET D : X \notin Bad =>
          SumFunction(on(h, X)) = SumFunction(on(f, X)) + SumFunction(on(g, X))
    OBVIOUS
  <2> HIDE DEF Bad
  <2>5. CASE S = {}
    <3>1. \A k \in {f, g, h} : DOMAIN on(k, {}) = {}
      OBVIOUS
    <3>2. ASSUME NEW k \in {f, g, h}
          PROVE  SumFunction(on(k, {})) = 0
      <4> DEFINE e == on(k, {})
      <4>1. DOMAIN e = {} /\ IsFiniteSet({})
        BY FS_EmptySet
      <4> HIDE DEF e
      <4>2. SumFunction(e) = Cardinality(Units(e, {}))
        BY <4>1, SumFunctionIsCount
      <4>3. Units(e, {}) = {}
        BY DEF Units
      <4>4. SumFunction(e) = 0
        BY <4>2, <4>3, FS_EmptySet
      <4> QED
        BY <4>4 DEF e
    <3>3. SumFunction(on(h, {})) = 0 /\ SumFunction(on(f, {})) = 0 /\ SumFunction(on(g, {})) = 0
      BY <3>2
    <3> HIDE DEF on
    <3> QED
      BY <2>3, <2>5, <3>3
  <2>6. CASE S # {}
    <3>1. PICK x \in S : TRUE
      BY <2>6
    <3> DEFINE X == S \ {x}
    <3>2. X \in SUBSET D /\ X \subseteq S /\ X # S /\ x \notin X /\ S = X \union {x} /\ x \in D
      BY <2>3, <3>1
    <3>3. SumFunction(on(h, X)) = SumFunction(on(f, X)) + SumFunction(on(g, X))
      BY <2>2, <2>4, <3>2
    <3>4. ASSUME NEW k \in [D -> Nat]
          PROVE  SumFunction(on(k, S)) = SumFunction(on(k, X)) + k[x]
                 /\ SumFunction(on(k, X)) \in Nat /\ k[x] \in Nat
      <4> DEFINE u == on(k, X)
                 v == on(k, S)
      <4>1. /\ DOMAIN u = X /\ DOMAIN v = S /\ v[x] = k[x] /\ k[x] \in Nat
            /\ \A d \in X : u[d] \in Nat /\ v[d] = u[d]
        BY <2>3, <3>1, <3>2
      <4>2. IsFiniteSet(X)
        BY <1>1, <3>2
      <4> HIDE DEF u, v, X
      <4>3. SumFunction(v) = SumFunction(u) + v[x]
        BY <3>2, <4>1, <4>2, SumOfOneMore
      <4>4. SumFunction(u) \in Nat
        BY <4>1, <4>2, SumIsNatural
      <4> QED
        BY <4>1, <4>3, <4>4 DEF u, v
    <3>5. h[x] = f[x] + g[x]
      BY <3>2
    <3> HIDE DEF on, X
    <3>6. SumFunction(on(h, S)) = SumFunction(on(f, S)) + SumFunction(on(g, S))
      <4>1. SumFunction(on(h, S)) = SumFunction(on(h, X)) + h[x]
        BY <3>4
      <4>2. SumFunction(on(f, S)) = SumFunction(on(f, X)) + f[x]
            /\ SumFunction(on(f, X)) \in Nat /\ f[x] \in Nat
        BY <3>4
      <4>3. SumFunction(on(g, S)) = SumFunction(on(g, X)) + g[x]
            /\ SumFunction(on(g, X)) \in Nat /\ g[x] \in Nat
        BY <3>4
      <4> QED
        BY <3>3, <3>5, <4>1, <4>2, <4>3
    <3> QED
      BY <2>3, <3>6
  <2> QED
    BY <2>5, <2>6
<1>3. SumFunction(on(h, D)) = SumFunction(on(f, D)) + SumFunction(on(g, D))
  BY <1>2
<1>4. on(h, D) = h /\ on(f, D) = f /\ on(g, D) = g
  OBVIOUS
<1> QED
  BY <1>3, <1>4

-----------------------------------------------------------------------------
(* The plan.                                                               *)

PlanRecord == [schedules : Seq(ScheduleRecord), holidays : SUBSET Int,
               leaves : SUBSET LeaveRecord]
PlanInv == contract \in ContractRecord /\ plan \in PlanRecord

LEMMA MinutesOfSchedule ==
  ASSUME NEW s \in ScheduleRecord
  PROVE  scheduleMinutes(s) \in Nat
<1>1. s.start \in Int /\ s.end \in Int /\ s.rest \in Int /\ DayMinutes \in Int
  BY StatementAssumption DEF ScheduleRecord
<1> DEFINE end == IF s.end <= s.start THEN s.end + DayMinutes ELSE s.end
           net == end - s.start - s.rest
<1>2. net \in Int
  BY <1>1
<1>3. scheduleMinutes(s) = IF net > 0 THEN net ELSE 0
  BY DEF scheduleMinutes
<1> HIDE DEF net
<1> QED
  BY <1>2, <1>3

LEMMA FlexibleMinutes ==
  ASSUME NEW c \in ContractRecord, NEW w
  PROVE  flexibleMinutesForWeekday(c, w) \in Nat
<1> DEFINE chosen == flexibleWeekdays(c)
           n == Cardinality(chosen)
           place == Cardinality({v \in chosen : fromMonday(v) <= fromMonday(w)})
           share == c.weekly \div n
           more == IF place <= c.weekly % n THEN 1 ELSE 0
<1>1. c.weekly \in Nat
  BY DEF ContractRecord
<1>2. chosen \subseteq Weekdays /\ chosen # {}
  BY DEF flexibleWeekdays, Weekdays
<1>3. IsFiniteSet(chosen)
  <2>1. IsFiniteSet(Weekdays)
    BY SevenWeekdays
  <2> HIDE DEF chosen
  <2> QED
    BY <1>2, <2>1, FS_Subset
<1>4. n \in Nat \ {0}
  <2> HIDE DEF chosen
  <2>1. n \in Nat /\ n # 0
    BY <1>2, <1>3, FS_CardinalityType, FS_EmptySet
  <2> QED
    BY <2>1
<1>5. flexibleMinutesForWeekday(c, w) = IF w \notin chosen THEN 0 ELSE share + more
  BY DEF flexibleMinutesForWeekday
<1>6. more \in {0, 1}
  OBVIOUS
<1> HIDE DEF n, more
<1>7. share \in Nat
  BY <1>1, <1>4
<1> HIDE DEF share, chosen
<1> QED
  BY <1>5, <1>6, <1>7

\* What is planned on a day is a natural.
LEMMA PlannedIsNatural ==
  ASSUME PlanInv, NEW d \in Int
  PROVE  PlannedOn(d) \in Nat
<1>1. contract \in ContractRecord /\ plan.schedules \in Seq(ScheduleRecord)
  BY DEF PlanInv, PlanRecord
<1> DEFINE planned == plannedMinutes(plan, contract, d)
           on == OnWeekday(plan, d)
           absent == {l \in plan.leaves : l.start <= d /\ d <= l.end}
           free == d \in plan.holidays \/ (\E l \in absent : l.part = "full")
           half == d \notin plan.holidays /\ absent # {} /\ (\A l \in absent : l.part # "full")
           whole == d \notin plan.holidays /\ absent = {}
<1>2. on # {} => Min(on) \in on
  <2>1. on \in SUBSET Nat
    BY <1>1 DEF OnWeekday, Applicable
  <2> HIDE DEF on
  <2> SUFFICES ASSUME on # {} PROVE Min(on) \in on
    OBVIOUS
  <2>2. \E x \in on : \A y \in on : x <= y
    BY <2>1, LeastNatural
  <2> QED
    BY <2>2 DEF Min
<1>3. planned \in Nat
  <2>1. CASE contract.mode = "weekly_flexible"
    BY <1>1, <2>1, FlexibleMinutes DEF plannedMinutes
  <2>2. CASE contract.mode # "weekly_flexible" /\ on = {}
    BY <2>2 DEF plannedMinutes
  <2>3. CASE contract.mode # "weekly_flexible" /\ on # {}
    <3>1. planned = scheduleMinutes(plan.schedules[Min(on)])
      BY <2>3 DEF plannedMinutes
    <3>2. on \subseteq DOMAIN plan.schedules
      BY DEF OnWeekday, Applicable
    <3>3. Min(on) \in DOMAIN plan.schedules
      BY <1>2, <2>3, <3>2
    <3>4. plan.schedules[Min(on)] \in ScheduleRecord
      BY <1>1, <3>3
    <3> QED
      BY <3>1, <3>4, MinutesOfSchedule
  <2> QED
    BY <2>1, <2>2, <2>3
<1>4. PlannedOn(d) = CASE free -> 0 [] half -> (planned + 1) \div 2 [] whole -> planned
  BY DEF PlannedOn, adjustedMinutes
<1>5. (free \/ half \/ whole) /\ ~ (free /\ half) /\ ~ (free /\ whole) /\ ~ (half /\ whole)
  OBVIOUS
<1> HIDE DEF free, half, whole, planned
<1>6. (planned + 1) \div 2 \in Nat
  BY <1>3
<1> QED
  BY <1>3, <1>4, <1>5, <1>6

LEMMA PlanInvInit == StatementInit => PlanInv
  BY StatementAssumption DEF StatementInit, PlanInv, PlanRecord

LEMMA OtherActive ==
  ASSUME NEW s \in ScheduleRecord, NEW active \in BOOLEAN
  PROVE  [s EXCEPT !.active = active] \in ScheduleRecord
  BY DEF ScheduleRecord

LEMMA OtherSchedules ==
  ASSUME PlanInv, NEW t \in Seq(ScheduleRecord)
  PROVE  [plan EXCEPT !.schedules = t] \in PlanRecord
  BY DEF PlanInv, PlanRecord

LEMMA PublishKeepsPlan ==
  ASSUME PlanInv, NEW s \in NewSchedules, SchedulePublish(s)
  PROVE  PlanInv'
<1> DEFINE old == plan.schedules
           before == {i \in DOMAIN old : old[i].from > s.from}
           one == Only(old, before)
           two == Only(old, DOMAIN old \ before)
<1>1. plan' = [plan EXCEPT !.schedules = one \o <<s>> \o two] /\ contract' = contract
  BY DEF SchedulePublish
<1>2. old \in Seq(ScheduleRecord) /\ s \in ScheduleRecord
  BY StatementAssumption DEF PlanInv, PlanRecord
<1> HIDE DEF old, before
<1>3. one \in Seq(ScheduleRecord) /\ two \in Seq(ScheduleRecord)
  BY <1>2, OnlyKeepsOrder
<1> HIDE DEF one, two
<1>4. one \o <<s>> \o two \in Seq(ScheduleRecord)
  <2>1. <<s>> \in Seq(ScheduleRecord)
    BY <1>2
  <2> QED
    BY <1>3, <2>1
<1>5. plan' \in PlanRecord
  BY <1>1, <1>4, OtherSchedules
<1> QED
  BY <1>1, <1>5 DEF PlanInv

LEMMA UpdateKeepsPlan ==
  ASSUME PlanInv, NEW i, NEW active \in BOOLEAN, ScheduleUpdate(i, active)
  PROVE  PlanInv'
<1> DEFINE t == [plan.schedules EXCEPT ![i].active = active]
<1>1. plan' = [plan EXCEPT !.schedules = t] /\ contract' = contract
      /\ i \in DOMAIN plan.schedules
  BY DEF ScheduleUpdate
<1>2. plan.schedules \in Seq(ScheduleRecord)
  BY DEF PlanInv, PlanRecord
<1>3. [plan.schedules[i] EXCEPT !.active = active] \in ScheduleRecord
  <2>1. plan.schedules[i] \in ScheduleRecord
    BY <1>1, <1>2
  <2> QED
    BY <2>1, OtherActive
<1>4. t \in Seq(ScheduleRecord)
  BY <1>1, <1>2, <1>3
<1> HIDE DEF t
<1>5. plan' \in PlanRecord
  BY <1>1, <1>4, OtherSchedules
<1> QED
  BY <1>1, <1>5 DEF PlanInv

LEMMA PlanInvStep ==
  ASSUME PlanInv, [StatementNext(Supervisors, NewSchedules)]_statementVars
  PROVE  PlanInv'
<1>1. CASE UNCHANGED statementVars
  BY <1>1 DEF statementVars, PlanInv
<1>2. ASSUME NEW s \in Supervisors, NEW p \in Periods, CloseRead(s, p)
      PROVE  PlanInv'
  BY <1>2 DEF CloseRead, PlanInv
<1>3. ASSUME NEW s \in Supervisors, CloseNumber(s) \/ CloseSave(s)
      PROVE  PlanInv'
  BY <1>3 DEF CloseNumber, CloseSave, PlanInv
<1>4. ASSUME NEW i, AcknowledgeRead(i) \/ AcknowledgeSave(i)
      PROVE  PlanInv'
  BY <1>4 DEF AcknowledgeRead, AcknowledgeSave, PlanInv
<1>5. ASSUME NEW s \in NewSchedules, SchedulePublish(s)
      PROVE  PlanInv'
  BY <1>5, PublishKeepsPlan
<1>6. ASSUME NEW i, NEW active \in BOOLEAN, ScheduleUpdate(i, active)
      PROVE  PlanInv'
  BY <1>6, UpdateKeepsPlan
<1> QED
  BY <1>1, <1>2, <1>3, <1>4, <1>5, <1>6 DEF StatementNext

-----------------------------------------------------------------------------
(* The month and its sheet.                                                *)

\* Both readings of the log: what begins one of them, and what follows.
LEMMA BothReadings ==
  ASSUME LogInv, NEW p \in Periods, NoneCrosses(EndOf(p) + DayLen), NoneLeftOpen(p)
  PROVE  LET E == EndOf(p)
             x == effectiveEvents(log, E)
             y == effectiveEvents(log, E + DayLen - 1)
             s == spansSeen(x).spans
         IN /\ SpansBeyond(workSpans(x, E), s, E)
            /\ SpansBeyond(workSpans(y, E), s, E)
            /\ \A d \in DaysOf(p) :
                 d \notin sequenceAnomalyDates(x) => d \notin sequenceAnomalyDates(y)
<1> DEFINE E == EndOf(p)
           u == E + DayLen - 1
           x == effectiveEvents(log, E)
           y == effectiveEvents(log, u)
<1>1. IsLog(log) /\ now \in Int
  BY DEF LogInv, LogIs
<1>2. E \in Int /\ DayLen \in Nat \ {0}
  BY <1>1, MonthEnds
<1>3. u \in Int /\ E <= u /\ E + DayLen \in Int /\ E <= E + DayLen
  BY <1>2
<1>4. NoneMovesAcross(log, E + DayLen)
  BY DEF NoneCrosses, NoneMovesAcross
<1> HIDE DEF u, E
<1>5. BeginsWith(y, x, E + DayLen)
  BY <1>1, <1>2, <1>3, <1>4, ReadFurther
<1>6. x \in Seq(Read) /\ y \in Seq(Read)
  BY <1>1, EffectiveEvents DEF AreEffective, AreReads
<1>7. spansSeen(x).active \notin 0 .. E - 1
  BY DEF NoneLeftOpen, E
<1> HIDE DEF x, y
<1>8. /\ spansSeen(x) \in Spanning /\ spansSeen(y) \in Spanning
      /\ SpansBeyond(spansSeen(y).spans, spansSeen(x).spans, E)
      /\ spansSeen(y).active \notin 0 .. E - 1
  BY <1>2, <1>3, <1>5, <1>6, <1>7, SpansReadFurther
<1>9. SpansBeyond(spansSeen(x).spans, spansSeen(x).spans, E)
  <2>1. spansSeen(x).spans \in Seq(Span) /\ Len(spansSeen(x).spans) \in Nat
    BY <1>8 DEF Spanning
  <2> QED
    BY <2>1 DEF SpansBeyond
<1>10. SpansBeyond(workSpans(x, E), spansSeen(x).spans, E)
  BY <1>2, <1>7, <1>8, <1>9, WorkSpansBeyond
<1>11. SpansBeyond(workSpans(y, E), spansSeen(x).spans, E)
  BY <1>2, <1>8, WorkSpansBeyond
<1>12. ASSUME NEW d \in DaysOf(p), d \notin sequenceAnomalyDates(x)
       PROVE  d \notin sequenceAnomalyDates(y)
  <2>1. d \in Int /\ \A t \in Int : t > E => DayOf(t) > d
    BY <1>1, DayEnds DEF E
  <2>2. \A t \in Int : t > E + DayLen => DayOf(t) > d
    BY <1>2, <1>3, <2>1
  <2> QED
    BY <1>3, <1>5, <1>6, <1>12, <2>1, <2>2, AnomaliesReadFurther
<1> QED
  BY <1>10, <1>11, <1>12 DEF x, y, u, E

\* A day of a sheet.
LEMMA SheetRow ==
  ASSUME NEW from, NEW to, NEW d \in from .. to
  PROVE  LET read   == sheetRead((to + 1) * DayLen)
             worked == workedBetween(read.spans, d * DayLen, (d + 1) * DayLen)
             row    == timesheet(from, to)[d]
         IN /\ row.worked = worked /\ row.planned = PlannedOn(d)
            /\ row.overtime = IF contract.mode = "weekly_flexible"
                              THEN worked - withinQuota(read.spans, d, worked)
                              ELSE AtLeastZero(worked - PlannedOn(d))
            /\ row.anomaly <=> d \in read.anomalies
  BY DEF timesheet

\* What a sheet of a month that is over is made of.
LEMMA SheetOfMonth ==
  ASSUME NEW p \in Periods, now \in Int, MonthIsOver(p)
  PROVE  LET to   == (p + 1) * MonthLen - 1
             read == sheetRead((to + 1) * DayLen)
             y    == effectiveEvents(log, EndOf(p) + DayLen - 1)
         IN /\ read.spans = workSpans(y, EndOf(p))
            /\ read.anomalies = sequenceAnomalyDates(y)
<1>1. /\ EndOf(p) \in Int /\ EndOf(p) <= now
      /\ (((p + 1) * MonthLen - 1) + 1) * DayLen = EndOf(p)
  BY MonthEnds
<1>2. Earlier(now, EndOf(p)) = EndOf(p)
  BY <1>1 DEF Earlier
<1>3. /\ sheetRead(EndOf(p)).spans =
           workSpans(effectiveEvents(log, EndOf(p) + DayLen - 1), Earlier(now, EndOf(p)))
      /\ sheetRead(EndOf(p)).anomalies =
           sequenceAnomalyDates(effectiveEvents(log, EndOf(p) + DayLen - 1))
  BY DEF sheetRead
<1> QED
  BY <1>1, <1>2, <1>3

\* A day counts the same from both readings: what was worked, what is ordinary
\* of it and what is beyond.
LEMMA DayCountsAlike ==
  ASSUME PlanInv, NEW limit \in Int, NEW s, NEW t, NEW u,
         SpansBeyond(t, s, limit), SpansBeyond(u, s, limit),
         NEW d \in Int, d * DayLen <= limit, (d + 1) * DayLen <= limit
  PROVE  LET worked == workedBetween(t, d * DayLen, (d + 1) * DayLen)
         IN /\ workedBetween(u, d * DayLen, (d + 1) * DayLen) = worked /\ worked \in Nat
            /\ ordinaryMinutes(t, d, worked) \in 0 .. worked
            /\ worked - ordinaryMinutes(t, d, worked) =
                 IF contract.mode = "weekly_flexible"
                 THEN worked - withinQuota(u, d, worked)
                 ELSE AtLeastZero(worked - PlannedOn(d))
<1> DEFINE w == workedBetween(t, d * DayLen, (d + 1) * DayLen)
           monday == mondayKey(d) * DayLen
           before == workedBetween(t, monday, d * DayLen)
           left == AtLeastZero(contract.weekly - before)
<1>1. DayLen \in Nat \ {0}
  BY TimesheetAssumption
<1>2. d * DayLen \in Int /\ (d + 1) * DayLen \in Int
  BY <1>1
<1>3. monday \in Int
  <2>1. FirstWeekday \in Int
    BY StatementAssumption DEF Weekdays
  <2>2. mondayKey(d) \in Int
    BY <2>1 DEF mondayKey, fromMonday, weekday
  <2> QED
    BY <1>1, <2>2
<1>4. workedBetween(u, d * DayLen, (d + 1) * DayLen) = w /\ w \in Nat
  <2>1. /\ w = workedBetween(s, d * DayLen, (d + 1) * DayLen)
        /\ workedBetween(s, d * DayLen, (d + 1) * DayLen) \in Nat
    BY <1>2, WorkedBeforeLimit
  <2>2. workedBetween(u, d * DayLen, (d + 1) * DayLen)
          = workedBetween(s, d * DayLen, (d + 1) * DayLen)
    BY <1>2, WorkedBeforeLimit
  <2> QED
    BY <2>1, <2>2
<1> HIDE DEF w, monday
<1>5. workedBetween(u, monday, d * DayLen) = before /\ before \in Nat
  <2>1. /\ before = workedBetween(s, monday, d * DayLen)
        /\ workedBetween(s, monday, d * DayLen) \in Nat
    BY <1>2, <1>3, WorkedBeforeLimit
  <2>2. workedBetween(u, monday, d * DayLen) = workedBetween(s, monday, d * DayLen)
    BY <1>2, <1>3, WorkedBeforeLimit
  <2> QED
    BY <2>1, <2>2
<1>6. withinQuota(t, d, w) = Earlier(w, left)
  BY DEF withinQuota, monday
<1>7. withinQuota(u, d, w) = Earlier(w, left)
  BY <1>5 DEF withinQuota, monday
<1> HIDE DEF before
<1>8. contract.weekly \in Nat
  BY DEF PlanInv, ContractRecord
<1>9. left \in Nat
  BY <1>5, <1>8 DEF AtLeastZero
<1>10. PlannedOn(d) \in Nat
  BY PlannedIsNatural
<1> HIDE DEF left
<1>11. \A n \in Nat : Earlier(w, n) \in 0 .. w /\ w - Earlier(w, n) = AtLeastZero(w - n)
  BY <1>4 DEF Earlier, AtLeastZero
<1>12. CASE contract.mode = "weekly_flexible"
  <2>1. ordinaryMinutes(t, d, w) = Earlier(w, left)
    BY <1>6, <1>12 DEF ordinaryMinutes
  <2> QED
    BY <1>4, <1>7, <1>9, <1>11, <1>12, <2>1 DEF w
<1>13. CASE contract.mode # "weekly_flexible"
  <2>1. ordinaryMinutes(t, d, w) = Earlier(w, PlannedOn(d))
    BY <1>13 DEF ordinaryMinutes
  <2> QED
    BY <1>4, <1>10, <1>11, <1>13, <2>1 DEF w
<1> QED
  BY <1>12, <1>13

LEMMA DaysAreFinite ==
  ASSUME NEW p \in Periods
  PROVE  IsFiniteSet(DaysOf(p))
<1>1. p * MonthLen \in Int /\ (p + 1) * MonthLen - 1 \in Int
  BY StatementAssumption DEF Periods
<1>2. IsFiniteSet(p * MonthLen .. (p + 1) * MonthLen - 1)
  BY <1>1, FS_Interval
<1> QED
  BY <1>2 DEF DaysOf

\* A month that is over and can be closed.
LEMMA MonthMatchesSheet ==
  ASSUME LogInv, PlanInv, NEW p \in Periods,
         MonthIsOver(p), NoneCrosses(EndOf(p) + DayLen), NoneLeftOpen(p),
         monthlyStatementData(p).closable
  PROVE  Shows(timesheet(p * MonthLen, (p + 1) * MonthLen - 1), DaysOf(p),
               monthlyStatementData(p))
<1> DEFINE E == EndOf(p)
           D == DaysOf(p)
           x == effectiveEvents(log, E)
           y == effectiveEvents(log, E + DayLen - 1)
           s == spansSeen(x).spans
           t == workSpans(x, E)
           u == workSpans(y, E)
           to == (p + 1) * MonthLen - 1
           read == sheetRead((to + 1) * DayLen)
           sheet == timesheet(p * MonthLen, to)
           data == monthlyStatementData(p)
           w(d) == workedBetween(t, d * DayLen, (d + 1) * DayLen)
           worked == [d \in D |-> w(d)]
           ordinary == [d \in D |-> ordinaryMinutes(t, d, worked[d])]
           beyond == [d \in D |-> worked[d] - ordinary[d]]
           planned == [d \in D |-> PlannedOn(d)]
           excess == SumFunction(beyond)
           partTime == contract.type = "part_time"
<1>1. now \in Int
  BY DEF LogInv
<1>2. /\ SpansBeyond(t, s, E) /\ SpansBeyond(u, s, E)
      /\ \A d \in D : d \notin sequenceAnomalyDates(x) => d \notin sequenceAnomalyDates(y)
  BY BothReadings
<1>3. E \in Int
  BY <1>1, MonthEnds
<1>4. \A d \in D : d \in Int /\ d * DayLen <= E /\ (d + 1) * DayLen <= E
  BY <1>1, DayEnds
<1>5. read.spans = u /\ read.anomalies = sequenceAnomalyDates(y)
  BY <1>1, SheetOfMonth
<1>6. /\ data.closable = mayBeClosed(p, x, excess)
      /\ data.total = SumFunction(worked)
      /\ data.contracted = SumFunction(planned)
      /\ data.ordinary = SumFunction(ordinary)
      /\ data.complementary = IF partTime THEN excess ELSE 0
      /\ data.overtime = IF partTime THEN 0 ELSE excess
  BY DEF monthlyStatementData
<1>7. D \intersect sequenceAnomalyDates(x) = {}
  BY <1>6 DEF mayBeClosed
<1>8. D = p * MonthLen .. to
  BY DEF DaysOf
<1>9. ASSUME NEW d \in D
      PROVE  /\ sheet[d].worked = workedBetween(u, d * DayLen, (d + 1) * DayLen)
             /\ sheet[d].planned = PlannedOn(d)
             /\ sheet[d].overtime =
                  IF contract.mode = "weekly_flexible"
                  THEN sheet[d].worked - withinQuota(u, d, sheet[d].worked)
                  ELSE AtLeastZero(sheet[d].worked - PlannedOn(d))
             /\ sheet[d].anomaly <=> d \in read.anomalies
  <2>1. d \in p * MonthLen .. to
    BY <1>8
  <2> HIDE DEF to
  <2> QED
    BY <1>5, <2>1, SheetRow
<1> HIDE DEF D, E, sheet, read, to, data, x, y, s, t, u
<1>10. ASSUME NEW d \in D
       PROVE  /\ w(d) \in Nat /\ sheet[d].worked = w(d)
              /\ ordinaryMinutes(t, d, w(d)) \in 0 .. w(d)
              /\ sheet[d].overtime = w(d) - ordinaryMinutes(t, d, w(d))
  <2>1. d \in Int /\ d * DayLen <= E /\ (d + 1) * DayLen <= E
    BY <1>4
  <2>2. /\ workedBetween(u, d * DayLen, (d + 1) * DayLen) = w(d) /\ w(d) \in Nat
        /\ ordinaryMinutes(t, d, w(d)) \in 0 .. w(d)
        /\ w(d) - ordinaryMinutes(t, d, w(d)) =
             IF contract.mode = "weekly_flexible"
             THEN w(d) - withinQuota(u, d, w(d))
             ELSE AtLeastZero(w(d) - PlannedOn(d))
    BY <1>2, <1>3, <2>1, DayCountsAlike
  <2> HIDE DEF w
  <2>3. sheet[d].worked = w(d)
    BY <1>9, <2>2
  <2> QED
    BY <1>9, <2>2, <2>3
<1> HIDE DEF w
<1>11. ASSUME NEW d \in D
       PROVE  /\ worked[d] \in Nat /\ ordinary[d] \in Nat /\ beyond[d] \in Nat
              /\ worked[d] = ordinary[d] + beyond[d]
              /\ sheet[d].worked = worked[d] /\ sheet[d].planned = planned[d]
              /\ sheet[d].overtime = beyond[d]
  <2>1. worked[d] = w(d) /\ ordinary[d] = ordinaryMinutes(t, d, w(d))
        /\ beyond[d] = w(d) - ordinaryMinutes(t, d, w(d)) /\ planned[d] = PlannedOn(d)
    OBVIOUS
  <2> HIDE DEF worked, ordinary, beyond, planned
  <2> QED
    BY <1>9, <1>10, <2>1
<1>12. /\ worked = [d \in D |-> worked[d]] /\ ordinary = [d \in D |-> ordinary[d]]
       /\ beyond = [d \in D |-> beyond[d]] /\ planned = [d \in D |-> planned[d]]
  OBVIOUS
<1> HIDE DEF worked, ordinary, beyond, planned, excess
<1>13. IsFiniteSet(D)
  BY DaysAreFinite DEF D
<1>14. worked \in [D -> Nat] /\ ordinary \in [D -> Nat] /\ beyond \in [D -> Nat]
  BY <1>11, <1>12
<1>15. SumFunction(worked) = SumFunction(ordinary) + SumFunction(beyond)
  BY <1>11, <1>13, <1>14, SumsAdd
<1>16. SumFunction(ordinary) \in Nat /\ SumFunction(beyond) \in Nat
  BY <1>13, <1>14, SumIsNatural
<1>17. /\ [d \in D |-> sheet[d]["worked"]] = worked
       /\ [d \in D |-> sheet[d]["planned"]] = planned
       /\ [d \in D |-> sheet[d]["overtime"]] = beyond
  BY <1>11, <1>12
<1>18. excess = SumFunction(beyond)
  BY DEF excess
<1>19. /\ data.complementary + data.overtime = SumFunction(beyond)
       /\ data.ordinary + data.complementary + data.overtime = data.total
  BY <1>6, <1>15, <1>16, <1>18
<1>20. \A d \in D : ~sheet[d].anomaly
  BY <1>2, <1>5, <1>7, <1>9
<1>21. Shows(sheet, D, data)
  BY <1>6, <1>17, <1>19, <1>20 DEF Shows
<1> QED
  BY <1>21 DEF sheet, D, data, to

\* A month that is over and can be closed holds what its sheet shows, whatever
\* was clocked, declared and corrected, unless a correction crosses the limit
\* between their two readings or a shift is left open at the month's end
\* (closing a month and GET timesheet).
THEOREM ClosedMonthsMatch == TimesheetSpec /\ StatementSpec => []ClosedMonthMatchesSheet
<1>1. PlanInv /\ [StatementNext(Supervisors, NewSchedules)]_statementVars => PlanInv'
  BY PlanInvStep
<1>2. StatementSpec => []PlanInv
  BY <1>1, PlanInvInit, PTL DEF StatementSpec
<1>3. LogInv /\ PlanInv => ClosedMonthMatchesSheet
  BY MonthMatchesSheet DEF ClosedMonthMatchesSheet
<1> QED
  BY <1>2, <1>3, LogIsInvariant, PTL

-----------------------------------------------------------------------------
(* The editor.                                                             *)

Typing == [kind : {"work", "break"}, start : 0 .. DayLen - 1, end : 0 .. DayLen - 1,
           startNextDay : BOOLEAN, paid : BOOLEAN]
Ordered == [kind : {"work", "break"}, start : 0 .. DayLen - 1, end : 0 .. DayLen - 1,
            startNextDay : BOOLEAN, at : Int]

\* The sum of the editor.
WorkedSteps(h, seq) ==
  /\ h \in [0 .. Len(seq) -> Int]
  /\ h[0] = 0
  /\ \A k \in 1 .. Len(seq) :
       h[k] = h[k - 1]
                + (IF seq[k].kind = "work" THEN absoluteEnd(seq[k]) - absoluteStart(seq[k]) ELSE 0)

LEMMA AbsoluteTimes ==
  ASSUME NEW x, x.start \in 0 .. DayLen - 1, x.end \in 0 .. DayLen - 1,
         x.startNextDay \in BOOLEAN
  PROVE  /\ absoluteStart(x) \in Nat /\ absoluteEnd(x) \in Nat
         /\ absoluteStart(x) = x.start + (IF x.startNextDay THEN DayLen ELSE 0)
         /\ absoluteEnd(x) = x.end + (IF x.startNextDay THEN DayLen ELSE 0)
                               + (IF x.end < x.start THEN DayLen ELSE 0)
<1>1. DayLen \in Nat
  BY TimesheetAssumption
<1> QED
  BY <1>1 DEF absoluteStart, absoluteEnd, offset

LEMMA WorkedTimeInSteps ==
  ASSUME NEW seq \in Seq(Ordered)
  PROVE  \E h : WorkedSteps(h, seq) /\ workedTime(seq) = h[Len(seq)]
<1> DEFINE base == 0
           n == Len(seq)
           T == Int
           op(s, e) == s + (IF e.kind = "work" THEN absoluteEnd(e) - absoluteStart(e) ELSE 0)
           step == [p \in (1 .. n) \X T |-> op(p[2], seq[p[1]])]
           Fold(g) == g = [s \in SUBSET DOMAIN seq |->
                             IF s = {} THEN base
                             ELSE op(g[s \ {Max(s)}], seq[Max(s)])]
           iter == CHOOSE g : Fold(g)
           value == iter[1 .. n]
<1>1. n \in Nat /\ DOMAIN seq = 1 .. n
  OBVIOUS
<1>2. workedTime(seq) = value
  <2>1. workedTime(seq) = iter[DOMAIN seq]
    BY DEF workedTime, FoldLeft, MapThenFoldSet
  <2> QED
    BY <1>1, <2>1
<1>3. base \in T
  OBVIOUS
<1>4. ASSUME NEW s \in T, NEW k \in 1 .. n
      PROVE  op(s, seq[k]) \in T
  <2>1. seq[k] \in Ordered
    BY <1>1
  <2>2. /\ seq[k].start \in 0 .. DayLen - 1 /\ seq[k].end \in 0 .. DayLen - 1
        /\ seq[k].startNextDay \in BOOLEAN
    BY <2>1 DEF Ordered
  <2>3. absoluteEnd(seq[k]) \in Nat /\ absoluteStart(seq[k]) \in Nat
    BY <2>2, AbsoluteTimes
  <2> QED
    BY <2>3
<1> HIDE DEF base, T
<1>5. step \in [(1 .. n) \X T -> T]
  <2> HIDE DEF op
  <2> QED
    BY <1>4
<1>6. \A k \in 1 .. n, s \in T : step[<<k, s>>] = op(s, seq[k])
  OBVIOUS
<1> HIDE DEF step, n, op
<1>7. PICK g : FoldTable(g, n, T, base, step)
  BY <1>1, <1>3, <1>5, FoldIsDefined
<1>8. Fold(g)
  <2>1. ASSUME NEW s \in SUBSET (1 .. n)
        PROVE  g[s] = IF s = {} THEN base ELSE op(g[s \ {Max(s)}], seq[Max(s)])
    <3>1. s # {} => Max(s) \in 1 .. n /\ s \ {Max(s)} \in SUBSET (1 .. n)
      BY <1>1, MaxOfIndexes
    <3> QED
      BY <1>6, <1>7, <3>1 DEF FoldTable
  <2> QED
    BY <1>1, <1>7, <2>1 DEF FoldTable
<1>9. Fold(iter)
  <2> HIDE DEF Fold
  <2> QED
    BY <1>8
<1> HIDE DEF iter
<1>10. iter[{}] = base
  BY <1>9
<1>11. FoldRun(iter, n, T, base, step)
  BY <1>1, <1>6, <1>9, <1>10, MaxOfIndexes DEF FoldRun
<1> HIDE DEF value
<1>12. value = iter[1 .. n]
  BY DEF value
<1>13. PICK h : FoldSteps(h, n, T, base, step, value)
  BY <1>1, <1>3, <1>5, <1>11, <1>12, FoldAdvances
<1>14. h \in [0 .. n -> T] /\ h[0] = base /\ h[n] = value
  BY <1>13 DEF FoldSteps
<1>15. ASSUME NEW k \in 1 .. n
       PROVE  h[k] = op(h[k - 1], seq[k])
  <2>1. h[k - 1] \in T
    BY <1>1, <1>14
  <2> QED
    BY <1>6, <1>13, <2>1 DEF FoldSteps
<1>16. WorkedSteps(h, seq)
  BY <1>14, <1>15 DEF WorkedSteps, T, base, op, n
<1> QED
  BY <1>2, <1>14, <1>16 DEF n

\* What the editor and the server make of a draft, interval by interval.
LEMMA DraftIsPlaced ==
  ASSUME NEW draft \in Seq(Typing)
  PROVE  LET seq == inOrder(draft)
             iv  == Placed(draft, 0)
         IN /\ seq \in Seq(Ordered) /\ Len(seq) = Len(draft)
            /\ iv \in Seq(Worked) /\ Len(iv) = Len(draft)
            /\ \A i \in 1 .. Len(draft) :
                 /\ iv[i].kind = seq[i].kind
                 /\ iv[i].start = absoluteStart(seq[i]) /\ iv[i].end = absoluteEnd(seq[i])
<1> DEFINE n == Len(draft)
           P == [kind : {"work", "break"}, paid : BOOLEAN, at : Int, start : Int, end : Int]
           from(i)  == draft[i].start + (IF draft[i].startNextDay THEN DayLen ELSE 0)
           until(i) == from(i) + draft[i].end - draft[i].start
                         + (IF draft[i].end < draft[i].start THEN DayLen ELSE 0)
           x(i) == [kind |-> draft[i].kind, paid |-> draft[i].paid, at |-> from(i),
                    start |-> 0 * DayLen + from(i), end |-> 0 * DayLen + until(i)]
           y(i) == [kind |-> draft[i].kind, start |-> draft[i].start, end |-> draft[i].end,
                    startNextDay |-> draft[i].startNextDay, at |-> absoluteStart(draft[i])]
           placed == [i \in DOMAIN draft |-> x(i)]
           timed == [i \in DOMAIN draft |-> y(i)]
           sorted == StableByTime(placed)
           seq == inOrder(draft)
           iv == Placed(draft, 0)
           z(i) == [kind |-> sorted[i].kind, start |-> sorted[i].start,
                    end |-> sorted[i].end, paid |-> sorted[i].paid]
<1>1. n \in Nat /\ DOMAIN draft = 1 .. n /\ DayLen \in Nat /\ 0 * DayLen = 0
  BY TimesheetAssumption
<1>2. ASSUME NEW i \in 1 .. n
      PROVE  /\ draft[i].kind \in {"work", "break"} /\ draft[i].paid \in BOOLEAN
             /\ draft[i].start \in 0 .. DayLen - 1 /\ draft[i].end \in 0 .. DayLen - 1
             /\ draft[i].startNextDay \in BOOLEAN
             /\ draft[i].start \in Nat /\ draft[i].end \in Nat
             /\ draft[i] \in Typed
  <2>1. draft[i] \in Typing
    BY <1>1
  <2>2. /\ draft[i].kind \in {"work", "break"} /\ draft[i].paid \in BOOLEAN
        /\ draft[i].start \in 0 .. DayLen - 1 /\ draft[i].end \in 0 .. DayLen - 1
        /\ draft[i].startNextDay \in BOOLEAN
    BY <2>1 DEF Typing
  <2>3. draft[i].start \in Nat /\ draft[i].end \in Nat
    BY <1>1, <2>2
  <2>4. draft[i] \in Typed
    BY <2>1, <2>2, <2>3 DEF Typing, Typed
  <2> QED
    BY <2>2, <2>3, <2>4
<1>3. ASSUME NEW i \in 1 .. n
      PROVE  /\ absoluteStart(draft[i]) \in Nat /\ absoluteEnd(draft[i]) \in Nat
             /\ from(i) = absoluteStart(draft[i]) /\ until(i) = absoluteEnd(draft[i])
  <2>1. /\ absoluteStart(draft[i]) \in Nat /\ absoluteEnd(draft[i]) \in Nat
        /\ absoluteStart(draft[i]) = draft[i].start + (IF draft[i].startNextDay THEN DayLen ELSE 0)
        /\ absoluteEnd(draft[i]) = draft[i].end + (IF draft[i].startNextDay THEN DayLen ELSE 0)
                               + (IF draft[i].end < draft[i].start THEN DayLen ELSE 0)
    BY <1>2, AbsoluteTimes
  <2> QED
    BY <1>1, <1>2, <2>1
<1> HIDE DEF from, until
<1>4. ASSUME NEW i \in 1 .. n
      PROVE  /\ x(i) \in P /\ x(i).at = absoluteStart(draft[i]) /\ x(i).kind = draft[i].kind
             /\ x(i).start = absoluteStart(draft[i]) /\ x(i).end = absoluteEnd(draft[i])
  <2>1. /\ 0 * DayLen + from(i) = absoluteStart(draft[i])
        /\ 0 * DayLen + until(i) = absoluteEnd(draft[i])
    BY <1>1, <1>3
  <2> QED
    BY <1>2, <1>3, <2>1
<1>5. ASSUME NEW i \in 1 .. n
      PROVE  /\ y(i) \in Ordered /\ y(i).at = absoluteStart(draft[i]) /\ y(i).kind = draft[i].kind
             /\ absoluteStart(y(i)) = absoluteStart(draft[i])
             /\ absoluteEnd(y(i)) = absoluteEnd(draft[i])
  <2>1. y(i) \in Ordered
    BY <1>2, <1>3 DEF Ordered
  <2> QED
    BY <2>1 DEF absoluteStart, absoluteEnd
<1>6. /\ seq = StableByTime(timed)
      /\ iv = [i \in 1 .. n |-> z(i)]
  BY <1>1 DEF inOrder, Placed, from, until
<1> HIDE DEF x, y, P, seq, iv
<1>7. /\ placed \in Seq(P) /\ Len(placed) = n /\ timed \in Seq(Ordered) /\ Len(timed) = n
      /\ \A i \in 1 .. n : placed[i] = x(i) /\ timed[i] = y(i)
  BY <1>1, <1>4, <1>5
<1> HIDE DEF placed, timed
<1>8. Timed(P) /\ Timed(Ordered)
  BY DEF Timed, P, Ordered
<1>9. PICK p : Arranges(p, sorted, n, placed)
  BY <1>7, <1>8, StableByTimeArranges
<1>10. seq \in Seq(Ordered) /\ \E q : Arranges(q, seq, n, timed)
  BY <1>6, <1>7, <1>8, StableByTimeArranges
<1>11. PICK q : Arranges(q, seq, n, timed)
  BY <1>10
<1> HIDE DEF sorted
<1>12. \A i \in 1 .. n : placed[i].at \in Int /\ timed[i].at = placed[i].at
  <2>1. \A i \in 1 .. n : absoluteStart(draft[i]) \in Int
    BY <1>3
  <2> QED
    BY <1>4, <1>5, <1>7, <2>1
<1>13. \A k \in 1 .. n : p[k] \in 1 .. n /\ sorted[k] = placed[p[k]] /\ seq[k] = timed[p[k]]
  BY <1>1, <1>9, <1>11, <1>12, SameArrangement
<1>14. ASSUME NEW k \in 1 .. n
       PROVE  /\ iv[k].kind = seq[k].kind
              /\ iv[k].start = absoluteStart(seq[k]) /\ iv[k].end = absoluteEnd(seq[k])
  <2>1. p[k] \in 1 .. n /\ sorted[k] = x(p[k]) /\ seq[k] = y(p[k])
    BY <1>7, <1>13
  <2>2. iv[k].kind = sorted[k].kind /\ iv[k].start = sorted[k].start /\ iv[k].end = sorted[k].end
    BY <1>6
  <2> QED
    BY <1>4, <1>5, <2>1, <2>2
<1>15. Len(seq) = n
  <2>1. DOMAIN seq = 1 .. n
    BY <1>11 DEF Arranges
  <2> QED
    BY <1>1, <1>10, <2>1
<1>16. iv \in Seq(Worked)
  <2>1. draft \in Seq(Typed)
    BY <1>1, <1>2
  <2> QED
    BY <2>1, PlacedIsWorked DEF iv
<1>17. Len(iv) = n
  BY <1>1, <1>6
<1> QED
  BY <1>10, <1>14, <1>15, <1>16, <1>17 DEF seq, iv

\* iv is seq as the server has it.
ReadAlike(seq, iv, n) ==
  /\ n \in Nat /\ seq \in Seq(Ordered) /\ Len(seq) = n /\ iv \in Seq(Worked) /\ Len(iv) = n
  /\ \A i \in 1 .. n :
       /\ iv[i].kind = seq[i].kind
       /\ iv[i].start = absoluteStart(seq[i]) /\ iv[i].end = absoluteEnd(seq[i])

\* They hold the same time of work.
LEMMA WorkIsSummedAlike ==
  ASSUME NEW seq, NEW iv, NEW n, ReadAlike(seq, iv, n)
  PROVE  TimeIn(Only(iv, {i \in 1 .. n : iv[i].kind = "work"})) = workedTime(seq)
<1> DEFINE S == {i \in 1 .. n : iv[i].kind = "work"}
<1>1. /\ n \in Nat /\ seq \in Seq(Ordered) /\ Len(seq) = n /\ iv \in Seq(Worked) /\ Len(iv) = n
      /\ \A i \in 1 .. n :
           /\ iv[i].kind = seq[i].kind
           /\ iv[i].start = absoluteStart(seq[i]) /\ iv[i].end = absoluteEnd(seq[i])
  BY DEF ReadAlike
<1>2. PICK h : KeptSteps(h, iv, S, Worked) /\ Only(iv, S) = h[n]
  <2> HIDE DEF S
  <2>1. \E h : KeptSteps(h, iv, S, Worked) /\ Only(iv, S) = h[Len(iv)]
    BY <1>1, OnlyInSteps
  <2> QED
    BY <1>1, <2>1
<1>3. PICK g : WorkedSteps(g, seq) /\ workedTime(seq) = g[n]
  BY <1>1, WorkedTimeInSteps
<1>4. /\ \A k \in 0 .. n : h[k] \in Seq(Worked)
      /\ h[0] = <<>>
      /\ \A k \in 1 .. n : h[k] = IF k \in S THEN Append(h[k - 1], iv[k]) ELSE h[k - 1]
  BY <1>1, <1>2 DEF KeptSteps
<1>5. /\ \A k \in 0 .. n : g[k] \in Int
      /\ g[0] = 0
      /\ \A k \in 1 .. n :
           g[k] = g[k - 1]
                    + (IF seq[k].kind = "work"
                       THEN absoluteEnd(seq[k]) - absoluteStart(seq[k]) ELSE 0)
  BY <1>1, <1>3 DEF WorkedSteps
<1>6. \A k \in 1 .. n : iv[k] \in Worked /\ (k \in S <=> seq[k].kind = "work")
  BY <1>1
<1> HIDE DEF S
<1>7. Lasting(Worked)
  BY DEF Lasting, Worked
<1> DEFINE Same == {k \in 0 .. n : TimeIn(h[k]) = g[k]}
<1>8. n \in Same
  <2>1. 0 \in Same
    BY <1>1, <1>4, <1>5, TimeInNothing
  <2>2. ASSUME NEW m \in 0 .. n - 1, m \in Same
        PROVE  m + 1 \in Same
    <3>1. m \in 0 .. n /\ m + 1 \in 1 .. n /\ m + 1 \in 0 .. n /\ (m + 1) - 1 = m
      BY <1>1
    <3>2. TimeIn(h[m]) = g[m] /\ g[m] \in Int /\ h[m] \in Seq(Worked) /\ iv[m + 1] \in Worked
      BY <1>4, <1>5, <1>6, <2>2, <3>1
    <3>3. TimeIn(Append(h[m], iv[m + 1])) = g[m] + iv[m + 1].end - iv[m + 1].start
      BY <1>7, <3>2, TimeInOneMore
    <3>4. h[m + 1] = IF m + 1 \in S THEN Append(h[m], iv[m + 1]) ELSE h[m]
      BY <1>4, <3>1
    <3>5. g[m + 1] = g[m] + (IF seq[m + 1].kind = "work"
                             THEN absoluteEnd(seq[m + 1]) - absoluteStart(seq[m + 1]) ELSE 0)
      BY <1>5, <3>1
    <3>6. /\ m + 1 \in S <=> seq[m + 1].kind = "work"
          /\ iv[m + 1].start = absoluteStart(seq[m + 1]) /\ iv[m + 1].end = absoluteEnd(seq[m + 1])
      BY <1>1, <1>6, <3>1
    <3>7. iv[m + 1].start \in Int /\ iv[m + 1].end \in Int
      BY <3>2 DEF Worked
    <3>8. CASE m + 1 \in S
      <4>1. TimeIn(h[m + 1]) = g[m] + iv[m + 1].end - iv[m + 1].start
        BY <3>3, <3>4, <3>8
      <4>2. g[m + 1] = g[m] + (iv[m + 1].end - iv[m + 1].start)
        BY <3>5, <3>6, <3>8
      <4> QED
        BY <3>1, <3>2, <3>7, <4>1, <4>2
    <3>9. CASE m + 1 \notin S
      BY <3>1, <3>2, <3>4, <3>5, <3>6, <3>9
    <3> QED
      BY <3>8, <3>9
  <2> HIDE DEF Same
  <2> QED
    BY <1>1, <2>1, <2>2, UpTo
<1> QED
  BY <1>1, <1>2, <1>3, <1>8 DEF S

\* The rules of the editor are the server's, for a day that is over.
LEMMA RulesAgree ==
  ASSUME NEW draft \in Seq(Typing), now \in Nat, now >= 2 * DayLen - 1
  PROVE  manualTimeDraftAccepted(draft) <=> normalizeIntervals(Placed(draft, 0), 0)
<1> DEFINE seq == inOrder(draft)
           iv == Placed(draft, 0)
           n == Len(draft)
<1>1. /\ n \in Nat /\ seq \in Seq(Ordered) /\ Len(seq) = n /\ iv \in Seq(Worked) /\ Len(iv) = n
      /\ \A i \in 1 .. n :
           /\ iv[i].kind = seq[i].kind
           /\ iv[i].start = absoluteStart(seq[i]) /\ iv[i].end = absoluteEnd(seq[i])
  BY DraftIsPlaced
<1> DEFINE joined(i) == /\ i \in 2 .. n - 1
                        /\ seq[i - 1].kind = "work" /\ seq[i + 1].kind = "work"
                        /\ absoluteEnd(seq[i - 1]) = absoluteStart(seq[i])
                        /\ absoluteEnd(seq[i]) = absoluteStart(seq[i + 1])
           breakJoined(i) == /\ i \in 2 .. n - 1
                             /\ iv[i - 1].kind = "work" /\ iv[i + 1].kind = "work"
                             /\ iv[i - 1].end = iv[i].start /\ iv[i].end = iv[i + 1].start
           work == Only(iv, {i \in 1 .. n : iv[i].kind = "work"})
<1>2. manualTimeDraftAccepted(draft) <=>
        /\ n > 0
        /\ \A i \in 1 .. n :
             /\ seq[i].start # seq[i].end
             /\ ~(seq[i].startNextDay /\ seq[i].end < seq[i].start)
             /\ absoluteEnd(seq[i]) - absoluteStart(seq[i]) <= MaxInterval
             /\ i > 1 => absoluteEnd(seq[i - 1]) <= absoluteStart(seq[i])
             /\ seq[i].kind = "break" => joined(i)
        /\ seq[1].kind = "work" /\ seq[n].kind = "work"
        /\ workedTime(seq) <= DayLen
  BY <1>1 DEF manualTimeDraftAccepted
<1>3. normalizeIntervals(iv, 0) <=>
        /\ 0 <= Today /\ n > 0
        /\ \A i \in 1 .. n : iv[i].start < iv[i].end
        /\ \A i \in 1 .. n : iv[i].end < (0 + 2) * DayLen
        /\ \A i \in 1 .. n : iv[i].end - iv[i].start <= MaxInterval
        /\ iv[1].kind = "work" /\ iv[n].kind = "work"
        /\ \A i \in 2 .. n : iv[i - 1].end <= iv[i].start
        /\ \A i \in 1 .. n : iv[i].kind = "break" => breakJoined(i)
        /\ TimeIn(work) <= DayLen
        /\ iv[n].end <= now
  BY <1>1 DEF normalizeIntervals
<1>4. TimeIn(work) = workedTime(seq)
  <2>1. ReadAlike(seq, iv, n)
    <3> HIDE DEF seq, iv, n
    <3> QED
      BY <1>1 DEF ReadAlike
  <2> QED
    BY <2>1, WorkIsSummedAlike
<1> HIDE DEF seq, iv, n, work
<1>5. 0 <= Today /\ DayLen \in Nat
  BY TimesheetAssumption DEF Today, DayOf
<1>6. ASSUME NEW i \in 1 .. n
      PROVE  /\ iv[i].start \in Nat /\ iv[i].end \in Nat
             /\ (/\ seq[i].start # seq[i].end
                 /\ ~(seq[i].startNextDay /\ seq[i].end < seq[i].start))
                  <=> (iv[i].start < iv[i].end /\ iv[i].end < (0 + 2) * DayLen)
  <2>1. seq[i] \in Ordered
    BY <1>1
  <2>2. /\ seq[i].start \in 0 .. DayLen - 1 /\ seq[i].end \in 0 .. DayLen - 1
        /\ seq[i].startNextDay \in BOOLEAN
    BY <2>1 DEF Ordered
  <2>3. /\ absoluteStart(seq[i]) \in Nat /\ absoluteEnd(seq[i]) \in Nat
        /\ absoluteStart(seq[i]) = seq[i].start + (IF seq[i].startNextDay THEN DayLen ELSE 0)
        /\ absoluteEnd(seq[i]) = seq[i].end + (IF seq[i].startNextDay THEN DayLen ELSE 0)
                               + (IF seq[i].end < seq[i].start THEN DayLen ELSE 0)
    BY <2>2, AbsoluteTimes
  <2>4. iv[i].start = absoluteStart(seq[i]) /\ iv[i].end = absoluteEnd(seq[i])
    BY <1>1
  <2> DEFINE from == seq[i].start
             until == seq[i].end
             start == iv[i].start
             end == iv[i].end
             next == seq[i].startNextDay
  <2>5. /\ start = from + (IF next THEN DayLen ELSE 0)
        /\ end = until + (IF next THEN DayLen ELSE 0) + (IF until < from THEN DayLen ELSE 0)
        /\ start \in Nat /\ end \in Nat
    BY <2>3, <2>4
  <2>6. from \in 0 .. DayLen - 1 /\ until \in 0 .. DayLen - 1 /\ next \in BOOLEAN
    BY <2>2
  <2> HIDE DEF from, until, start, end, next
  <2>7. (from # until /\ ~(next /\ until < from)) <=> (start < end /\ end < (0 + 2) * DayLen)
    <3>1. CASE next
      BY <1>5, <2>5, <2>6, <3>1
    <3>2. CASE ~next
      BY <1>5, <2>5, <2>6, <3>2
    <3> QED
      BY <3>1, <3>2
  <2> QED
    BY <2>5, <2>7 DEF from, until, start, end, next
<1>7. \A i \in 1 .. n : joined(i) <=> breakJoined(i)
  <2>1. ASSUME NEW i \in 1 .. n
        PROVE  joined(i) <=> breakJoined(i)
    <3>1. i \in 2 .. n - 1 => i - 1 \in 1 .. n /\ i + 1 \in 1 .. n
      BY <1>1
    <3> QED
      BY <1>1, <3>1
  <2> QED
    BY <2>1
<1>8. ASSUME NEW i \in 1 .. n
      PROVE  /\ absoluteEnd(seq[i]) - absoluteStart(seq[i]) = iv[i].end - iv[i].start
             /\ i > 1 => (absoluteEnd(seq[i - 1]) <= absoluteStart(seq[i])
                            <=> iv[i - 1].end <= iv[i].start)
  <2>1. i > 1 => i - 1 \in 1 .. n
    BY <1>1
  <2> QED
    BY <1>1, <2>1
<1>9. n > 0 => 1 \in 1 .. n /\ n \in 1 .. n
  BY <1>1
<1>10. n > 0 => iv[1].kind = seq[1].kind /\ iv[n].kind = seq[n].kind
  BY <1>1, <1>9
<1> HIDE DEF joined, breakJoined
<1>11. ASSUME manualTimeDraftAccepted(draft)
       PROVE  normalizeIntervals(iv, 0)
  <2>1. n > 0 /\ seq[1].kind = "work" /\ seq[n].kind = "work" /\ workedTime(seq) <= DayLen
    BY <1>2, <1>11
  <2>2. ASSUME NEW i \in 1 .. n
        PROVE  /\ iv[i].start < iv[i].end /\ iv[i].end < (0 + 2) * DayLen
               /\ iv[i].end - iv[i].start <= MaxInterval
               /\ i > 1 => iv[i - 1].end <= iv[i].start
               /\ iv[i].kind = "break" => breakJoined(i)
    <3>1. /\ seq[i].start # seq[i].end
          /\ ~(seq[i].startNextDay /\ seq[i].end < seq[i].start)
          /\ absoluteEnd(seq[i]) - absoluteStart(seq[i]) <= MaxInterval
          /\ i > 1 => absoluteEnd(seq[i - 1]) <= absoluteStart(seq[i])
          /\ seq[i].kind = "break" => joined(i)
      BY <1>2, <1>11
    <3> QED
      BY <1>1, <1>6, <1>7, <1>8, <3>1
  <2>3. \A i \in 2 .. n : i \in 1 .. n /\ i > 1
    BY <1>1
  <2>4. iv[n].end <= now
    <3>1. iv[n].end \in Nat /\ iv[n].end < (0 + 2) * DayLen
      BY <1>6, <1>9, <2>1, <2>2
    <3> QED
      BY <1>5, <3>1
  <2> QED
    BY <1>3, <1>4, <1>5, <1>10, <2>1, <2>2, <2>3, <2>4
<1>12. ASSUME normalizeIntervals(iv, 0)
       PROVE  manualTimeDraftAccepted(draft)
  <2>1. n > 0 /\ seq[1].kind = "work" /\ seq[n].kind = "work" /\ workedTime(seq) <= DayLen
    BY <1>3, <1>4, <1>10, <1>12
  <2>2. ASSUME NEW i \in 1 .. n
        PROVE  /\ seq[i].start # seq[i].end
               /\ ~(seq[i].startNextDay /\ seq[i].end < seq[i].start)
               /\ absoluteEnd(seq[i]) - absoluteStart(seq[i]) <= MaxInterval
               /\ i > 1 => absoluteEnd(seq[i - 1]) <= absoluteStart(seq[i])
               /\ seq[i].kind = "break" => joined(i)
    <3>1. i > 1 => i \in 2 .. n
      BY <1>1
    <3>2. /\ iv[i].start < iv[i].end /\ iv[i].end < (0 + 2) * DayLen
          /\ iv[i].end - iv[i].start <= MaxInterval
          /\ i > 1 => iv[i - 1].end <= iv[i].start
          /\ iv[i].kind = "break" => breakJoined(i)
      BY <1>3, <1>12, <3>1
    <3> QED
      BY <1>1, <1>6, <1>7, <1>8, <3>2
  <2> QED
    BY <1>2, <2>1, <2>2
<1> QED
  BY <1>11, <1>12 DEF iv

\* What the editor holds can be typed.
EditorInv == draftIntervals \in Seq(Typing)

LEMMA EditorInvInit ==
  ASSUME EditorInit
  PROVE  EditorInv
<1>1. ASSUME NEW a \in EditTimes, NEW b \in EditTimes
      PROVE  Interval("work", a, b, FALSE) \in Typing
  BY WebTimeAssumption DEF Interval, Typing
<1>2. CASE draftIntervals = <<>>
  BY <1>2 DEF EditorInv
<1>3. ASSUME NEW a \in EditTimes, NEW b \in EditTimes,
             draftIntervals = <<Interval("work", a, b, FALSE)>>
      PROVE  EditorInv
  <2> DEFINE x == Interval("work", a, b, FALSE)
  <2>1. x \in Typing /\ draftIntervals = <<x>>
    BY <1>1, <1>3
  <2> HIDE DEF x
  <2> QED
    BY <2>1 DEF EditorInv
<1> QED
  BY <1>2, <1>3 DEF EditorInit

LEMMA EditorInvStep ==
  ASSUME EditorInv, [EditorNext]_webTimeVars
  PROVE  EditorInv'
<1>1. /\ draftIntervals \in Seq(Typing) /\ DOMAIN draftIntervals = 1 .. Len(draftIntervals)
      /\ Len(draftIntervals) \in Nat
      /\ \A i \in DOMAIN draftIntervals : draftIntervals[i] \in Typing
  BY DEF EditorInv
<1>2. \A t \in EditTimes : t \in 0 .. DayLen - 1
  BY WebTimeAssumption
<1>3. CASE UNCHANGED webTimeVars
  BY <1>3 DEF EditorInv, webTimeVars
<1>4. ASSUME NEW k \in {"work", "break"}, NEW a \in EditTimes, NEW b \in EditTimes,
             addInterval(k, a, b)
      PROVE  EditorInv'
  <2> DEFINE previous == Last(draftIntervals)
             new == IF draftIntervals = <<>> THEN Interval(k, a, b, FALSE)
                    ELSE Interval(k, previous.end, b, previous.startNextDay)
  <2>1. draftIntervals # <<>> => previous \in Typing
    BY <1>1 DEF Last
  <2>2. new \in Typing
    BY <1>2, <2>1 DEF Interval, Typing
  <2> HIDE DEF new
  <2>3. draftIntervals' = Append(draftIntervals, new)
    BY <1>4 DEF addInterval, new
  <2> QED
    BY <1>1, <2>2, <2>3 DEF EditorInv
<1>5. ASSUME NEW i \in 1 .. MaxIntervals, removeInterval(i)
      PROVE  EditorInv'
  <2>1. i \in DOMAIN draftIntervals /\ draftIntervals' = RemoveAt(draftIntervals, i)
    BY <1>5 DEF removeInterval
  <2>2. SubSeq(draftIntervals, 1, i - 1) \in Seq(Typing)
    BY <1>1, <2>1
  <2>3. SubSeq(draftIntervals, i + 1, Len(draftIntervals)) \in Seq(Typing)
    BY <1>1, <2>1
  <2> QED
    BY <2>1, <2>2, <2>3 DEF EditorInv, RemoveAt
<1>6. ASSUME NEW i \in 1 .. MaxIntervals, NEW k \in {"work", "break"}, setIntervalKind(i, k)
      PROVE  EditorInv'
  <2> DEFINE x == [draftIntervals[i] EXCEPT !.kind = k]
  <2>1. i \in DOMAIN draftIntervals
    BY <1>6 DEF setIntervalKind
  <2>2. x \in Typing
    BY <1>1, <2>1 DEF Typing
  <2>3. draftIntervals' = [draftIntervals EXCEPT ![i] = x]
    BY <1>6 DEF setIntervalKind
  <2> HIDE DEF x
  <2> QED
    BY <1>1, <2>1, <2>2, <2>3 DEF EditorInv
<1>7. ASSUME NEW i \in 1 .. MaxIntervals, NEW t \in EditTimes, setIntervalStart(i, t)
      PROVE  EditorInv'
  <2> DEFINE x(j) == IF j = i THEN [draftIntervals[j] EXCEPT !.start = t]
                     ELSE IF j = i - 1 /\ draftIntervals[j].end = draftIntervals[i].start
                     THEN [draftIntervals[j] EXCEPT !.end = t]
                     ELSE draftIntervals[j]
  <2>1. draftIntervals' = [j \in DOMAIN draftIntervals |-> x(j)]
    BY <1>7 DEF setIntervalStart
  <2>2. ASSUME NEW j \in DOMAIN draftIntervals
        PROVE  x(j) \in Typing
    <3>1. draftIntervals[j] \in Typing /\ t \in 0 .. DayLen - 1
      BY <1>1, <1>2
    <3>2. [draftIntervals[j] EXCEPT !.start = t] \in Typing
      BY <3>1 DEF Typing
    <3>3. [draftIntervals[j] EXCEPT !.end = t] \in Typing
      BY <3>1 DEF Typing
    <3> QED
      BY <3>1, <3>2, <3>3
  <2> HIDE DEF x
  <2> QED
    BY <1>1, <2>1, <2>2 DEF EditorInv
<1>8. ASSUME NEW i \in 1 .. MaxIntervals, NEW t \in EditTimes, setIntervalEnd(i, t)
      PROVE  EditorInv'
  <2> DEFINE x(j) == IF j = i THEN [draftIntervals[j] EXCEPT !.end = t]
                     ELSE IF j = i + 1 /\ draftIntervals[j].start = draftIntervals[i].end
                     THEN [draftIntervals[j] EXCEPT !.start = t]
                     ELSE draftIntervals[j]
  <2>1. draftIntervals' = [j \in DOMAIN draftIntervals |-> x(j)]
    BY <1>8 DEF setIntervalEnd
  <2>2. ASSUME NEW j \in DOMAIN draftIntervals
        PROVE  x(j) \in Typing
    <3>1. draftIntervals[j] \in Typing /\ t \in 0 .. DayLen - 1
      BY <1>1, <1>2
    <3>2. [draftIntervals[j] EXCEPT !.start = t] \in Typing
      BY <3>1 DEF Typing
    <3>3. [draftIntervals[j] EXCEPT !.end = t] \in Typing
      BY <3>1 DEF Typing
    <3> QED
      BY <3>1, <3>2, <3>3
  <2> HIDE DEF x
  <2> QED
    BY <1>1, <2>1, <2>2 DEF EditorInv
<1>9. ASSUME NEW i \in 1 .. MaxIntervals, NEW b \in BOOLEAN, setStartNextDay(i, b)
      PROVE  EditorInv'
  <2> DEFINE x == [draftIntervals[i] EXCEPT !.startNextDay = b]
  <2>1. i \in DOMAIN draftIntervals
    BY <1>9 DEF setStartNextDay
  <2>2. x \in Typing
    BY <1>1, <2>1 DEF Typing
  <2>3. draftIntervals' = [draftIntervals EXCEPT ![i] = x]
    BY <1>9 DEF setStartNextDay
  <2> HIDE DEF x
  <2> QED
    BY <1>1, <2>1, <2>2, <2>3 DEF EditorInv
<1> QED
  BY <1>3, <1>4, <1>5, <1>6, <1>7, <1>8, <1>9 DEF EditorNext

LEMMA EditorIsTyped == EditorSpec => []EditorInv
<1>1. EditorInit => EditorInv
  BY EditorInvInit
<1>2. EditorInv /\ [EditorNext]_webTimeVars => EditorInv'
  BY EditorInvStep
<1> QED
  BY <1>1, <1>2, PTL DEF EditorSpec

-----------------------------------------------------------------------------
(* The panel.                                                              *)

\* The effective events are determined, when their times tell them apart.
InTime(ev) == \A j, k \in DOMAIN ev : j < k => ev[j].at < ev[k].at

LEMMA EffectiveIsUnique ==
  ASSUME NEW l, NEW until, NEW v, NEW w, AreEffective(l, until, v), AreEffective(l, until, w),
         InTime(w)
  PROVE  Len(v) = Len(w) /\ v = w
<1> DEFINE a == Len(v)
           n == Len(w)
<1>1. /\ v \in Seq(Read) /\ a \in Nat /\ DOMAIN v = 1 .. a
      /\ w \in Seq(Read) /\ n \in Nat /\ DOMAIN w = 1 .. n
      /\ \A k \in 1 .. a : v[k].at \in Int
      /\ \A k \in 1 .. n : w[k].at \in Int
  <2>1. v \in Seq(Read) /\ w \in Seq(Read)
    BY DEF AreEffective, AreReads
  <2>2. \A x \in Read : x.at \in Int
    BY DEF Read
  <2> QED
    BY <2>1, <2>2
<1>2. ASSUME NEW x, AreEffective(l, until, x), NEW y, AreEffective(l, until, y),
             NEW k \in DOMAIN x
      PROVE  \E j \in DOMAIN y : y[j] = x[k]
  BY <1>2 DEF AreEffective
<1>3. \A j, k \in 1 .. a : v[j].id = v[k].id => j = k
  BY <1>1 DEF AreEffective, AreReads
<1>4. \A j, k \in 1 .. n : w[j].id = w[k].id => j = k
  BY <1>1 DEF AreEffective, AreReads
<1>5. \A j, k \in 1 .. a : j < k => v[j].at <= v[k].at
  BY <1>1 DEF AreEffective, ByTime
<1>6. \A j, k \in 1 .. n : j < k => w[j].at < w[k].at
  BY <1>1 DEF InTime
<1>7. \A k \in 1 .. a : \E j \in 1 .. n : v[k] = w[j]
  <2>1. \A k \in DOMAIN v : \E j \in DOMAIN w : w[j] = v[k]
    BY <1>2
  <2> QED
    BY <1>1, <2>1
<1>8. \A j \in 1 .. n : \E k \in 1 .. a : v[k] = w[j]
  <2>1. \A j \in DOMAIN w : \E k \in DOMAIN v : v[k] = w[j]
    BY <1>2
  <2> QED
    BY <1>1, <2>1
<1> HIDE DEF a, n
<1>9. ASSUME NEW k \in 1 .. a, NEW m \in 1 .. a, NEW i \in 1 .. n, NEW j \in 1 .. n,
             v[k] = w[i], v[m] = w[j], k < m
      PROVE  i < j
  <2>1. w[i].at <= w[j].at
    BY <1>5, <1>9
  <2>2. i # j
    <3>1. i = j => v[k].id = v[m].id
      BY <1>9
    <3>2. k # m
      BY <1>1, <1>9
    <3> QED
      BY <1>3, <3>1, <3>2
  <2>3. ~ (j < i)
    <3>1. w[i].at \in Int /\ w[j].at \in Int
      BY <1>1
    <3>2. j < i => w[j].at < w[i].at
      BY <1>6
    <3> QED
      BY <2>1, <3>1, <3>2
  <2> QED
    BY <1>1, <2>2, <2>3
<1>10. \A i, j \in 1 .. n : w[i] = w[j] => i = j
  BY <1>4
<1>11. Alike(v, w, a, n)
  <2>1. \A k, m \in 1 .. a, i, j \in 1 .. n : (v[k] = w[i] /\ v[m] = w[j] /\ k < m) => i < j
    BY <1>9
  <2> QED
    BY <1>7, <1>8, <1>10, <2>1 DEF Alike
<1>12. a = n /\ \A k \in 1 .. a : v[k] = w[k]
  BY <1>1, <1>11, SameOrder
<1>13. v = w
  BY <1>1, <1>12
<1> QED
  BY <1>12, <1>13 DEF a, n

\* The whole log is read, in its order.
Loads(l, s) ==
  /\ s \in Seq(Nat)
  /\ \A k \in DOMAIN s : s[k] \in DOMAIN l
  /\ \A j, k \in DOMAIN s : j < k => s[j] < s[k]
  /\ \A i \in DOMAIN l : \E k \in DOMAIN s : s[k] = i

LEMMA TodayIsLoaded ==
  ASSUME now \in Nat, IsLog(log), \A i \in DOMAIN log : Today * DayLen <= log[i].at
  PROVE  Loads(log, loadToday)
<1> DEFINE S == {i \in DOMAIN log : log[i].at >= Today * DayLen}
           s == loadToday
<1>1. log \in Seq(Entry) /\ DOMAIN log = 1 .. Len(log) /\ Len(log) \in Nat
  BY DEF IsLog
<1>2. Indices(log) \in Seq(Nat) /\ Len(Indices(log)) = Len(log)
      /\ \A i \in 1 .. Len(log) : Indices(log)[i] = i
  BY <1>1 DEF Indices
<1>3. s = Only(Indices(log), S)
  BY Zenon DEF loadToday
<1>4. \A i \in 1 .. Len(log) : i \in S
  <2>1. \A i \in 1 .. Len(log) : log[i] \in Entry
    BY <1>1
  <2>2. \A i \in 1 .. Len(log) : log[i].at \in Int
    BY <2>1 DEF Entry
  <2>3. Today * DayLen \in Int
    <3>1. Today \in Nat
      BY TimesheetAssumption DEF Today, DayOf
    <3> QED
      BY <3>1, DayBegins
  <2> QED
    BY <1>1, <2>2, <2>3
<1> HIDE DEF S, s
<1>5. s \in Seq(Nat) /\ \E e : Picks(e, s, Len(Indices(log)), Indices(log), S)
  BY <1>2, <1>3, OnlyKeepsOrder
<1>6. PICK e : Picks(e, s, Len(log), Indices(log), S)
  BY <1>2, <1>5
<1>7. \A k \in DOMAIN s : s[k] = e[k] /\ e[k] \in 1 .. Len(log)
  BY <1>1, <1>2, <1>6 DEF Picks
<1>8. \A j, k \in DOMAIN s : j < k => s[j] < s[k]
  BY <1>6, <1>7 DEF Picks
<1>9. \A i \in 1 .. Len(log) : \E k \in DOMAIN s : s[k] = i
  BY <1>4, <1>6, <1>7 DEF Picks
<1>10. Loads(log, s)
  BY <1>1, <1>5, <1>7, <1>8, <1>9 DEF Loads
<1> QED
  BY <1>10 DEF s

\* What is kept of what is loaded.
LEMMA OnlyOfLoaded ==
  ASSUME NEW l, NEW s, Loads(l, s), NEW S
  PROVE  /\ Only(s, S) \in Seq(Nat)
         /\ \A k \in DOMAIN Only(s, S) : \E j \in DOMAIN s : j \in S /\ Only(s, S)[k] = s[j]
         /\ \A j \in DOMAIN s : j \in S => \E k \in DOMAIN Only(s, S) : Only(s, S)[k] = s[j]
         /\ \A j, k \in DOMAIN Only(s, S) : j < k => Only(s, S)[j] < Only(s, S)[k]
<1> DEFINE w == Only(s, S)
<1>1. s \in Seq(Nat) /\ DOMAIN s = 1 .. Len(s)
  BY DEF Loads
<1>2. w \in Seq(Nat) /\ \E e : Picks(e, w, Len(s), s, S)
  BY <1>1, OnlyKeepsOrder
<1> HIDE DEF w
<1>3. PICK e : Picks(e, w, Len(s), s, S)
  BY <1>2
<1>4. \A k \in DOMAIN w : e[k] \in DOMAIN s /\ w[k] = s[e[k]] /\ e[k] \in S
  BY <1>1, <1>3 DEF Picks
<1>5. \A j \in DOMAIN s : j \in S => \E k \in DOMAIN w : e[k] = j
  BY <1>1, <1>3 DEF Picks
<1>6. \A j, k \in DOMAIN w : j < k => e[j] < e[k]
  BY <1>3 DEF Picks
<1>7. \A j, k \in DOMAIN w : j < k => w[j] < w[k]
  <2>1. ASSUME NEW j \in DOMAIN w, NEW k \in DOMAIN w, j < k
        PROVE  w[j] < w[k]
    <3>1. e[j] < e[k] /\ e[j] \in DOMAIN s /\ e[k] \in DOMAIN s
      BY <1>4, <1>6, <2>1
    <3>2. s[e[j]] < s[e[k]]
      BY <3>1 DEF Loads
    <3> QED
      BY <1>4, <3>2
  <2> QED
    BY <2>1
<1>8. \A k \in DOMAIN w : \E j \in DOMAIN s : j \in S /\ w[k] = s[j]
  BY <1>4
<1>9. \A j \in DOMAIN s : j \in S => \E k \in DOMAIN w : w[k] = s[j]
  BY <1>4, <1>5
<1> QED
  BY <1>2, <1>7, <1>8, <1>9 DEF w

\* Where nothing is voided, the panel corrects as the server does.
LEMMA PanelCorrects ==
  ASSUME NEW t, LogIs(log, t), \A i \in DOMAIN log : ~log[i].void,
         NEW until, InQuery(log, until) = DOMAIN log, NEW loaded, Loads(log, loaded)
  PROVE  /\ AreReads(log, applyCorrections(loaded))
         /\ \A k \in DOMAIN applyCorrections(loaded) :
              \/ /\ Uncorrected(log, until, applyCorrections(loaded)[k].id)
                 /\ applyCorrections(loaded)[k] = AsRead(log, applyCorrections(loaded)[k].id)
              \/ \E c \in DOMAIN log : /\ Deciding(log, until, c)
                                       /\ applyCorrections(loaded)[k] = AsCorrected(log, c)
         /\ \A e \in DOMAIN log : log[e].kind # "correction" =>
              \E k \in DOMAIN applyCorrections(loaded) : applyCorrections(loaded)[k].id = e
<1> DEFINE R == applyCorrections(loaded)
           K(i) == {k \in DOMAIN loaded : log[loaded[k]].corrects = i /\ log[loaded[k]].to # "none"}
           C(i) == Only(loaded, K(i))
           E == {k \in DOMAIN loaded : log[loaded[k]].kind # "correction"}
           events == Only(loaded, E)
           x(k) == IF C(events[k]) = <<>> THEN AsRead(log, events[k])
                   ELSE LET c == Last(C(events[k]))
                        IN [id |-> events[k], kind |-> log[c].to, at |-> log[c].at,
                            paid |-> log[events[k]].paid]
<1>1. R = [k \in DOMAIN events |-> x(k)]
  BY DEF applyCorrections
<1>2. /\ \A k \in DOMAIN loaded : loaded[k] \in DOMAIN log
      /\ \A i \in DOMAIN log : \E k \in DOMAIN loaded : loaded[k] = i
  BY DEF Loads
<1>3. /\ log \in Seq(Entry) /\ DOMAIN log = 1 .. Len(log) /\ Len(log) \in Nat
      /\ \A i \in DOMAIN log : log[i] \in Entry /\ i \in Nat /\ i > 0
  <2>1. log \in Seq(Entry)
    BY DEF LogIs, IsLog
  <2> QED
    BY <2>1
<1>4. \A i \in DOMAIN log : /\ log[i].kind = "correction" <=> log[i].corrects > 0
                            /\ log[i].kind = "correction" => log[i].to \in WorkKinds
                            /\ log[i].corrects \in Nat
  BY <1>3 DEF LogIs, IsLog, Entry
<1>5. /\ events \in Seq(Nat)
      /\ \A k \in DOMAIN events : \E j \in DOMAIN loaded : j \in E /\ events[k] = loaded[j]
      /\ \A j \in DOMAIN loaded : j \in E => \E k \in DOMAIN events : events[k] = loaded[j]
      /\ \A j, k \in DOMAIN events : j < k => events[j] < events[k]
  <2> HIDE DEF E
  <2> QED
    BY OnlyOfLoaded
<1> HIDE DEF events
<1>6. \A k \in DOMAIN events : events[k] \in DOMAIN log /\ log[events[k]].kind # "correction"
  BY <1>2, <1>5
<1>7. \A e \in DOMAIN log : log[e].kind # "correction" => \E k \in DOMAIN events : events[k] = e
  BY <1>2, <1>5
<1>8. \A j, k \in DOMAIN events : events[j] = events[k] => j = k
  <2>1. ASSUME NEW j \in DOMAIN events, NEW k \in DOMAIN events, events[j] = events[k]
        PROVE  j = k
    <3>1. events[j] \in Nat /\ j \in Int /\ k \in Int
      BY <1>5
    <3>2. ~ (j < k) /\ ~ (k < j)
      BY <1>5, <2>1, <3>1
    <3> QED
      BY <3>1, <3>2
  <2> QED
    BY <2>1
<1> HIDE DEF E
<1>9. ASSUME NEW k \in DOMAIN events
      PROVE  /\ x(k) \in Read /\ x(k).id = events[k] /\ x(k).paid = log[events[k]].paid
             /\ \/ Uncorrected(log, until, events[k]) /\ x(k) = AsRead(log, events[k])
                \/ \E c \in DOMAIN log : Deciding(log, until, c) /\ x(k) = AsCorrected(log, c)
  <2> DEFINE i == events[k]
             cs == C(i)
             S == K(i)
  <2>1. i \in DOMAIN log /\ i \in Nat /\ i > 0 /\ log[i].kind # "correction" /\ log[i] \in Entry
    BY <1>3, <1>6
  <2>2. \A c \in DOMAIN log :
          log[c].corrects = i => log[c].kind = "correction" /\ log[c].to # "none"
    <3>1. "none" \notin WorkKinds
      BY DEF WorkKinds
    <3> QED
      BY <1>4, <2>1, <3>1
  <2>3. AsRead(log, i) = [id |-> i, kind |-> log[i].kind, at |-> log[i].at, paid |-> log[i].paid]
    BY DEF AsRead
  <2>4. /\ AsRead(log, i) \in Read
        /\ AsRead(log, i).id = i /\ AsRead(log, i).paid = log[i].paid
    <3>1. log[i].kind \in Kinds /\ log[i].at \in Nat /\ log[i].paid \in BOOLEAN
      BY <2>1 DEF Entry, Kinds
    <3> QED
      BY <2>1, <2>3, <3>1 DEF Read
  <2>5. \A j \in DOMAIN loaded : j \in S <=> log[loaded[j]].corrects = i
    BY <1>2, <2>2
  <2> HIDE DEF S
  <2>6. /\ cs \in Seq(Nat)
        /\ \A m \in DOMAIN cs : \E j \in DOMAIN loaded : j \in S /\ cs[m] = loaded[j]
        /\ \A j \in DOMAIN loaded : j \in S => \E m \in DOMAIN cs : cs[m] = loaded[j]
        /\ \A j, m \in DOMAIN cs : j < m => cs[j] < cs[m]
    <3>1. cs = Only(loaded, S)
      BY DEF S
    <3> HIDE DEF cs
    <3> QED
      BY <3>1, OnlyOfLoaded
  <2> HIDE DEF cs
  <2>7. /\ \A m \in DOMAIN cs : cs[m] \in DOMAIN log /\ log[cs[m]].corrects = i
        /\ \A c \in DOMAIN log : log[c].corrects = i => \E m \in DOMAIN cs : cs[m] = c
    BY <1>2, <2>5, <2>6
  <2>8. x(k) = IF cs = <<>> THEN AsRead(log, i)
               ELSE [id |-> i, kind |-> log[Last(cs)].to, at |-> log[Last(cs)].at,
                     paid |-> log[i].paid]
    BY DEF cs, S
  <2> HIDE DEF x, i
  <2>9. CASE cs = <<>>
    <3>1. \A c \in DOMAIN log : log[c].corrects # i
      BY <2>7, <2>9
    <3>2. Uncorrected(log, until, i)
      BY <2>1, <3>1 DEF Uncorrected, RegularRead
    <3> QED
      BY <2>4, <2>8, <2>9, <3>2 DEF i
  <2>10. CASE cs # <<>>
    <3> DEFINE c == cs[Len(cs)]
    <3>1. Len(cs) \in DOMAIN cs /\ Last(cs) = c /\ DOMAIN cs = 1 .. Len(cs) /\ Len(cs) \in Nat
      BY <2>6, <2>10 DEF Last
    <3>2. c \in DOMAIN log /\ log[c].corrects = i
      BY <2>7, <3>1
    <3>3. ASSUME NEW y \in DOMAIN log, y > c
          PROVE  log[y].corrects # i
      <4> SUFFICES ASSUME log[y].corrects = i PROVE FALSE
        OBVIOUS
      <4>1. PICK m \in DOMAIN cs : cs[m] = y
        BY <2>7
      <4>2. m < Len(cs) => cs[m] < c
        BY <2>6, <3>1
      <4>3. m \in 1 .. Len(cs) /\ m # Len(cs)
        BY <1>3, <3>1, <3>2, <3>3, <4>1
      <4>4. y < c
        BY <3>1, <4>1, <4>2, <4>3
      <4> QED
        BY <1>3, <3>2, <3>3, <4>4
    <3>4. Deciding(log, until, c)
      BY <2>2, <3>2, <3>3 DEF Deciding
    <3> HIDE DEF c
    <3>5. log[c].at \in Nat /\ log[c].to \in Kinds
      <4>1. log[c] \in Entry
        BY <1>3, <3>2
      <4> QED
        BY <4>1 DEF Entry
    <3>6. x(k) = [id |-> i, kind |-> log[c].to, at |-> log[c].at, paid |-> log[i].paid]
      BY <2>3, <2>8, <2>10, <3>1
    <3>7. x(k) = AsCorrected(log, c)
      BY <3>2, <3>6 DEF AsCorrected
    <3>8. log[i].paid \in BOOLEAN
      BY <2>1 DEF Entry
    <3>9. x(k) \in Read
      BY <2>1, <3>5, <3>6, <3>8 DEF Read
    <3> QED
      BY <3>2, <3>4, <3>6, <3>7, <3>9 DEF i
  <2> QED
    BY <2>9, <2>10 DEF i
<1> HIDE DEF x, R
<1>10. DOMAIN R = DOMAIN events /\ \A k \in DOMAIN R : R[k] = x(k)
  BY <1>1
<1>11. R \in Seq(Read)
  <2>1. DOMAIN events = 1 .. Len(events) /\ Len(events) \in Nat
    BY <1>5
  <2> QED
    BY <1>1, <1>9, <2>1
<1>12. AreReads(log, R)
  BY <1>6, <1>8, <1>9, <1>10, <1>11 DEF AreReads
<1>13. \A k \in DOMAIN R :
         \/ Uncorrected(log, until, R[k].id) /\ R[k] = AsRead(log, R[k].id)
         \/ \E c \in DOMAIN log : Deciding(log, until, c) /\ R[k] = AsCorrected(log, c)
  BY <1>9, <1>10
<1>14. \A e \in DOMAIN log : log[e].kind # "correction" => \E k \in DOMAIN R : R[k].id = e
  BY <1>7, <1>9, <1>10
<1> QED
  BY <1>12, <1>13, <1>14 DEF R

\* Then they show the same events as corrected.
LEMMA PanelReadsTheEffective ==
  ASSUME NEW t, LogIs(log, t), \A i \in DOMAIN log : ~log[i].void,
         NEW until, InQuery(log, until) = DOMAIN log, NEW loaded, Loads(log, loaded)
  PROVE  AreEffective(log, until, StableByTime(applyCorrections(loaded)))
<1> DEFINE R == applyCorrections(loaded)
           W == StableByTime(R)
<1>1. /\ AreReads(log, R)
      /\ \A k \in DOMAIN R :
           \/ Uncorrected(log, until, R[k].id) /\ R[k] = AsRead(log, R[k].id)
           \/ \E c \in DOMAIN log : Deciding(log, until, c) /\ R[k] = AsCorrected(log, c)
      /\ \A e \in DOMAIN log : log[e].kind # "correction" => \E k \in DOMAIN R : R[k].id = e
  BY PanelCorrects
<1> HIDE DEF R
<1>2. /\ AreReads(log, W) /\ ByTime(W)
      /\ \A k \in DOMAIN W : \E j \in DOMAIN R : R[j] = W[k]
      /\ \A j \in DOMAIN R : \E k \in DOMAIN W : W[k] = R[j]
  <2>1. AreReads(log, R)
    BY <1>1
  <2> QED
    BY <2>1, SortedReads
<1> HIDE DEF W
<1>3. /\ DOMAIN log = 1 .. Len(log) /\ Len(log) \in Nat
      /\ \A i \in DOMAIN log : /\ log[i].kind = "correction" <=> log[i].corrects > 0
                               /\ log[i].corrects < i /\ log[i].corrects \in Nat
                               /\ log[i].corrects > 0 => log[log[i].corrects].kind # "correction"
  <2>1. log \in Seq(Entry) /\ \A i \in DOMAIN log : log[i] \in Entry
    BY DEF LogIs, IsLog
  <2>2. DOMAIN log = 1 .. Len(log) /\ Len(log) \in Nat
    BY <2>1
  <2>3. \A i \in DOMAIN log : log[i].corrects \in Nat
    BY <2>1 DEF Entry
  <2>4. \A i \in DOMAIN log : /\ log[i].kind = "correction" <=> log[i].corrects > 0
                              /\ log[i].corrects < i
                              /\ log[i].corrects > 0 => log[log[i].corrects].kind # "correction"
    BY DEF LogIs, IsLog
  <2> QED
    BY <2>2, <2>3, <2>4
<1>4. \A k \in DOMAIN W :
        \/ Uncorrected(log, until, W[k].id) /\ W[k] = AsRead(log, W[k].id)
        \/ \E c \in InQuery(log, until) :
             Deciding(log, until, c) /\ ~log[c].void /\ W[k] = AsCorrected(log, c)
  <2>1. ASSUME NEW k \in DOMAIN W
        PROVE  \/ Uncorrected(log, until, W[k].id) /\ W[k] = AsRead(log, W[k].id)
               \/ \E c \in InQuery(log, until) :
                    Deciding(log, until, c) /\ ~log[c].void /\ W[k] = AsCorrected(log, c)
    <3>1. PICK j \in DOMAIN R : R[j] = W[k]
      BY <1>2
    <3>2. CASE Uncorrected(log, until, R[j].id) /\ R[j] = AsRead(log, R[j].id)
      BY <3>1, <3>2
    <3>3. CASE \E c \in DOMAIN log : Deciding(log, until, c) /\ R[j] = AsCorrected(log, c)
      BY <3>1, <3>3
    <3> QED
      BY <1>1, <3>2, <3>3
  <2> QED
    BY <2>1
<1>5. \A x : AsCorrected(log, x).id = log[x].corrects
  BY DEF AsCorrected
<1>6. ASSUME NEW e, Uncorrected(log, until, e)
      PROVE  \E k \in DOMAIN W : W[k] = AsRead(log, e)
  <2>1. e \in DOMAIN log /\ log[e].kind # "correction"
    BY <1>6 DEF Uncorrected, RegularRead, InQuery
  <2>2. PICK j \in DOMAIN R : R[j].id = e
    BY <1>1, <2>1
  <2>3. ~ \E c \in DOMAIN log : Deciding(log, until, c) /\ R[j] = AsCorrected(log, c)
    <3> SUFFICES ASSUME NEW c \in DOMAIN log, Deciding(log, until, c), R[j] = AsCorrected(log, c)
                 PROVE  FALSE
      OBVIOUS
    <3>1. log[c].corrects = e /\ log[c].kind = "correction"
      BY <1>5, <2>2 DEF Deciding
    <3> QED
      BY <1>6, <3>1 DEF Uncorrected
  <2>4. R[j] = AsRead(log, e)
    BY <1>1, <2>2, <2>3
  <2> QED
    BY <1>2, <2>4
<1>7. ASSUME NEW c, Deciding(log, until, c)
      PROVE  \E k \in DOMAIN W : W[k] = AsCorrected(log, c)
  <2> DEFINE e == log[c].corrects
  <2>1. c \in DOMAIN log /\ log[c].kind = "correction"
    BY <1>7 DEF Deciding
  <2>2. e \in DOMAIN log /\ log[e].kind # "correction"
    <3>1. e > 0 /\ e < c /\ e \in Nat /\ c \in 1 .. Len(log) /\ log[e].kind # "correction"
      BY <1>3, <2>1
    <3>2. DOMAIN log = 1 .. Len(log) /\ Len(log) \in Nat
      BY <1>3
    <3> HIDE DEF e
    <3>3. e \in 1 .. Len(log)
      BY <3>1, <3>2
    <3> QED
      BY <3>1, <3>2, <3>3
  <2>3. PICK j \in DOMAIN R : R[j].id = e
    BY <1>1, <2>2
  <2>4. ~ Uncorrected(log, until, e)
    BY <2>1 DEF Uncorrected
  <2>5. PICK d \in DOMAIN log : Deciding(log, until, d) /\ R[j] = AsCorrected(log, d)
    BY <1>1, <2>3, <2>4
  <2>6. log[d].corrects = e /\ log[d].kind = "correction"
    BY <1>5, <2>3, <2>5 DEF Deciding
  <2>7. ~ (d > c) /\ ~ (c > d)
    <3>1. ~ (d > c)
      BY <1>7, <2>6 DEF Deciding
    <3>2. ~ (c > d)
      BY <2>1, <2>5, <2>6 DEF Deciding
    <3> QED
      BY <3>1, <3>2
  <2>8. d = c
    BY <1>3, <2>1, <2>7
  <2> QED
    BY <1>2, <2>5, <2>8
<1>8. AreEffective(log, until, W)
  BY <1>2, <1>4, <1>6, <1>7 DEF AreEffective
<1> QED
  BY <1>8 DEF W, R

\* What the panel has counted after some events.
Seen == [since : Int, total : Int]
SeenSteps(h, events) ==
  /\ h \in [0 .. Len(events) -> Seen]
  /\ h[0] = [since |-> -1, total |-> 0]
  /\ \A k \in 1 .. Len(events) : h[k] = workedStep(h[k - 1], events[k])

LEMMA EventSeen ==
  ASSUME NEW s \in Seen, NEW e \in Read
  PROVE  workedStep(s, e) \in Seen
<1>1. e.at \in Int /\ s.since \in Int /\ s.total \in Int
  BY DEF Read, Seen
<1> DEFINE since == IF s.since < 0 THEN e.at ELSE s.since
           total == s.total + (IF e.at > s.since THEN e.at - s.since ELSE 0)
           one == [since |-> since, total |-> s.total]
           other == [since |-> -1, total |-> total]
<1>2. since \in Int /\ total \in Int
  BY <1>1
<1>3. workedStep(s, e) = IF e.kind = "clock_in" \/ (e.kind = "break_end" /\ ~e.paid) THEN one
                         ELSE IF (e.kind \in {"break_start", "break_end"} /\ e.paid) \/ s.since < 0
                              THEN s ELSE other
  BY DEF workedStep
<1> HIDE DEF since, total
<1>4. one \in Seen /\ other \in Seen
  BY <1>1, <1>2 DEF Seen
<1> HIDE DEF one, other
<1> QED
  BY <1>3, <1>4

LEMMA WorkedSeenInSteps ==
  ASSUME NEW events \in Seq(Read)
  PROVE  \E h : SeenSteps(h, events) /\ workedSeen(events) = h[Len(events)]
<1> DEFINE base == [since |-> -1, total |-> 0]
           n == Len(events)
           T == Seen
           op(s, e) == workedStep(s, e)
           step == [p \in (1 .. n) \X T |-> op(p[2], events[p[1]])]
           Fold(g) == g = [s \in SUBSET DOMAIN events |->
                             IF s = {} THEN base
                             ELSE op(g[s \ {Max(s)}], events[Max(s)])]
           iter == CHOOSE g : Fold(g)
           value == iter[1 .. n]
<1>1. n \in Nat /\ DOMAIN events = 1 .. n
  OBVIOUS
<1>2. workedSeen(events) = value
  <2>1. workedSeen(events) = iter[DOMAIN events]
    BY DEF workedSeen, FoldLeft, MapThenFoldSet
  <2> QED
    BY <1>1, <2>1
<1>3. base \in T
  BY DEF Seen
<1>4. ASSUME NEW s \in T, NEW k \in 1 .. n
      PROVE  op(s, events[k]) \in T
  <2>1. events[k] \in Read
    BY <1>1
  <2> QED
    BY <2>1, EventSeen
<1> HIDE DEF base, T
<1>5. step \in [(1 .. n) \X T -> T]
  <2> HIDE DEF op
  <2> QED
    BY <1>4
<1>6. \A k \in 1 .. n, s \in T : step[<<k, s>>] = op(s, events[k])
  OBVIOUS
<1> HIDE DEF step, n, op
<1>7. PICK g : FoldTable(g, n, T, base, step)
  BY <1>1, <1>3, <1>5, FoldIsDefined
<1>8. Fold(g)
  <2>1. ASSUME NEW s \in SUBSET (1 .. n)
        PROVE  g[s] = IF s = {} THEN base ELSE op(g[s \ {Max(s)}], events[Max(s)])
    <3>1. s # {} => Max(s) \in 1 .. n /\ s \ {Max(s)} \in SUBSET (1 .. n)
      BY <1>1, MaxOfIndexes
    <3> QED
      BY <1>6, <1>7, <3>1 DEF FoldTable
  <2> QED
    BY <1>1, <1>7, <2>1 DEF FoldTable
<1>9. Fold(iter)
  <2> HIDE DEF Fold
  <2> QED
    BY <1>8
<1> HIDE DEF iter
<1>10. iter[{}] = base
  BY <1>9
<1>11. FoldRun(iter, n, T, base, step)
  BY <1>1, <1>6, <1>9, <1>10, MaxOfIndexes DEF FoldRun
<1> HIDE DEF value
<1>12. value = iter[1 .. n]
  BY DEF value
<1>13. PICK h : FoldSteps(h, n, T, base, step, value)
  BY <1>1, <1>3, <1>5, <1>11, <1>12, FoldAdvances
<1>14. h \in [0 .. n -> T] /\ h[0] = base /\ h[n] = value
  BY <1>13 DEF FoldSteps
<1>15. ASSUME NEW k \in 1 .. n
       PROVE  h[k] = op(h[k - 1], events[k])
  <2>1. h[k - 1] \in T
    BY <1>1, <1>14
  <2> QED
    BY <1>6, <1>13, <2>1 DEF FoldSteps
<1>16. SeenSteps(h, events)
  BY <1>14, <1>15 DEF SeenSteps, T, base, op, n
<1> QED
  BY <1>2, <1>14, <1>16 DEF n

\* After event e of a legal day the panel has counted what the spans hold.
CountsAlike(s, w, f, e) ==
  /\ s \in Spanning /\ w \in Seen /\ f \in Following /\ e.at \in Int /\ e.paid \in BOOLEAN
  /\ w.since = s.active /\ w.total = TimeIn(s.spans)
  /\ f.state = "off" => s.active = -1
  /\ f.state = "work" => s.active >= 0
  /\ f.state = "break" => (e.paid <=> s.active >= 0)
  /\ s.active <= e.at

\* A legal event after it.
LEMMA LegalEventCountsAlike ==
  ASSUME NEW s, NEW w, NEW f, NEW d, CountsAlike(s, w, f, d),
         NEW e \in Read, e.kind \in WorkKinds, d.at < e.at, f.state = expectedState(e.kind),
         e.kind = "break_end" => (d.paid <=> e.paid)
  PROVE  CountsAlike(spanStep(s, e), workedStep(w, e), anomalyStep(f, e), e)
<1> DEFINE s1 == spanStep(s, e)
           w1 == workedStep(w, e)
           f1 == anomalyStep(f, e)
           span == [start |-> s.active, end |-> e.at]
           begun == [active |-> e.at, spans |-> s.spans]
           ended == [active |-> -1, spans |-> Append(s.spans, span)]
           since == [since |-> e.at, total |-> w.total]
           summed == [since |-> -1, total |-> w.total + (e.at - s.active)]
<1>1. /\ s \in Spanning /\ w \in Seen /\ f \in Following /\ d.at \in Int
      /\ w.since = s.active /\ w.total = TimeIn(s.spans) /\ s.active <= d.at
      /\ f.state = "off" => s.active = -1
      /\ f.state = "work" => s.active >= 0
      /\ f.state = "break" => (d.paid <=> s.active >= 0)
  BY DEF CountsAlike
<1>2. /\ s.active \in Int /\ s.spans \in Seq(Span) /\ w.since \in Int /\ w.total \in Int
      /\ e.at \in Nat /\ e.paid \in BOOLEAN /\ s.active < e.at
  BY <1>1 DEF Spanning, Seen, Read
<1>3. s1 \in Spanning /\ w1 \in Seen /\ f1 \in Following /\ f1.state = nextState(e.kind)
  BY <1>1, EventSpans, EventSeen, EventFollows DEF anomalyStep
<1>4. TimeIn(Append(s.spans, span)) = TimeIn(s.spans) + (e.at - s.active)
  <2>1. span \in Span /\ Lasting(Span)
    BY <1>2 DEF Span, Lasting
  <2> DEFINE a == s.active
             b == e.at
  <2>2. span.start = a /\ span.end = b /\ a \in Int /\ b \in Int
    BY <1>2
  <2> HIDE DEF span, a, b
  <2>3. TimeIn(s.spans) \in Int /\ TimeIn(Append(s.spans, span)) = TimeIn(s.spans) + b - a
    BY <1>2, <2>1, <2>2, TimeInOneMore
  <2>4. TimeIn(Append(s.spans, span)) = TimeIn(s.spans) + (b - a)
    BY <2>2, <2>3
  <2> QED
    BY <2>4 DEF a, b
<1>5. CASE e.kind = "clock_in"
  <2>1. s.active = -1 /\ w.since = -1
    BY <1>1, <1>5 DEF expectedState
  <2>2. s1 = begun
    BY <1>5 DEF spanStep
  <2>3. w1 = since
    BY <1>5, <2>1 DEF workedStep
  <2>4. f1.state = "work"
    BY <1>3, <1>5 DEF nextState
  <2>5. s1.active = e.at /\ s1.spans = s.spans /\ w1.since = e.at /\ w1.total = w.total
    BY <2>2, <2>3
  <2> HIDE DEF s1, w1, f1
  <2>6. CountsAlike(s1, w1, f1, e)
    BY <1>1, <1>2, <1>3, <2>4, <2>5 DEF CountsAlike
  <2> QED
    BY <2>6 DEF s1, w1, f1
<1>6. CASE e.kind = "clock_out"
  <2>1. s.active >= 0 /\ w.since = s.active
    BY <1>1, <1>6 DEF expectedState
  <2>2. s1 = ended
    BY <1>2, <1>6, <2>1 DEF spanStep
  <2>3. w1 = summed
    BY <1>2, <1>6, <2>1 DEF workedStep
  <2>4. f1.state = "off"
    BY <1>3, <1>6 DEF nextState
  <2>5. s1.active = -1 /\ s1.spans = Append(s.spans, span)
    BY <2>2
  <2>6. w1.since = -1 /\ w1.total = w.total + (e.at - s.active)
    BY <2>3
  <2> HIDE DEF s1, w1, f1, span
  <2>7. CountsAlike(s1, w1, f1, e)
    BY <1>1, <1>2, <1>3, <1>4, <2>4, <2>5, <2>6 DEF CountsAlike
  <2> QED
    BY <2>7 DEF s1, w1, f1
<1>7. CASE e.kind = "break_start" /\ ~e.paid
  <2>1. s.active >= 0 /\ w.since = s.active
    BY <1>1, <1>7 DEF expectedState
  <2>2. s1 = ended
    BY <1>2, <1>7, <2>1 DEF spanStep
  <2>3. w1 = summed
    BY <1>2, <1>7, <2>1 DEF workedStep
  <2>4. f1.state = "break"
    BY <1>3, <1>7 DEF nextState
  <2>5. s1.active = -1 /\ s1.spans = Append(s.spans, span)
    BY <2>2
  <2>6. w1.since = -1 /\ w1.total = w.total + (e.at - s.active)
    BY <2>3
  <2> HIDE DEF s1, w1, f1, span
  <2>7. CountsAlike(s1, w1, f1, e)
    BY <1>1, <1>2, <1>3, <1>4, <1>7, <2>4, <2>5, <2>6 DEF CountsAlike
  <2> QED
    BY <2>7 DEF s1, w1, f1
<1>8. CASE e.kind = "break_start" /\ e.paid
  <2>1. s.active >= 0 /\ w.since = s.active
    BY <1>1, <1>8 DEF expectedState
  <2>2. s1 = s
    BY <1>8 DEF spanStep
  <2>3. w1 = w
    BY <1>8 DEF workedStep
  <2>4. f1.state = "break"
    BY <1>3, <1>8 DEF nextState
  <2> HIDE DEF s1, w1, f1
  <2>5. CountsAlike(s1, w1, f1, e)
    BY <1>1, <1>2, <1>3, <1>8, <2>1, <2>2, <2>3, <2>4 DEF CountsAlike
  <2> QED
    BY <2>5 DEF s1, w1, f1
<1>9. CASE e.kind = "break_end" /\ ~e.paid
  <2>1. s.active < 0 /\ w.since < 0
    BY <1>1, <1>2, <1>9 DEF expectedState
  <2>2. s1 = begun
    BY <1>9, <2>1 DEF spanStep
  <2>3. w1 = since
    BY <1>9, <2>1 DEF workedStep
  <2>4. f1.state = "work"
    BY <1>3, <1>9 DEF nextState
  <2>5. s1.active = e.at /\ s1.spans = s.spans /\ w1.since = e.at /\ w1.total = w.total
    BY <2>2, <2>3
  <2> HIDE DEF s1, w1, f1
  <2>6. CountsAlike(s1, w1, f1, e)
    BY <1>1, <1>2, <1>3, <2>4, <2>5 DEF CountsAlike
  <2> QED
    BY <2>6 DEF s1, w1, f1
<1>10. CASE e.kind = "break_end" /\ e.paid
  <2>1. s.active >= 0 /\ w.since = s.active
    BY <1>1, <1>2, <1>10 DEF expectedState
  <2>2. s1 = s
    BY <1>2, <1>10, <2>1 DEF spanStep
  <2>3. w1 = w
    BY <1>10 DEF workedStep
  <2>4. f1.state = "work"
    BY <1>3, <1>10 DEF nextState
  <2> HIDE DEF s1, w1, f1
  <2>5. CountsAlike(s1, w1, f1, e)
    BY <1>1, <1>2, <1>3, <2>1, <2>2, <2>3, <2>4 DEF CountsAlike
  <2> QED
    BY <2>5 DEF s1, w1, f1
<1> QED
  BY <1>5, <1>6, <1>7, <1>8, <1>9, <1>10 DEF WorkKinds

\* The events of a legal day, all of them ended.
LegalDay(ev) ==
  /\ ev \in Seq(Read) /\ sequenceAnomalyDates(ev) = {}
  /\ \A k \in 1 .. Len(ev) : ev[k].kind \in WorkKinds
  /\ \A k \in 2 .. Len(ev) : /\ ev[k - 1].at < ev[k].at
                             /\ ev[k].kind = "break_end" => (ev[k - 1].paid <=> ev[k].paid)

LEMMA LegalDayCountsAlike ==
  ASSUME NEW ev, LegalDay(ev)
  PROVE  /\ spansSeen(ev).active < 0 /\ workedSeen(ev).since < 0
         /\ workedSeen(ev).total = TimeIn(spansSeen(ev).spans)
<1> DEFINE n == Len(ev)
           start == [kind |-> "clock_out", at |-> -1, paid |-> FALSE]
           before(k) == IF k = 0 THEN start ELSE ev[k]
<1>1. /\ ev \in Seq(Read) /\ n \in Nat /\ sequenceAnomalyDates(ev) = {}
      /\ \A k \in 1 .. n : ev[k] \in Read /\ ev[k].kind \in WorkKinds
      /\ \A k \in 2 .. n : /\ ev[k - 1].at < ev[k].at
                           /\ ev[k].kind = "break_end" => (ev[k - 1].paid <=> ev[k].paid)
  BY DEF LegalDay
<1>2. PICK h : SpanSteps(h, ev) /\ spansSeen(ev) = h[n]
  BY <1>1, SpansInSteps
<1>3. PICK g : SeenSteps(g, ev) /\ workedSeen(ev) = g[n]
  BY <1>1, WorkedSeenInSteps
<1>4. PICK a : FollowingSteps(a, ev) /\ anomaliesSeen(ev) = a[n]
  BY <1>1, AnomaliesInSteps
<1>5. /\ h[0] = [active |-> -1, spans |-> <<>>]
      /\ \A k \in 1 .. n : h[k] = spanStep(h[k - 1], ev[k])
      /\ g[0] = [since |-> -1, total |-> 0]
      /\ \A k \in 1 .. n : g[k] = workedStep(g[k - 1], ev[k])
      /\ a[0] = [state |-> "off", last |-> 0, dates |-> {}]
      /\ \A k \in 1 .. n : a[k] = anomalyStep(a[k - 1], ev[k])
      /\ \A k \in 0 .. n : h[k] \in Spanning /\ g[k] \in Seen /\ a[k] \in Following
  BY <1>1, <1>2, <1>3, <1>4 DEF SpanSteps, SeenSteps, FollowingSteps
<1>6. a[n].dates = {} /\ a[n].state = "off"
  <2>1. sequenceAnomalyDates(ev)
          = IF a[n].state # "off" THEN a[n].dates \union {a[n].last} ELSE a[n].dates
    BY <1>4 DEF sequenceAnomalyDates
  <2> QED
    BY <1>1, <2>1
<1> HIDE DEF n
<1> DEFINE Good == {k \in 0 .. n : a[k].dates = {} => CountsAlike(h[k], g[k], a[k], before(k))}
<1>7. 0 \in Good
  <2>1. h[0] \in Spanning /\ g[0] \in Seen /\ a[0] \in Following
    BY <1>1, <1>5
  <2>2. before(0).at = -1 /\ before(0).paid = FALSE /\ before(0).at \in Int
    OBVIOUS
  <2>3. h[0].active = -1 /\ g[0].since = -1 /\ g[0].total = TimeIn(h[0].spans) /\ a[0].state = "off"
    BY <1>5, TimeInNothing
  <2>4. CountsAlike(h[0], g[0], a[0], before(0))
    <3> DEFINE d == before(0)
               f == a[0]
    <3>1. d.at = -1 /\ d.paid \in BOOLEAN /\ d.at \in Int
      BY <2>2
    <3>2. f.state = "off" /\ f \in Following
      BY <2>1, <2>3
    <3> HIDE DEF d, f
    <3>3. CountsAlike(h[0], g[0], f, d)
      BY <2>1, <2>3, <3>1, <3>2 DEF CountsAlike
    <3> QED
      BY <3>3 DEF d, f
  <2> QED
    BY <1>1, <2>4
<1>8. ASSUME NEW m \in 0 .. n - 1, m \in Good
      PROVE  m + 1 \in Good
  <2>1. /\ m \in 0 .. n /\ m + 1 \in 1 .. n /\ m + 1 \in 0 .. n /\ (m + 1) - 1 = m /\ m + 1 # 0
        /\ m # 0 => m \in 1 .. n /\ m + 1 \in 2 .. n
    BY <1>1
  <2> SUFFICES ASSUME a[m + 1].dates = {}
               PROVE  CountsAlike(h[m + 1], g[m + 1], a[m + 1], before(m + 1))
    BY <2>1
  <2> DEFINE e == ev[m + 1]
             f == a[m]
             d == before(m)
  <2>2. e \in Read /\ e.kind \in WorkKinds /\ e.at \in Nat /\ before(m + 1) = e
    BY <1>1, <2>1 DEF Read
  <2>3. /\ h[m + 1] = spanStep(h[m], e) /\ g[m + 1] = workedStep(g[m], e)
        /\ a[m + 1] = anomalyStep(f, e)
    BY <1>5, <2>1
  <2>4. f.state = expectedState(e.kind) /\ f.dates = {}
    <3>1. a[m + 1].dates = IF f.state = expectedState(e.kind) THEN f.dates
                           ELSE f.dates \union {DayOf(e.at)}
      BY <2>3 DEF anomalyStep
    <3> HIDE DEF e, f
    <3> QED
      BY <3>1
  <2>5. CountsAlike(h[m], g[m], f, d)
    BY <1>8, <2>4
  <2>6. d.at < e.at /\ (e.kind = "break_end" => (d.paid <=> e.paid))
    <3>1. CASE m = 0
      <4>1. d.at = -1
        BY <3>1
      <4>2. f.state = "off"
        BY <1>5, <3>1
      <4>3. e.kind # "break_end"
        BY <2>4, <4>2 DEF expectedState
      <4> QED
        BY <2>2, <4>1, <4>3
    <3>2. CASE m # 0
      <4>1. d = ev[m] /\ m + 1 \in 2 .. n
        BY <2>1, <3>2
      <4>2. ev[(m + 1) - 1].at < ev[m + 1].at
            /\ (ev[m + 1].kind = "break_end" => (ev[(m + 1) - 1].paid <=> ev[m + 1].paid))
        BY <1>1, <4>1
      <4> QED
        BY <2>1, <4>1, <4>2
    <3> QED
      BY <3>1, <3>2
  <2> HIDE DEF e, f, d, before
  <2>7. CountsAlike(spanStep(h[m], e), workedStep(g[m], e), anomalyStep(f, e), e)
    BY <2>2, <2>4, <2>5, <2>6, LegalEventCountsAlike
  <2> QED
    BY <2>2, <2>3, <2>7
<1>9. n \in Good
  <2> HIDE DEF Good
  <2> QED
    BY <1>1, <1>7, <1>8, UpTo
<1>10. CountsAlike(h[n], g[n], a[n], before(n))
  BY <1>6, <1>9
<1>11. h[n].active = -1 /\ g[n].since = h[n].active /\ g[n].total = TimeIn(h[n].spans)
  <2> HIDE DEF before
  <2> QED
    BY <1>6, <1>10 DEF CountsAlike
<1> QED
  BY <1>2, <1>3, <1>11 DEF n

\* On a legal day on which nothing was voided the panel is right.
LEMMA PanelAgrees ==
  ASSUME LogInv, \A i \in DOMAIN log : ~log[i].void, ALegalToday
  PROVE  PanelIsRight
<1> DEFINE ev == effectiveEvents(log, now)
           W == StableByTime(applyCorrections(loadToday))
<1>1. LogIs(log, now) /\ IsLog(log) /\ now \in Nat
  BY DEF LogInv, LogIs
<1>2. /\ \A i \in DOMAIN log : Today * DayLen <= log[i].at /\ log[i].at <= now + DayLen
      /\ sequenceAnomalyDates(ev) = {}
      /\ \A i \in 2 .. Len(ev) :
           /\ ev[i - 1].at < ev[i].at
           /\ ev[i].kind = "break_end" => (ev[i - 1].paid <=> ev[i].paid)
  BY Zenon DEF ALegalToday
<1>3. InQuery(log, now) = DOMAIN log
  BY <1>2 DEF InQuery
<1>4. Loads(log, loadToday)
  BY <1>1, <1>2, TodayIsLoaded
<1>5. AreEffective(log, now, W)
  BY <1>1, <1>3, <1>4, PanelReadsTheEffective
<1>6. AreEffective(log, now, ev)
  BY <1>1, EffectiveEvents
<1> HIDE DEF ev, W
<1>7. /\ ev \in Seq(Read) /\ DOMAIN ev = 1 .. Len(ev) /\ Len(ev) \in Nat
      /\ \A k \in 1 .. Len(ev) : ev[k] \in Read /\ ev[k].at \in Int
  <2>1. ev \in Seq(Read)
    BY <1>6 DEF AreEffective, AreReads
  <2>2. \A x \in Read : x.at \in Int
    BY DEF Read
  <2> QED
    BY <2>1, <2>2
<1>8. InTime(ev)
  <2>1. ASSUME NEW j \in 1 .. Len(ev), NEW k \in 1 .. Len(ev), j < k
        PROVE  ev[j].at < ev[k].at
    <3>1. k \in 2 .. Len(ev) /\ k - 1 \in 1 .. Len(ev) /\ (j = k - 1 \/ j < k - 1)
      BY <1>7, <2>1
    <3>2. ev[k - 1].at < ev[k].at
      BY <1>2, <3>1
    <3>3. j < k - 1 => ev[j].at <= ev[k - 1].at
      BY <1>6, <1>7, <3>1 DEF AreEffective, ByTime
    <3> QED
      BY <1>7, <3>1, <3>2, <3>3
  <2> QED
    BY <1>7, <2>1 DEF InTime
<1>9. W = ev
  BY <1>5, <1>6, <1>8, EffectiveIsUnique
<1>10. ASSUME NEW k \in 1 .. Len(ev)
       PROVE  ev[k].kind \in WorkKinds
  <2>1. log \in Seq(Entry) /\ \A i \in DOMAIN log : log[i] \in Entry
    BY <1>1 DEF IsLog
  <2>2. CASE Uncorrected(log, now, ev[k].id) /\ ev[k] = AsRead(log, ev[k].id)
    <3>1. ev[k].id \in DOMAIN log /\ log[ev[k].id].kind # "correction"
      BY <2>2 DEF Uncorrected, RegularRead, InQuery
    <3>2. log[ev[k].id].kind \in WorkKinds
      BY <2>1, <3>1 DEF Entry
    <3>3. ev[k].kind = log[ev[k].id].kind
      BY <2>2 DEF AsRead
    <3> QED
      BY <3>2, <3>3
  <2>3. CASE \E c \in InQuery(log, now) :
               Deciding(log, now, c) /\ ~log[c].void /\ ev[k] = AsCorrected(log, c)
    <3>1. PICK c \in InQuery(log, now) :
               Deciding(log, now, c) /\ ~log[c].void /\ ev[k] = AsCorrected(log, c)
      BY <2>3
    <3>2. c \in DOMAIN log /\ log[c].kind = "correction"
      BY <3>1 DEF Deciding, InQuery
    <3>3. log[c].to \in WorkKinds
      BY <1>1, <3>1, <3>2 DEF LogIs
    <3> QED
      BY <3>1, <3>3 DEF AsCorrected
  <2> QED
    BY <1>6, <1>7, <2>2, <2>3 DEF AreEffective
<1>11. LegalDay(ev)
  BY <1>2, <1>7, <1>10 DEF LegalDay
<1>12. /\ spansSeen(ev).active < 0 /\ workedSeen(ev).since < 0
       /\ workedSeen(ev).total = TimeIn(spansSeen(ev).spans)
  BY <1>11, LegalDayCountsAlike
<1>13. calculateWorked(loadToday) = workedSeen(ev).total
  BY <1>9, <1>12 DEF calculateWorked, W
<1>14. workSpans(ev, now) = spansSeen(ev).spans
  BY <1>12 DEF workSpans
<1> QED
  BY <1>12, <1>13, <1>14 DEF PanelIsRight, ev

\* The browser's two copies of the rules agree with the server's: the editor of
\* a day accepts exactly the drafts that normalizeIntervals accepts, and the
\* panel counts what workSpans of the effective events add up to.
THEOREM BrowserAgrees == TimesheetSpec /\ EditorSpec => []WebAgreesWithServer
<1>1. LogInv /\ EditorInv => WebAgreesWithServer
  <2> SUFFICES ASSUME LogInv, EditorInv PROVE WebAgreesWithServer
    OBVIOUS
  <2>1. now \in Nat
    BY DEF LogInv
  <2>2. EditorAgreesWithServer
    BY <2>1, RulesAgree DEF EditorInv, EditorAgreesWithServer
  <2>3. (\A i \in DOMAIN log : ~log[i].void) => PanelCountsWhatServerCounts
    BY PanelAgrees DEF PanelCountsWhatServerCounts
  <2> QED
    BY <2>2, <2>3 DEF WebAgreesWithServer
<1> QED
  BY <1>1, LogIsInvariant, EditorIsTyped, PTL
=============================================================================
