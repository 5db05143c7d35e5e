-------------------------- MODULE BackOffice_proofs --------------------------
(***************************************************************************)
(* Theorems about Accounts, for every set of invitations and addresses,    *)
(* every lifetime of an invitation and every bound of the clock; and about *)
(* HrSuite, for any number of records of each kind, people and requests    *)
(* handled at once; and about Export, for a record of any length.          *)
(***************************************************************************)
EXTENDS Accounts, HrSuite, Export, FiniteSetTheorems, SequenceTheorems, TLAPS

-----------------------------------------------------------------------------
(* Accounts: the invariant.                                                *)

\* Invitations that may still be used, were they mailed and in time.
Pending(i) == InTable(i) /\ invitations[i].status = "pending"

Statuses == {"pending", "accepted", "revoked", "deleted"}
InHandRows ==
  [stage : {"stored", "mailed", "revoking"}, email : Emails, status : Statuses, sent : Int,
   expires : Int, read : Users, others : SUBSET Invitations]
DoneRows == [stage : {"done"}, email : Emails, status : Statuses, sent : Int, expires : Int]

\* The types, and of an update what its hook let through: only an administrator
\* may change the role, and nobody what the record says of the invitation.
AccountOK ==
  /\ clock \in Int /\ user \in Users /\ disturbed \in BOOLEAN
  /\ invitations = [i \in Invitations |-> invitations[i]]
  /\ \A i \in Invitations : invitations[i] \in InHandRows \union DoneRows \union {NotIssued}
  /\ edit.op = "update" =>
       /\ edit.original \in Users /\ edit.new \in Users
       /\ edit.by \in {"self", "manager", "admin"}
       /\ edit.by # "admin" => edit.new.role = edit.original.role
       /\ edit.new.status = edit.original.status /\ edit.new.expires = edit.original.expires
  /\ user.role = granted

\* An invitation is used once and then no longer pending; it is mailed after it
\* was stored.
UsesOK ==
  /\ uses \in [Invitations -> Nat]
  /\ mailed \subseteq Invitations
  /\ \A i \in Invitations :
       /\ uses[i] <= 1
       /\ uses[i] = 1 => ~At(i, "none") /\ invitations[i].status # "pending"
       /\ At(i, "none") \/ At(i, "stored") => i \notin mailed
       /\ ~At(i, "none") => invitations[i].sent <= clock
       /\ Issuing(i) => \A j \in invitations[i].others : j \in Invitations \ {i} /\ ~At(j, "none")

\* One request at most is in hand.
Alone ==
  /\ \A i, j \in Invitations : Issuing(i) /\ Issuing(j) => i = j
  /\ edit.op = "update" => /\ \A i \in Invitations : ~Issuing(i)
                           /\ edit.original = user

\* An invitation in hand is the last one, and its person as it was read; once
\* the others are being revoked, those that are pending still will be.
InHandOK ==
  \A i \in Invitations : Issuing(i) =>
    /\ invitations[i].status = "pending" /\ invitations[i].read = user
    /\ \A j \in Invitations : ~At(j, "none") => invitations[j].sent <= invitations[i].sent
    /\ ~At(i, "stored") => i \in mailed
    /\ At(i, "revoking") =>
         \A j \in Invitations \ {i} : Pending(j) => j \in invitations[i].others

\* Of those issued one at most is pending, the last one mailed.
OneLink ==
  \A j \in Invitations : Pending(j) /\ ~Issuing(j) =>
    /\ j \in mailed
    /\ \A k \in mailed : ~Issuing(k) => invitations[k].sent <= invitations[j].sent
    /\ \A k \in Invitations : Pending(k) /\ ~Issuing(k) => k = j

\* The person is invited as long as that one is in time, or its successor is
\* about to be; and nothing is pending once the person accepted.
StatusOK ==
  /\ user.status = "pending" =>
       \/ \E i \in Invitations : At(i, "revoking")
       \/ \E i \in mailed : /\ Pending(i) /\ ~Issuing(i)
                            /\ invitations[i].expires = user.expires
  /\ user.status = "accepted" => \A i \in Invitations : Pending(i) => Issuing(i)

Calm == Alone /\ InHandOK /\ OneLink /\ StatusOK

AccountInv == AccountOK /\ UsesOK /\ (~disturbed => Calm)

-----------------------------------------------------------------------------
(* Steps of a request that issues an invitation.                           *)

\* The stages of the rows.
LEMMA RowStages ==
  ASSUME AccountOK, NEW i \in Invitations
  PROVE  /\ At(i, "none") <=> invitations[i] = NotIssued
         /\ Issuing(i) <=> invitations[i] \in InHandRows
         /\ At(i, "done") <=> invitations[i] \in DoneRows
         /\ Pending(i) <=> ~At(i, "none") /\ invitations[i].status = "pending"
         /\ invitations[i].stage \in {"none", "stored", "mailed", "revoking", "done"}
         /\ ~At(i, "none") => invitations[i].sent \in Int
BY DEF AccountOK, InHandRows, DoneRows, NotIssued, At, Issuing, Pending, InTable

LEMMA StartKeeps ==
  ASSUME Lifetime \in Int, AccountInv, NEW i \in Invitations, NEW by, IssueStart(i, by)
  PROVE  AccountInv'
<1> DEFINE r == [stage |-> "stored", email |-> user.email, status |-> "pending", sent |-> clock,
                 expires |-> clock + Lifetime, read |-> user, others |-> {}]
<1>1. /\ At(i, "none")
      /\ invitations' = [invitations EXCEPT ![i] = r]
      /\ disturbed' = (disturbed \/ ~AllDone)
      /\ UNCHANGED <<clock, user, mailed, edit, uses, granted>>
  BY DEF IssueStart
<1>2. /\ clock \in Int /\ user \in Users
      /\ invitations = [j \in Invitations |-> invitations[j]]
  BY DEF AccountInv, AccountOK
<1>3. r \in InHandRows
  BY <1>2 DEF InHandRows, Statuses, Users
<1>4. /\ r.stage = "stored" /\ r.status = "pending" /\ r.sent = clock /\ r.read = user
      /\ r.others = {}
  OBVIOUS
<1> HIDE DEF r
<1>5. /\ invitations' = [j \in Invitations |-> invitations'[j]]
      /\ \A j \in Invitations : invitations'[j] = IF j = i THEN r ELSE invitations[j]
  BY <1>1, <1>2
<1>6. AccountOK'
  BY <1>1, <1>3, <1>5 DEF AccountInv, AccountOK
<1>7. UsesOK'
  <2>1. UsesOK
    BY DEF AccountInv
  <2>2. \A j \in Invitations \ {i} : /\ At(j, "none")' <=> At(j, "none")
                                     /\ At(j, "stored")' <=> At(j, "stored")
                                     /\ Issuing(j)' <=> Issuing(j)
                                     /\ invitations'[j] = invitations[j]
    BY <1>5 DEF At, Issuing
  <2>3. ~At(i, "none")' /\ invitations'[i].sent = clock /\ invitations'[i].others = {}
    BY <1>4, <1>5 DEF At
  <2>4. i \notin mailed /\ uses[i] # 1
    BY <1>1, <2>1 DEF UsesOK
  <2> QED
    BY <1>1, <1>2, <2>1, <2>2, <2>3, <2>4 DEF UsesOK
<1>8. ASSUME ~disturbed'
      PROVE  Calm'
  <2>1. ~disturbed /\ AllDone /\ Calm /\ UsesOK /\ AccountOK
    BY <1>1, <1>8 DEF AccountInv, AccountOK
  <2>2. \A j \in Invitations : ~Issuing(j)
    BY <2>1 DEF AllDone
  <2>3. /\ \A j \in Invitations : Issuing(j)' <=> j = i
        /\ \A j \in Invitations \ {i} : /\ Pending(j)' <=> Pending(j)
                                        /\ invitations'[j] = invitations[j]
    BY <1>4, <1>5, <2>2 DEF Issuing, Pending, InTable
  <2>4. Alone'
    BY <1>1, <2>1, <2>3 DEF Alone, AllDone
  <2>5. InHandOK'
    <3>1. \A j \in Invitations : ~At(j, "none")' => invitations'[j].sent <= clock
      BY <1>2, <1>4, <1>5, <2>1 DEF UsesOK, At
    <3> QED
      BY <1>1, <1>4, <1>5, <2>3, <3>1 DEF InHandOK, At
  <2>6. OneLink'
    <3>1. i \notin mailed
      BY <1>1, <2>1 DEF UsesOK
    <3> QED
      BY <1>1, <2>1, <2>2, <2>3, <3>1 DEF Calm, OneLink, UsesOK
  <2>7. StatusOK'
    <3>1. ~ Pending(i)
      BY <1>1 DEF Pending, InTable, At
    <3>2. \A j \in Invitations : ~ At(j, "revoking")
      BY <2>2 DEF At, Issuing
    <3> QED
      BY <1>1, <2>1, <2>2, <2>3, <3>1, <3>2 DEF Calm, StatusOK, UsesOK
  <2> QED
    BY <2>4, <2>5, <2>6, <2>7 DEF Calm
<1> QED
  BY <1>6, <1>7, <1>8 DEF AccountInv

\* A step that changes one row in hand and nothing of the account.
LEMMA StageKeeps ==
  ASSUME AccountInv, NEW i \in Invitations, Issuing(i), NEW r \in InHandRows \union DoneRows,
         invitations' = [invitations EXCEPT ![i] = r],
         r.sent = invitations[i].sent, r.status # "pending" \/ r.status = invitations[i].status,
         r.stage # "done" => \A j \in r.others : j \in Invitations \ {i} /\ ~At(j, "none"),
         r.stage = "stored" => i \notin mailed',
         mailed' \in {mailed, mailed \union {i}},
         UNCHANGED <<clock, user, edit, uses, granted>>,
         disturbed' \in {disturbed, TRUE},
         ~disturbed' /\ Calm => Calm'
  PROVE  AccountInv'
<1>1. /\ clock \in Int /\ user \in Users
      /\ invitations = [j \in Invitations |-> invitations[j]]
  BY DEF AccountInv, AccountOK
<1>2. /\ invitations' = [j \in Invitations |-> invitations'[j]]
      /\ \A j \in Invitations : invitations'[j] = IF j = i THEN r ELSE invitations[j]
  BY <1>1
<1>3. AccountOK'
  BY <1>1, <1>2 DEF AccountInv, AccountOK
<1>4. UsesOK'
  <2>1. /\ mailed' \subseteq Invitations
        /\ \A j \in Invitations \ {i} : j \in mailed' => j \in mailed
    BY DEF AccountInv, UsesOK
  <2>2. r.stage \in {"stored", "mailed", "revoking", "done"} /\ ~At(i, "none")
    BY DEF InHandRows, DoneRows, Issuing, At
  <2>3. \A j \in Invitations \ {i} :
          /\ At(j, "none")' <=> At(j, "none")
          /\ At(j, "stored")' <=> At(j, "stored")
          /\ Issuing(j)' <=> Issuing(j)
    BY <1>2 DEF At, Issuing
  <2>4. /\ At(i, "none")' <=> FALSE
        /\ At(i, "stored")' <=> r.stage = "stored"
        /\ Issuing(i)' <=> r.stage # "done"
    BY <1>2, <2>2 DEF At, Issuing
  <2> QED
    BY <1>2, <2>1, <2>2, <2>3, <2>4 DEF AccountInv, UsesOK
<1>5. ~disturbed' => Calm'
  BY DEF AccountInv, AccountOK
<1> QED
  BY <1>3, <1>4, <1>5 DEF AccountInv

LEMMA MailKeeps ==
  ASSUME AccountInv, NEW i \in Invitations, IssueMail(i)
  PROVE  AccountInv'
<1> DEFINE r == [invitations[i] EXCEPT !.stage = "mailed"]
<1>1. /\ At(i, "stored")
      /\ invitations' = [invitations EXCEPT ![i].stage = "mailed"]
      /\ mailed' = mailed \union {i}
      /\ UNCHANGED <<clock, user, edit, uses, granted, disturbed>>
  BY DEF IssueMail, Moves
<1>2. AccountOK /\ UsesOK
  BY DEF AccountInv
<1>3. invitations[i] \in InHandRows /\ Issuing(i)
  BY <1>1, <1>2, RowStages DEF At, Issuing
<1>4. /\ r \in InHandRows /\ r.stage = "mailed"
      /\ r.sent = invitations[i].sent /\ r.status = invitations[i].status
      /\ r.others = invitations[i].others /\ r.read = invitations[i].read
  BY <1>3 DEF InHandRows
<1>5. invitations' = [invitations EXCEPT ![i] = r]
  BY <1>1
<1> HIDE DEF r
<1>6. \A j \in r.others : j \in Invitations \ {i} /\ ~At(j, "none")
  BY <1>2, <1>3, <1>4 DEF UsesOK
<1>7. \A j \in Invitations : invitations'[j] = IF j = i THEN r ELSE invitations[j]
  BY <1>2, <1>5 DEF AccountOK
<1>8. ASSUME Calm
      PROVE  Calm'
  <2>1. \A j \in Invitations : /\ Issuing(j)' <=> Issuing(j)
                               /\ Pending(j)' <=> Pending(j)
                               /\ invitations'[j].sent = invitations[j].sent
                               /\ At(j, "none")' <=> At(j, "none")
                               /\ j # i => invitations'[j] = invitations[j]
    BY <1>1, <1>4, <1>7 DEF Issuing, Pending, InTable, At
  <2>2. Alone'
    BY <1>1, <1>8, <2>1 DEF Calm, Alone
  <2>3. InHandOK'
    <3>1. \A j \in Invitations : Issuing(j) => j = i
      BY <1>3, <1>8 DEF Calm, Alone
    <3> QED
      BY <1>1, <1>4, <1>7, <1>8, <2>1, <3>1 DEF Calm, InHandOK, At
  <2>4. OneLink'
    <3>1. mailed \subseteq Invitations
      BY <1>2 DEF UsesOK
    <3> QED
      BY <1>1, <1>3, <1>8, <2>1, <3>1 DEF Calm, OneLink
  <2>5. StatusOK'
    <3>1. \A j \in Invitations : At(j, "revoking") => j # i
      BY <1>1 DEF At
    <3>2. \A j \in Invitations : At(j, "revoking") => At(j, "revoking")'
      BY <2>1, <3>1 DEF At
    <3>3. /\ mailed \subseteq Invitations /\ mailed \subseteq mailed'
          /\ \A j \in mailed : ~Issuing(j) => invitations'[j] = invitations[j]
      BY <1>1, <1>2, <1>3, <2>1 DEF UsesOK
    <3> QED
      BY <1>1, <1>2, <1>3, <1>8, <2>1, <3>1, <3>2, <3>3 DEF Calm, StatusOK
  <2> QED
    BY <2>2, <2>3, <2>4, <2>5 DEF Calm
<1> QED
  BY <1>1, <1>3, <1>4, <1>5, <1>6, <1>8, StageKeeps

LEMMA MailFailureKeeps ==
  ASSUME AccountInv, NEW i \in Invitations, NEW outcome, IssueMailFails(i, outcome)
  PROVE  AccountInv'
<1> DEFINE r == [stage |-> "done", email |-> invitations[i].email, status |-> outcome,
                 sent |-> invitations[i].sent, expires |-> invitations[i].expires]
<1>1. /\ At(i, "stored") /\ outcome \in {"deleted", "revoked"}
      /\ invitations' = [invitations EXCEPT ![i] = r]
      /\ UNCHANGED <<clock, user, mailed, edit, uses, granted, disturbed>>
  BY DEF IssueMailFails, Ends
<1>2. AccountOK /\ UsesOK
  BY DEF AccountInv
<1>3. invitations[i] \in InHandRows /\ Issuing(i)
  BY <1>1, <1>2, RowStages DEF At, Issuing
<1>4. /\ r \in DoneRows /\ r.stage = "done"
      /\ r.sent = invitations[i].sent /\ r.status = outcome
  BY <1>1, <1>3 DEF InHandRows, DoneRows, Statuses
<1> HIDE DEF r
<1>5. \A j \in Invitations : invitations'[j] = IF j = i THEN r ELSE invitations[j]
  BY <1>1, <1>2 DEF AccountOK
<1>6. i \notin mailed
  BY <1>1, <1>2 DEF UsesOK
<1>7. ASSUME Calm
      PROVE  Calm'
  <2>1. \A j \in Invitations \ {i} : /\ Issuing(j)' <=> Issuing(j)
                                     /\ Pending(j)' <=> Pending(j)
                                     /\ invitations'[j] = invitations[j]
    BY <1>5 DEF Issuing, Pending, InTable
  <2>2. ~Issuing(i)' /\ ~Pending(i)'
    BY <1>1, <1>4, <1>5 DEF Issuing, Pending, InTable
  <2>3. \A j \in Invitations \ {i} : ~Issuing(j)
    BY <1>3, <1>7 DEF Calm, Alone
  <2>4. Alone' /\ InHandOK'
    BY <1>1, <1>7, <2>1, <2>2, <2>3 DEF Calm, Alone, InHandOK
  <2>5. OneLink'
    BY <1>1, <1>2, <1>6, <1>7, <2>1, <2>2, <2>3 DEF Calm, OneLink, UsesOK
  <2>6. StatusOK'
    <3>1. \A j \in Invitations : ~At(j, "revoking")
      BY <1>1, <2>3 DEF At, Issuing
    <3> QED
      BY <1>1, <1>2, <1>6, <1>7, <2>1, <2>2, <2>3, <3>1 DEF Calm, StatusOK, UsesOK
  <2> QED
    BY <2>4, <2>5, <2>6 DEF Calm
<1> QED
  BY <1>1, <1>3, <1>4, <1>7, StageKeeps

LEMMA FindKeeps ==
  ASSUME AccountInv, NEW i \in Invitations, IssueFind(i)
  PROVE  AccountInv'
<1> DEFINE o == {j \in Invitations \ {i} : InTable(j) /\ invitations[j].status = "pending"}
           r == [invitations[i] EXCEPT !.stage = "revoking", !.others = o]
<1>1. /\ At(i, "mailed")
      /\ invitations' = [invitations EXCEPT ![i].stage = "revoking", ![i].others = o]
      /\ UNCHANGED <<clock, user, mailed, edit, uses, granted, disturbed>>
  BY DEF IssueFind
<1>2. AccountOK /\ UsesOK
  BY DEF AccountInv
<1>3. invitations[i] \in InHandRows /\ Issuing(i)
  BY <1>1, <1>2, RowStages DEF At, Issuing
<1>4. /\ o \subseteq Invitations \ {i} /\ \A j \in o : ~At(j, "none")
      /\ \A j \in Invitations \ {i} : Pending(j) => j \in o
  BY DEF Pending, InTable, At
<1> HIDE DEF o
<1>5. /\ r \in InHandRows /\ r.stage = "revoking" /\ r.others = o
      /\ r.sent = invitations[i].sent /\ r.status = invitations[i].status
      /\ r.read = invitations[i].read
  BY <1>3, <1>4 DEF InHandRows
<1>6. invitations' = [invitations EXCEPT ![i] = r]
  BY <1>1
<1> HIDE DEF r
<1>7. \A j \in Invitations : invitations'[j] = IF j = i THEN r ELSE invitations[j]
  BY <1>2, <1>6 DEF AccountOK
<1>8. ASSUME Calm
      PROVE  Calm'
  <2>1. \A j \in Invitations : /\ Issuing(j)' <=> Issuing(j)
                               /\ Pending(j)' <=> Pending(j)
                               /\ invitations'[j].sent = invitations[j].sent
                               /\ At(j, "none")' <=> At(j, "none")
                               /\ j # i => invitations'[j] = invitations[j]
    BY <1>1, <1>5, <1>7 DEF Issuing, Pending, InTable, At
  <2>2. Alone'
    BY <1>1, <1>8, <2>1 DEF Calm, Alone
  <2>3. InHandOK'
    <3>1. \A j \in Invitations : Issuing(j) => j = i
      BY <1>3, <1>8 DEF Calm, Alone
    <3>2. i \in mailed
      BY <1>1, <1>3, <1>8 DEF Calm, InHandOK, At
    <3>3. /\ invitations[i].status = "pending" /\ invitations[i].read = user
          /\ \A j \in Invitations : ~At(j, "none") => invitations[j].sent <= invitations[i].sent
      BY <1>3, <1>8 DEF Calm, InHandOK
    <3>4. /\ invitations'[i].status = "pending" /\ invitations'[i].read = user'
          /\ i \in mailed' /\ invitations'[i].others = o
      BY <1>1, <1>5, <1>7, <3>2, <3>3
    <3>5. \A j \in Invitations :
            ~At(j, "none")' => invitations'[j].sent <= invitations'[i].sent
      BY <2>1, <3>3
    <3>6. \A j \in Invitations \ {i} : Pending(j)' => j \in invitations'[i].others
      BY <1>4, <2>1, <3>4
    <3> QED
      BY <2>1, <3>1, <3>4, <3>5, <3>6 DEF InHandOK
  <2>4. OneLink'
    <3>1. mailed \subseteq Invitations
      BY <1>2 DEF UsesOK
    <3> QED
      BY <1>1, <1>3, <1>8, <2>1, <3>1 DEF Calm, OneLink
  <2>5. StatusOK'
    <3>1. At(i, "revoking")'
      BY <1>5, <1>7 DEF At
    <3> QED
      BY <1>1, <1>3, <1>8, <2>1, <3>1 DEF Calm, StatusOK, UsesOK
  <2> QED
    BY <2>2, <2>3, <2>4, <2>5 DEF Calm
<1> QED
  BY <1>1, <1>3, <1>4, <1>5, <1>6, <1>8, StageKeeps

LEMMA FailureKeeps ==
  ASSUME AccountInv, NEW i \in Invitations, IssueFails(i)
  PROVE  AccountInv'
<1> DEFINE r == [stage |-> "done", email |-> invitations[i].email,
                 status |-> invitations[i].status, sent |-> invitations[i].sent,
                 expires |-> invitations[i].expires]
<1>1. /\ invitations[i].stage \in {"mailed", "revoking"}
      /\ invitations' = [invitations EXCEPT ![i] = r]
      /\ disturbed' = TRUE
      /\ UNCHANGED <<clock, user, mailed, edit, uses, granted>>
  BY DEF IssueFails, Ends
<1>2. invitations[i] \in InHandRows /\ Issuing(i)
  BY <1>1, RowStages DEF Issuing, AccountInv
<1>3. /\ r \in DoneRows /\ r.stage = "done"
      /\ r.sent = invitations[i].sent /\ r.status = invitations[i].status
  BY <1>1, <1>2 DEF InHandRows, DoneRows
<1> HIDE DEF r
<1> QED
  BY <1>1, <1>2, <1>3, StageKeeps

LEMMA RevokeKeeps ==
  ASSUME AccountInv, NEW i \in Invitations, NEW j \in Invitations, IssueRevoke(i, j)
  PROVE  AccountInv'
<1>1. AccountOK /\ UsesOK
  BY DEF AccountInv
<1>2. /\ At(i, "revoking") /\ j \in invitations[i].others
      /\ UNCHANGED <<clock, user, mailed, edit, uses, granted, disturbed>>
  BY DEF IssueRevoke
<1>3. invitations[i] \in InHandRows /\ Issuing(i)
  BY <1>1, <1>2, RowStages DEF At, Issuing
<1>4. j # i /\ ~At(j, "none")
  BY <1>1, <1>2, <1>3 DEF UsesOK
<1> DEFINE r == [invitations[i] EXCEPT !.others = @ \ {j}]
           s == [invitations[j] EXCEPT !.status = IF @ = "deleted" THEN @ ELSE "revoked"]
<1>5. \A k \in Invitations :
        invitations'[k] = IF k = i THEN r ELSE IF k = j THEN s ELSE invitations[k]
  BY <1>1, <1>4 DEF IssueRevoke, AccountOK
<1>6. invitations' = [k \in Invitations |-> invitations'[k]]
  BY <1>1 DEF IssueRevoke, AccountOK
<1>7. /\ r \in InHandRows /\ r.stage = "revoking" /\ r.others = invitations[i].others \ {j}
      /\ r.sent = invitations[i].sent /\ r.status = invitations[i].status
      /\ r.expires = invitations[i].expires /\ r.read = invitations[i].read
  BY <1>2, <1>3 DEF InHandRows, At
<1>8. invitations[j] \in InHandRows \union DoneRows
  BY <1>1, <1>4, RowStages DEF AccountOK
<1>9. /\ s \in InHandRows \union DoneRows /\ s.status \in {"deleted", "revoked"}
      /\ s.stage = invitations[j].stage
      /\ s.sent = invitations[j].sent /\ s.expires = invitations[j].expires
      /\ invitations[j] \in InHandRows => s.others = invitations[j].others
  BY <1>8 DEF InHandRows, DoneRows, Statuses
<1> HIDE DEF r, s
<1>10. AccountOK'
  BY <1>1, <1>2, <1>5, <1>6, <1>7, <1>9 DEF AccountOK
<1>11. \A k \in Invitations : /\ Issuing(k)' <=> Issuing(k)
                              /\ invitations'[k].stage = invitations[k].stage
                              /\ invitations'[k].sent = invitations[k].sent
  BY <1>2, <1>5, <1>7, <1>9 DEF Issuing, At
<1>12. \A k \in Invitations \ {j} : invitations'[k].status = invitations[k].status
  BY <1>5, <1>7
<1>13. \A k \in Invitations : Issuing(k) => invitations'[k].others \subseteq invitations[k].others
  BY <1>1, <1>5, <1>7, <1>9, RowStages
<1>14. UsesOK'
  <2>1. invitations'[j].status # "pending"
    BY <1>4, <1>5, <1>9
  <2>2. \A k \in Invitations : /\ At(k, "none")' <=> At(k, "none")
                               /\ At(k, "stored")' <=> At(k, "stored")
    BY <1>11 DEF At
  <2> QED
    BY <1>1, <1>2, <1>11, <1>12, <1>13, <2>1, <2>2 DEF UsesOK
<1>15. ASSUME Calm
       PROVE  Calm'
  <2>1. \A k \in Invitations : Issuing(k) => k = i
    BY <1>3, <1>15 DEF Calm, Alone
  <2>2. /\ \A k \in Invitations : /\ At(k, "none")' <=> At(k, "none")
                                  /\ At(k, "stored")' <=> At(k, "stored")
                                  /\ At(k, "revoking")' <=> At(k, "revoking")
        /\ \A k \in Invitations \ {j} : Pending(k)' <=> Pending(k)
        /\ ~Pending(j)'
    BY <1>4, <1>5, <1>9, <1>11, <1>12 DEF At, Pending, InTable
  <2>3. Alone'
    BY <1>2, <1>11, <1>15 DEF Calm, Alone
  <2>4. InHandOK'
    <3>1. /\ invitations'[i].status = "pending" /\ invitations'[i].read = user
          /\ i \in mailed
          /\ \A k \in Invitations : ~At(k, "none") => invitations[k].sent <= invitations[i].sent
          /\ \A k \in Invitations \ {i} : Pending(k) => k \in invitations[i].others
      BY <1>2, <1>3, <1>5, <1>7, <1>15 DEF Calm, InHandOK, At
    <3>2. \A k \in Invitations \ {i} : Pending(k)' => k \in invitations'[i].others
      BY <1>5, <1>7, <2>2, <3>1
    <3> QED
      BY <1>2, <1>11, <2>1, <2>2, <3>1, <3>2 DEF InHandOK
  <2>5. OneLink'
    <3>1. mailed \subseteq Invitations
      BY <1>1 DEF UsesOK
    <3> QED
      BY <1>2, <1>11, <1>15, <2>2, <3>1 DEF Calm, OneLink
  <2>6. StatusOK'
    BY <1>2, <1>11, <1>15, <2>2 DEF Calm, StatusOK
  <2> QED
    BY <2>3, <2>4, <2>5, <2>6 DEF Calm
<1> QED
  BY <1>2, <1>10, <1>14, <1>15 DEF AccountInv

\* What a save leaves of a person whose record did not change meanwhile is
\* what was to be saved; and a column that was not to change stays.
LEMMA SavedUsers ==
  ASSUME NEW stored \in Users, NEW original \in Users, NEW new \in Users
  PROVE  /\ Saved(stored, original, new) \in Users
         /\ stored = original => Saved(stored, original, new) = new
         /\ Saved(stored, original, new).role =
              IF new.role # original.role THEN new.role ELSE stored.role
<1> DEFINE v == Saved(stored, original, new)
           F == {"role", "email", "active", "status", "sent", "expires", "password"}
<1>1. /\ DOMAIN stored = F /\ stored = [f \in F |-> stored[f]]
      /\ DOMAIN new = F /\ new = [f \in F |-> new[f]]
  BY DEF Users
<1>2. v = [f \in F |-> IF new[f] # original[f] THEN new[f] ELSE stored[f]]
  BY <1>1 DEF Saved
<1>3. v.role = IF new.role # original.role THEN new.role ELSE stored.role
  BY <1>2
<1>4. ASSUME stored = original PROVE v = new
  <2>1. \A f \in F : (IF new[f] # original[f] THEN new[f] ELSE stored[f]) = new[f]
    BY <1>4
  <2>2. v = [f \in F |-> new[f]]
    BY <1>2, <2>1
  <2> QED
    BY <1>1, <2>2
<1>5. v \in Users
  <2>1. v = [role |-> v["role"], email |-> v["email"], active |-> v["active"],
             status |-> v["status"], sent |-> v["sent"], expires |-> v["expires"],
             password |-> v["password"]]
    BY <1>2
  <2>2. /\ v["role"] \in Roles /\ v["email"] \in Emails /\ v["active"] \in BOOLEAN
        /\ v["status"] \in {"none", "pending", "accepted"} /\ v["sent"] \in Int
        /\ v["expires"] \in Int /\ v["password"] \in Invitations \union {"none"}
    BY <1>2 DEF Users
  <2> HIDE DEF v
  <2> QED
    BY <2>1, <2>2 DEF Users
<1> QED
  BY <1>3, <1>4, <1>5

LEMMA FinishKeeps ==
  ASSUME AccountInv, NEW i \in Invitations, IssueFinish(i)
  PROVE  AccountInv'
<1> DEFINE read == invitations[i].read
           new  == [read EXCEPT !.status = "pending", !.sent = invitations[i].sent,
                                !.expires = invitations[i].expires]
           r == [stage |-> "done", email |-> invitations[i].email,
                 status |-> invitations[i].status, sent |-> invitations[i].sent,
                 expires |-> invitations[i].expires]
<1>1. /\ At(i, "revoking") /\ invitations[i].others = {}
      /\ user' = Saved(user, read, new)
      /\ invitations' = [invitations EXCEPT ![i] = r]
      /\ UNCHANGED <<clock, mailed, edit, uses, granted, disturbed>>
  BY DEF IssueFinish, Ends
<1>2. AccountOK /\ UsesOK
  BY DEF AccountInv
<1>3. invitations[i] \in InHandRows /\ Issuing(i)
  BY <1>1, <1>2, RowStages DEF At, Issuing
<1>4. /\ r \in DoneRows /\ r.stage = "done" /\ r.status = invitations[i].status
      /\ r.sent = invitations[i].sent /\ r.expires = invitations[i].expires
  BY <1>3 DEF InHandRows, DoneRows
<1>5. read \in Users /\ invitations[i].sent \in Int /\ invitations[i].expires \in Int
  BY <1>3 DEF InHandRows
<1> HIDE DEF r, read
<1>6. /\ new \in Users /\ new.role = read.role /\ new.status = "pending"
      /\ new.expires = invitations[i].expires
  BY <1>5 DEF Users
<1> HIDE DEF new
<1>7. user \in Users
  BY <1>2 DEF AccountOK
<1>8. user' \in Users /\ user'.role = user.role /\ (user = read => user' = new)
  BY <1>1, <1>5, <1>6, <1>7, SavedUsers
<1>9. \A j \in Invitations : invitations'[j] = IF j = i THEN r ELSE invitations[j]
  BY <1>1, <1>2 DEF AccountOK
<1>10. invitations' = [j \in Invitations |-> invitations'[j]]
  BY <1>1, <1>2 DEF AccountOK
<1>11. AccountOK'
  BY <1>1, <1>2, <1>4, <1>8, <1>9, <1>10 DEF AccountOK
<1>12. /\ \A j \in Invitations \ {i} : /\ invitations'[j] = invitations[j]
                                       /\ At(j, "none")' <=> At(j, "none")
                                       /\ At(j, "stored")' <=> At(j, "stored")
                                       /\ Issuing(j)' <=> Issuing(j)
                                       /\ Pending(j)' <=> Pending(j)
       /\ ~At(i, "none")' /\ ~At(i, "none") /\ ~At(i, "stored")' /\ ~Issuing(i)'
       /\ invitations'[i].sent = invitations[i].sent
       /\ invitations'[i].status = invitations[i].status
       /\ invitations'[i].expires = invitations[i].expires
       /\ Pending(i)' <=> invitations[i].status = "pending"
  BY <1>1, <1>4, <1>9 DEF At, Issuing, Pending, InTable
<1>13. UsesOK'
  BY <1>1, <1>2, <1>12 DEF UsesOK
<1>14. ASSUME Calm
       PROVE  Calm'
  <2>1. \A j \in Invitations \ {i} : ~Issuing(j) /\ ~Pending(j)
    BY <1>1, <1>3, <1>14 DEF Calm, Alone, InHandOK
  <2>2. /\ invitations[i].status = "pending" /\ read = user /\ i \in mailed
        /\ \A j \in Invitations : ~At(j, "none") => invitations[j].sent <= invitations[i].sent
    BY <1>1, <1>3, <1>14 DEF Calm, InHandOK, At, read
  <2>3. Alone' /\ InHandOK'
    BY <1>1, <1>3, <1>12, <1>14, <2>1 DEF Calm, Alone, InHandOK
  <2>4. OneLink'
    <3>1. \A k \in mailed : k \in Invitations /\ ~At(k, "none")
      BY <1>2 DEF UsesOK
    <3>2. \A k \in mailed : invitations'[k].sent <= invitations'[i].sent
      BY <1>12, <2>2, <3>1
    <3> QED
      BY <1>1, <1>12, <2>1, <2>2, <3>2 DEF OneLink
  <2>5. StatusOK'
    <3>1. user'.status = "pending" /\ user'.expires = invitations[i].expires
      BY <1>6, <1>8, <2>2
    <3> QED
      BY <1>1, <1>12, <2>2, <3>1 DEF StatusOK
  <2> QED
    BY <2>3, <2>4, <2>5 DEF Calm
<1> QED
  BY <1>1, <1>11, <1>13, <1>14 DEF AccountInv

-----------------------------------------------------------------------------
(* The other steps.                                                        *)

LEMMA AcceptKeeps ==
  ASSUME AccountInv, NEW i \in Invitations, acceptInvitation(i)
  PROVE  AccountInv'
<1>1. AccountOK /\ UsesOK
  BY DEF AccountInv
<1>2. /\ i \in mailed /\ Pending(i)
      /\ user' = [user EXCEPT !.password = i, !.status = "accepted"]
      /\ uses' = [uses EXCEPT ![i] = @ + 1]
      /\ disturbed' = (disturbed \/ ~AllDone)
      /\ UNCHANGED <<clock, mailed, edit, granted>>
  BY DEF acceptInvitation, invitationDetails, Live, Pending
<1>3. invitations' = [j \in Invitations |->
        IF j = i THEN [invitations[j] EXCEPT !.status = "accepted"]
        ELSE IF Pending(j) THEN [invitations[j] EXCEPT !.status = "revoked"]
        ELSE invitations[j]]
  BY DEF acceptInvitation, Pending
<1>4. user \in Users
  BY <1>1 DEF AccountOK
<1>5. user' \in Users /\ user'.role = user.role /\ user'.status = "accepted"
  BY <1>2, <1>4 DEF Users
<1>6. ~At(i, "none") /\ \A j \in Invitations : Pending(j) => ~At(j, "none")
  BY <1>2 DEF Pending, InTable, At
<1>7. \A j \in Invitations : ~At(j, "none") => invitations[j] \in InHandRows \union DoneRows
  BY <1>1, RowStages DEF AccountOK
<1>8. ASSUME NEW j \in Invitations
      PROVE  /\ invitations'[j] \in InHandRows \union DoneRows \union {NotIssued}
             /\ invitations'[j].stage = invitations[j].stage
             /\ ~At(j, "none") => invitations'[j].sent = invitations[j].sent
             /\ Issuing(j) => invitations'[j].others = invitations[j].others
             /\ ~Pending(j) /\ j # i => invitations'[j] = invitations[j]
             /\ Pending(j) \/ j = i => invitations'[j].status # "pending"
  <2>1. CASE j = i \/ Pending(j)
    <3> DEFINE status == IF j = i THEN "accepted" ELSE "revoked"
    <3>1. /\ invitations'[j] = [invitations[j] EXCEPT !.status = status]
          /\ status \in Statuses \ {"pending"}
      BY <1>3, <2>1 DEF Statuses
    <3> HIDE DEF status
    <3>2. invitations[j] \in InHandRows \union DoneRows
      BY <1>6, <1>7, <2>1
    <3> QED
      BY <3>1, <3>2, <2>1 DEF InHandRows, DoneRows, Issuing
  <2>2. CASE ~(j = i \/ Pending(j))
    <3>1. invitations'[j] = invitations[j]
      BY <1>3, <2>2
    <3> QED
      BY <1>1, <2>2, <3>1 DEF AccountOK
  <2> QED
    BY <2>1, <2>2
<1>9. \A j \in Invitations : ~Pending(j)'
  BY <1>8, <1>2 DEF Pending, InTable
<1>10. \A j \in Invitations : /\ At(j, "none")' <=> At(j, "none")
                              /\ At(j, "stored")' <=> At(j, "stored")
                              /\ Issuing(j)' <=> Issuing(j)
  BY <1>8 DEF At, Issuing
<1>11. invitations' = [j \in Invitations |-> invitations'[j]]
  BY <1>3
<1>12. AccountOK'
  BY <1>1, <1>2, <1>5, <1>8, <1>11 DEF AccountOK
<1>13. UsesOK'
  <2>1. uses[i] = 0
    BY <1>1, <1>2 DEF UsesOK, Pending
  <2>2. /\ uses' \in [Invitations -> Nat]
        /\ \A j \in Invitations : uses'[j] = IF j = i THEN 1 ELSE uses[j]
    BY <1>1, <1>2, <2>1 DEF UsesOK
  <2>3. \A j \in Invitations : uses'[j] = 1 => ~At(j, "none") /\ invitations'[j].status # "pending"
    BY <1>1, <1>6, <1>8, <2>2 DEF UsesOK
  <2>4. \A j \in Invitations : Issuing(j) =>
          \A k \in invitations[j].others : k \in Invitations \ {j} /\ ~At(k, "none")
    BY <1>1 DEF UsesOK
  <2>5. \A j \in Invitations : Issuing(j)' =>
          \A k \in invitations'[j].others : k \in Invitations \ {j} /\ ~At(k, "none")'
    BY <1>8, <1>10, <2>4
  <2>6. \A j \in Invitations : ~At(j, "none")' => invitations'[j].sent <= clock'
    BY <1>1, <1>2, <1>8, <1>10 DEF UsesOK
  <2>7. \A j \in Invitations : uses'[j] <= 1
    BY <1>1, <2>2 DEF UsesOK
  <2> QED
    BY <1>1, <1>2, <1>10, <2>2, <2>3, <2>5, <2>6, <2>7 DEF UsesOK
<1>14. ASSUME ~disturbed'
       PROVE  Calm'
  <2>1. \A j \in Invitations : ~Issuing(j)
    BY <1>1, <1>2, <1>14 DEF AllDone, AccountOK
  <2>2. edit'.op # "update"
    BY <1>1, <1>2, <1>14 DEF AllDone, AccountOK
  <2>3. Alone' /\ InHandOK'
    BY <1>10, <2>1, <2>2 DEF Alone, InHandOK
  <2>4. OneLink'
    BY <1>9 DEF OneLink
  <2>5. StatusOK'
    BY <1>5, <1>9 DEF StatusOK
  <2> QED
    BY <2>3, <2>4, <2>5 DEF Calm
<1> QED
  BY <1>12, <1>13, <1>14 DEF AccountInv

\* What an update lets through.
LEMMA UpdateReadKeeps ==
  ASSUME AccountInv, NEW by \in {"self", "manager", "admin"},
         NEW role \in {"manager", "employee"}, NEW email \in Emails, NEW on \in BOOLEAN,
         UserUpdateRead(by, role, email, on)
  PROVE  AccountInv'
<1>1. AccountOK /\ UsesOK
  BY DEF AccountInv
<1> DEFINE new == CASE by = "self" -> [user EXCEPT !.email = email]
                    [] by = "manager" -> [user EXCEPT !.role = "employee", !.email = email,
                                                      !.active = on]
                    [] by = "admin" -> [user EXCEPT !.role = role, !.email = email,
                                                    !.active = on]
<1>2. /\ edit' = [op |-> "update", by |-> by, original |-> user, new |-> new]
      /\ disturbed' = (disturbed \/ ~AllDone)
      /\ by = "manager" => user.role = "employee"
      /\ UNCHANGED <<clock, user, invitations, mailed, uses, granted>>
  BY DEF UserUpdateRead
<1>3. user \in Users
  BY <1>1 DEF AccountOK
<1>4. /\ new \in Users /\ (by # "admin" => new.role = user.role)
      /\ new.status = user.status /\ new.expires = user.expires
  <2>1. CASE by = "self"
    BY <1>3, <2>1 DEF Users
  <2>2. CASE by = "manager"
    BY <1>2, <1>3, <2>2 DEF Users, Roles
  <2>3. CASE by = "admin"
    BY <1>3, <2>3 DEF Users, Roles
  <2> QED
    BY <2>1, <2>2, <2>3
<1> HIDE DEF new
<1>5. edit'.original = user /\ edit'.new = new /\ edit'.by = by
  BY <1>2
<1>6. AccountOK'
  BY <1>1, <1>2, <1>3, <1>4, <1>5 DEF AccountOK
<1>7. /\ \A i \in Invitations : /\ Pending(i)' <=> Pending(i)
                                /\ Issuing(i)' <=> Issuing(i)
      /\ \A i \in Invitations, stage \in {"none", "stored", "revoking"} :
           At(i, stage)' <=> At(i, stage)
  BY <1>2 DEF Pending, InTable, Issuing, At
<1>8. UsesOK'
  BY <1>1, <1>2 DEF UsesOK, Issuing, At
<1>9. ASSUME ~disturbed'
      PROVE  Calm'
  <2>1. \A i \in Invitations : ~Issuing(i)
    BY <1>1, <1>2, <1>9 DEF AllDone, AccountOK
  <2>2. Calm
    BY <1>1, <1>2, <1>9 DEF AccountInv, AccountOK
  <2>3. Alone' /\ InHandOK'
    BY <1>2, <1>5, <1>7, <2>1 DEF Alone, InHandOK
  <2>4. OneLink' /\ StatusOK'
    BY <1>2, <2>2 DEF Calm, OneLink, StatusOK, Pending, InTable, Issuing, At
  <2> QED
    BY <2>3, <2>4 DEF Calm
<1> QED
  BY <1>6, <1>8, <1>9 DEF AccountInv

\* Its save stores that, and a role only when an administrator changed it.
LEMMA UpdateSaveKeeps ==
  ASSUME AccountInv, UserUpdateSave
  PROVE  AccountInv'
<1>1. AccountOK /\ UsesOK
  BY DEF AccountInv
<1>2. /\ edit.op = "update" /\ edit' = Edited
      /\ user' = Saved(user, edit.original, edit.new)
      /\ granted' = IF edit.by = "admin" /\ edit.new.role # edit.original.role
                    THEN edit.new.role ELSE granted
      /\ UNCHANGED <<clock, invitations, mailed, uses, disturbed>>
  BY DEF UserUpdateSave
<1>3. /\ user \in Users /\ edit.original \in Users /\ edit.new \in Users
      /\ edit.by # "admin" => edit.new.role = edit.original.role
      /\ user.role = granted
  BY <1>1, <1>2 DEF AccountOK
<1>4. /\ user' \in Users /\ (user = edit.original => user' = edit.new)
      /\ user'.role = IF edit.new.role # edit.original.role THEN edit.new.role ELSE user.role
  BY <1>2, <1>3, SavedUsers
<1>5. edit'.op # "update"
  BY <1>2 DEF Edited
<1>6. AccountOK'
  BY <1>1, <1>2, <1>3, <1>4, <1>5 DEF AccountOK
<1>7. UsesOK'
  BY <1>1, <1>2 DEF UsesOK, Issuing, At
<1>8. ASSUME Calm
      PROVE  Calm'
  <2>1. /\ \A i \in Invitations : ~Issuing(i)
        /\ user = edit.original
    BY <1>2, <1>8 DEF Calm, Alone
  <2>2. user'.status = user.status /\ user'.expires = user.expires
    BY <1>1, <1>2, <1>4, <2>1 DEF AccountOK
  <2>3. Alone' /\ InHandOK'
    BY <1>2, <1>5, <2>1 DEF Alone, InHandOK, Issuing
  <2>4. OneLink' /\ StatusOK'
    BY <1>2, <1>8, <2>2 DEF Calm, OneLink, StatusOK, Pending, InTable, Issuing, At
  <2> QED
    BY <2>3, <2>4 DEF Calm
<1> QED
  BY <1>2, <1>6, <1>7, <1>8 DEF AccountInv

LEMMA QuietKeeps ==
  ASSUME AccountInv, clock' \in {clock, clock + 1},
         UNCHANGED <<user, invitations, mailed, edit, uses, granted, disturbed>>
  PROVE  AccountInv'
<1>1. AccountOK /\ UsesOK
  BY DEF AccountInv
<1>2. AccountOK'
  BY <1>1 DEF AccountOK
<1>3. UsesOK'
  <2>1. \A i \in Invitations : ~At(i, "none") => invitations[i].sent \in Int
    BY <1>1, RowStages
  <2>2. clock \in Int /\ clock' \in Int /\ clock <= clock'
    BY <1>1 DEF AccountOK
  <2>3. \A i \in Invitations : ~At(i, "none") => invitations[i].sent <= clock'
    BY <1>1, <2>1, <2>2 DEF UsesOK
  <2> QED
    BY <1>1, <2>3 DEF UsesOK, Issuing, At
<1>4. Calm => Calm'
  BY DEF Calm, Alone, InHandOK, OneLink, StatusOK, Pending, InTable, Issuing, At
<1> QED
  BY <1>2, <1>3, <1>4 DEF AccountInv

LEMMA AccountInvInit == AccountInit => AccountInv
<1> SUFFICES ASSUME AccountInit PROVE AccountInv
  OBVIOUS
<1>1. PICK by \in {"admin", "manager"}, role \in {"manager", "employee"}, email \in Emails :
        user = UserCreated(by, role, email)
  BY DEF AccountInit
<1>2. user \in Users /\ user.status = "none"
  BY <1>1 DEF UserCreated, Users, Roles
<1>3. /\ clock = 0 /\ mailed = {} /\ edit = NoEdit /\ granted = user.role /\ disturbed = FALSE
      /\ invitations = [i \in Invitations |-> NotIssued]
      /\ uses = [i \in Invitations |-> 0]
  BY DEF AccountInit
<1>4. \A i \in Invitations : /\ invitations[i] = NotIssued /\ At(i, "none")
                             /\ ~Issuing(i) /\ ~Pending(i)
  BY <1>3 DEF NotIssued, At, Issuing, Pending, InTable
<1>5. edit.op # "update"
  BY <1>3 DEF NoEdit
<1>6. AccountOK
  <2>1. invitations = [i \in Invitations |-> invitations[i]]
    BY <1>3
  <2>2. clock = 0
    BY <1>3
  <2>3. clock \in Int
    BY <2>2
  <2>4. user.role = granted /\ disturbed \in BOOLEAN
    BY <1>3
  <2> QED
    BY <1>2, <1>4, <1>5, <2>1, <2>3, <2>4 DEF AccountOK
<1>7. UsesOK
  BY <1>3, <1>4 DEF UsesOK
<1>8. Calm
  BY <1>2, <1>4, <1>5 DEF Calm, Alone, InHandOK, OneLink, StatusOK
<1> QED
  BY <1>6, <1>7, <1>8 DEF AccountInv

LEMMA AccountInvNext ==
  ASSUME Lifetime \in Int, AccountInv, [AccountNext]_accountVars
  PROVE  AccountInv'
<1>1. ASSUME NEW i \in Invitations, NEW by \in {"admin", "manager"}, IssueStart(i, by)
      PROVE  AccountInv'
  BY <1>1, StartKeeps
<1>2. ASSUME NEW i \in Invitations,
             IssueMail(i) \/ IssueFind(i) \/ IssueFinish(i) \/ IssueFails(i) \/ acceptInvitation(i)
      PROVE  AccountInv'
  BY <1>2, MailKeeps, FindKeeps, FinishKeeps, FailureKeeps, AcceptKeeps
<1>3. ASSUME NEW i \in Invitations, NEW outcome \in {"deleted", "revoked"},
             IssueMailFails(i, outcome)
      PROVE  AccountInv'
  BY <1>3, MailFailureKeeps
<1>4. ASSUME NEW i \in Invitations, NEW j \in Invitations, IssueRevoke(i, j)
      PROVE  AccountInv'
  BY <1>4, RevokeKeeps
<1>5. ASSUME NEW by \in {"self", "manager", "admin"}, NEW role \in {"manager", "employee"},
             NEW email \in Emails, NEW on \in BOOLEAN, UserUpdateRead(by, role, email, on)
      PROVE  AccountInv'
  BY <1>5, UpdateReadKeeps
<1>6. CASE UserUpdateSave
  BY <1>6, UpdateSaveKeeps
<1>7. CASE ClockTicks
  BY <1>7, QuietKeeps DEF ClockTicks
<1>8. CASE UNCHANGED accountVars
  BY <1>8, QuietKeeps DEF accountVars
<1> QED
  BY <1>1, <1>2, <1>3, <1>4, <1>5, <1>6, <1>7, <1>8 DEF AccountNext

-----------------------------------------------------------------------------

LEMMA InvitationsFollow ==
  ASSUME AccountInv
  PROVE  InvitationsAreHonest
<1> DEFINE live == {i \in mailed : Live(i)}
<1>1. \A i \in Invitations : uses[i] <= 1
  BY DEF AccountInv, UsesOK
<1>2. user.role = granted
  BY DEF AccountInv, AccountOK
<1>3. ASSUME AllDone, ~disturbed
      PROVE  /\ \A i \in live : \A j \in mailed : invitations[j].sent <= invitations[i].sent
             /\ Cardinality(live) <= 1
             /\ (user.status = "pending" /\ clock < user.expires) => live # {}
             /\ user.status = "accepted" => live = {}
  <2>1. Calm /\ \A i \in Invitations : ~Issuing(i)
    BY <1>3 DEF AccountInv, AllDone
  <2>2. mailed \subseteq Invitations
    BY DEF AccountInv, UsesOK
  <2>3. \A i \in live : i \in mailed /\ Pending(i)
    BY DEF Live, Pending
  <2>4. \A i \in mailed : Pending(i) /\ clock < invitations[i].expires => i \in live
    BY DEF Live, Pending
  <2> HIDE DEF live
  <2>5. \A i \in live : \A j \in mailed : invitations[j].sent <= invitations[i].sent
    BY <2>1, <2>2, <2>3 DEF Calm, OneLink
  <2>6. \A i, j \in live : i = j
    BY <2>1, <2>2, <2>3 DEF Calm, OneLink
  <2>7. Cardinality(live) <= 1
    <3>1. CASE live = {}
      <4>1. Cardinality(live) = 0
        BY <3>1, FS_EmptySet
      <4> QED
        BY <4>1
    <3>2. CASE live # {}
      <4>1. PICK x \in live : TRUE
        BY <3>2
      <4>2. live = {x}
        BY <2>6, <4>1
      <4>3. Cardinality(live) = 1
        BY <4>2, FS_Singleton
      <4> QED
        BY <4>3
    <3> QED
      BY <3>1, <3>2
  <2>8. ASSUME user.status = "pending", clock < user.expires
        PROVE  live # {}
    <3>1. \A i \in Invitations : ~At(i, "revoking")
      BY <2>1 DEF Issuing, At
    <3>2. PICK i \in mailed : Pending(i) /\ invitations[i].expires = user.expires
      BY <2>1, <2>8, <3>1 DEF Calm, StatusOK
    <3> QED
      BY <2>4, <2>8, <3>2
  <2>9. ASSUME user.status = "accepted" PROVE live = {}
    BY <2>1, <2>2, <2>3, <2>9 DEF Calm, StatusOK
  <2> QED
    BY <2>5, <2>7, <2>8, <2>9
<1> QED
  BY <1>1, <1>2, <1>3 DEF InvitationsAreHonest

\* A link sets the password once at most; when no two requests overlapped and
\* none failed half-way, one link works at most, the last one mailed, and the
\* account says so; and nobody but an administrator changes a role
\* (issueInvitation, acceptInvitation and the hooks of users).
THEOREM LinksAreHonest ==
  ASSUME Lifetime \in Int
  PROVE  AccountSpec => []InvitationsAreHonest
<1>1. AccountInit => AccountInv
  BY AccountInvInit
<1>2. AccountInv /\ [AccountNext]_accountVars => AccountInv'
  BY AccountInvNext
<1>3. AccountInv => InvitationsAreHonest
  BY InvitationsFollow
<1> QED
  BY <1>1, <1>2, <1>3, PTL DEF AccountSpec

-----------------------------------------------------------------------------
(* HrSuite: what requests have in hand, and expenses.                      *)

\* No two requests have a record in hand, or all they have is known.
DeskOK ==
  /\ hrDesk = [h \in Handlers |-> hrDesk[h]]
  /\ \A g, h \in Handlers :
       (/\ g # h /\ hrDesk[g].op # "idle" /\ hrDesk[h].op # "idle"
        /\ hrDesk[g].on \intersect hrDesk[h].on # {})
         => hrDesk[g].on \union hrDesk[h].on \subseteq together

\* What the update hook lets become of an expense.
ExpenseBecomes(x, n) ==
  \/ x.status \in {"draft", "changes_requested"} /\ n.status \in {"draft", "pending"}
  \/ /\ x.status = "pending" /\ n.status \in {"changes_requested", "approved", "rejected"}
     /\ n.reviewed /\ n.amount = x.amount
  \/ /\ x.status = "approved" /\ n.status = "paid"
     /\ n.reviewed = x.reviewed /\ n.amount = x.amount

\* An expense in one hand is as it was read, but a draft may be gone, and
\* another in its place.
ExpenseJob(h) ==
  LET j == hrDesk[h]
      e == j.record
  IN /\ e \in Expenses /\ j.on = {e}
     /\ j.original \in ExpenseRecords \ {Absent} /\ j.new \in ExpenseRecords \ {Absent}
     /\ ExpenseBecomes(j.original, j.new)
     /\ e \notin together =>
          \/ expenses[e] = j.original
          \/ /\ j.original.status = "draft"
             /\ expenses[e] = Absent \/ expenses[e].status \in {"draft", "pending"}

ExpensesOK ==
  /\ expenses \in [Expenses -> ExpenseRecords]
  /\ seen = [x \in Expenses \union Goals |-> seen[x]]
  /\ \A h \in Handlers : hrDesk[h].op = "expense" => ExpenseJob(h)
  /\ PaidIsWhatWasApproved

\* A request that takes its job knows of every other it shares a record with.
LEMMA TakingInHand ==
  ASSUME DeskOK, NEW h \in Handlers, NEW job, job.op # "idle", TakesInHand(h, job)
  PROVE  /\ DeskOK' /\ hrDesk[h].op = "idle" /\ together \subseteq together'
         /\ hrDesk'[h] = job /\ \A g \in Handlers \ {h} : hrDesk'[g] = hrDesk[g]
         /\ \A g \in Handlers \ {h} :
              hrDesk[g].op # "idle" /\ hrDesk[g].on \intersect job.on # {}
                => hrDesk[g].on \union job.on \subseteq together'
<1> DEFINE beside ==
             {g \in Handlers : hrDesk[g].op # "idle" /\ hrDesk[g].on \intersect job.on # {}}
<1>1. /\ hrDesk[h].op = "idle"
      /\ hrDesk' = [hrDesk EXCEPT ![h] = job]
      /\ together' = together \union UNION {hrDesk[g].on \union job.on : g \in beside}
  BY DEF TakesInHand
<1>2. /\ hrDesk' = [g \in Handlers |-> hrDesk'[g]] /\ hrDesk'[h] = job
      /\ \A g \in Handlers \ {h} : hrDesk'[g] = hrDesk[g]
  BY <1>1 DEF DeskOK
<1>3. /\ together \subseteq together'
      /\ \A g \in beside : hrDesk[g].on \union job.on \subseteq together'
  BY <1>1
<1> HIDE DEF beside
<1>4. \A g \in Handlers \ {h} :
        hrDesk[g].op # "idle" /\ hrDesk[g].on \intersect job.on # {} => g \in beside
  BY DEF beside
<1>5. DeskOK'
  <2> SUFFICES ASSUME NEW a \in Handlers, NEW b \in Handlers, a # b,
                      hrDesk'[a].op # "idle", hrDesk'[b].op # "idle",
                      hrDesk'[a].on \intersect hrDesk'[b].on # {}
               PROVE  hrDesk'[a].on \union hrDesk'[b].on \subseteq together'
    BY <1>2 DEF DeskOK
  <2>1. CASE a = h
    BY <2>1, <1>2, <1>3, <1>4
  <2>2. CASE b = h
    BY <2>2, <1>2, <1>3, <1>4
  <2>3. CASE a # h /\ b # h
    BY <2>3, <1>2, <1>3 DEF DeskOK
  <2> QED
    BY <2>1, <2>2, <2>3
<1> QED
  BY <1>1, <1>2, <1>3, <1>4, <1>5

\* A request that ends leaves the others' jobs as they are.
LEMMA LeavingDesk ==
  ASSUME DeskOK, NEW h \in Handlers, Leaves(h)
  PROVE  /\ DeskOK' /\ together' = together
         /\ hrDesk'[h] = Resting /\ \A g \in Handlers \ {h} : hrDesk'[g] = hrDesk[g]
<1>1. /\ hrDesk' = [g \in Handlers |-> hrDesk'[g]] /\ hrDesk'[h] = Resting
      /\ \A g \in Handlers \ {h} : hrDesk'[g] = hrDesk[g]
      /\ together' = together
  BY DEF DeskOK, Leaves
<1>2. hrDesk'[h].op = "idle"
  BY <1>1 DEF Resting
<1> QED
  BY <1>1, <1>2 DEF DeskOK

\* What a step of another kind of record leaves of expenses.
LEMMA ExpensesStay ==
  ASSUME ExpensesOK, UNCHANGED expenses, together \subseteq together',
         seen' = [x \in Expenses \union Goals |-> seen'[x]],
         \A e \in Expenses : seen'[e] = seen[e],
         \A h \in Handlers : hrDesk'[h] = hrDesk[h] \/ hrDesk'[h].op # "expense"
  PROVE  ExpensesOK'
<1>1. ASSUME NEW h \in Handlers, hrDesk'[h].op = "expense"
      PROVE  ExpenseJob(h)'
  BY <1>1 DEF ExpensesOK, ExpenseJob
<1>2. PaidIsWhatWasApproved'
  BY DEF ExpensesOK, PaidIsWhatWasApproved, Exists
<1> QED
  BY <1>1, <1>2 DEF ExpensesOK

\* A save that finds the expense as it was read leaves what the hook made of it.
LEMMA ExpenseWritten ==
  ASSUME NEW s \in ExpenseRecords \ {Absent}, NEW x \in ExpenseRecords \ {Absent},
         NEW n \in ExpenseRecords \ {Absent}
  PROVE  /\ Written(s, x, n) \in ExpenseRecords \ {Absent}
         /\ s = x => Written(s, x, n) = n
         /\ Written(s, x, n).status = IF n.status # x.status THEN n.status ELSE s.status
<1> DEFINE P(f) == IF n[f] # x[f] THEN n[f] ELSE s[f]
<1>1. Written(s, x, n) =
        [stage |-> "stored", employee |-> P("employee"), amount |-> P("amount"),
         status |-> P("status"), outOfPolicy |-> P("outOfPolicy"),
         reviewed |-> P("reviewed"), paid |-> P("paid")]
  BY DEF Written, ExpenseRecords, Absent
<1>2. /\ P("employee") \in People /\ P("amount") \in Amounts
      /\ P("status") \in ExpenseStatuses /\ P("outOfPolicy") \in BOOLEAN
      /\ P("reviewed") \in BOOLEAN /\ P("paid") \in BOOLEAN
  BY DEF ExpenseRecords, Absent
<1>3. Written(s, x, n) \in ExpenseRecords \ {Absent}
  BY <1>1, <1>2 DEF ExpenseRecords, Absent
<1>4. ASSUME s = x PROVE Written(s, x, n) = n
  BY <1>1, <1>4 DEF ExpenseRecords, Absent
<1>5. Written(s, x, n).status = P("status")
  BY <1>1
<1> QED
  BY <1>3, <1>4, <1>5

LEMMA ExpenseCreateKeeps ==
  ASSUME ExpensesOK, NEW e \in Expenses, NEW p \in People, NEW amount \in Amounts, NEW status,
         ExpenseCreate(e, p, amount, status)
  PROVE  ExpensesOK'
<1> DEFINE r == [stage |-> "stored", employee |-> p, amount |-> amount, status |-> status,
                 outOfPolicy |-> ExpenseLimit > 0 /\ amount > ExpenseLimit,
                 reviewed |-> FALSE, paid |-> FALSE]
<1>1. /\ expenses[e] = Absent /\ status \in {"draft", "pending"}
      /\ expenses' = [expenses EXCEPT ![e] = r]
      /\ UNCHANGED <<hrDesk, seen, together>>
  BY DEF ExpenseCreate
<1>2. (ExpenseLimit > 0 /\ amount > ExpenseLimit) \in BOOLEAN
  OBVIOUS
<1>3. r \in ExpenseRecords \ {Absent} /\ r.status \in {"draft", "pending"}
  BY <1>1, <1>2 DEF ExpenseRecords, ExpenseStatuses, Absent
<1> HIDE DEF r
<1>4. /\ expenses' \in [Expenses -> ExpenseRecords]
      /\ \A x \in Expenses : expenses'[x] = IF x = e THEN r ELSE expenses[x]
  BY <1>1, <1>3 DEF ExpensesOK
<1>5. ASSUME NEW h \in Handlers, hrDesk'[h].op = "expense"
      PROVE  ExpenseJob(h)'
  <2>1. ExpenseJob(h) /\ hrDesk'[h] = hrDesk[h]
    BY <1>1, <1>5 DEF ExpensesOK
  <2>2. CASE hrDesk[h].record = e
    BY <1>1, <1>3, <1>4, <2>1, <2>2 DEF ExpenseJob
  <2>3. CASE hrDesk[h].record # e
    BY <1>1, <1>4, <2>1, <2>3 DEF ExpenseJob
  <2> QED
    BY <2>2, <2>3
<1>6. PaidIsWhatWasApproved'
  BY <1>1, <1>3, <1>4 DEF ExpensesOK, PaidIsWhatWasApproved, Exists
<1> QED
  BY <1>1, <1>4, <1>5, <1>6 DEF ExpensesOK

LEMMA ExpenseUpdateReadKeeps ==
  ASSUME DeskOK, ExpensesOK, NEW h \in Handlers, NEW e \in Expenses, NEW p \in People,
         NEW status \in ExpenseStatuses, NEW amount \in Amounts,
         ExpenseUpdateRead(h, e, p, status, amount)
  PROVE  ExpensesOK' /\ DeskOK' /\ together \subseteq together' /\ hrDesk'[h].op = "expense"
         /\ \A g \in Handlers \ {h} : hrDesk'[g] = hrDesk[g]
<1> DEFINE x == expenses[e]
<1>1. PICK n \in ExpenseUpdate(x, p, status, amount) :
        TakesInHand(h, Updating("expense", e, x, n))
  BY DEF ExpenseUpdateRead
<1>2. Exists(x) /\ UNCHANGED <<expenses, seen>>
  BY DEF ExpenseUpdateRead
<1>3. x \in ExpenseRecords \ {Absent}
  BY <1>2 DEF ExpensesOK, Exists, Absent
<1>4. n \in ExpenseRecords \ {Absent} /\ ExpenseBecomes(x, n)
  <2>1. CASE x.employee = p /\ RoleOf[p] = "employee"
    <3>1. /\ x.status \in {"draft", "changes_requested"} /\ status \in {"draft", "pending"}
          /\ n = [x EXCEPT !.status = status, !.amount = amount,
                           !.reviewed = FALSE, !.paid = FALSE]
      BY <1>1, <2>1 DEF ExpenseUpdate
    <3> QED
      BY <1>3, <3>1 DEF ExpenseRecords, ExpenseBecomes, Absent
  <2>2. CASE /\ x.status = "pending" /\ status \in {"changes_requested", "approved", "rejected"}
             /\ n = [x EXCEPT !.status = status, !.reviewed = TRUE]
    BY <1>3, <2>2 DEF ExpenseRecords, ExpenseBecomes, Absent
  <2>3. CASE /\ x.status = "approved" /\ status = "paid"
             /\ n = [x EXCEPT !.status = status, !.paid = TRUE]
    BY <1>3, <2>3 DEF ExpenseRecords, ExpenseBecomes, Absent
  <2> QED
    BY <1>1, <2>1, <2>2, <2>3 DEF ExpenseUpdate
<1> DEFINE job == Updating("expense", e, x, n)
<1>5. /\ job.op = "expense" /\ job.on = {e} /\ job.record = e
      /\ job.original = x /\ job.new = n
  BY DEF Updating
<1> HIDE DEF job, x
<1>6. /\ DeskOK' /\ together \subseteq together' /\ hrDesk'[h] = job
      /\ \A g \in Handlers \ {h} : hrDesk'[g] = hrDesk[g]
  BY <1>1, <1>5, TakingInHand DEF job, x
<1>7. ASSUME NEW g \in Handlers, hrDesk'[g].op = "expense"
      PROVE  ExpenseJob(g)'
  <2>1. CASE g = h
    BY <1>2, <1>3, <1>4, <1>5, <1>6, <2>1 DEF ExpenseJob, x
  <2>2. CASE g # h
    BY <1>2, <1>6, <1>7, <2>2 DEF ExpensesOK, ExpenseJob
  <2> QED
    BY <2>1, <2>2
<1>8. PaidIsWhatWasApproved'
  BY <1>2, <1>6 DEF ExpensesOK, PaidIsWhatWasApproved, Exists
<1> QED
  BY <1>2, <1>5, <1>6, <1>7, <1>8 DEF ExpensesOK

LEMMA ExpenseUpdateSaveKeeps ==
  ASSUME DeskOK, ExpensesOK, NEW h \in Handlers, ExpenseUpdateSave(h)
  PROVE  ExpensesOK' /\ \A g \in Goals : seen'[g] = seen[g]
<1> DEFINE e == hrDesk[h].record
           x == hrDesk[h].original
           n == hrDesk[h].new
<1>1. /\ hrDesk[h].op = "expense"
      /\ expenses' = IF Exists(expenses[e])
                     THEN [expenses EXCEPT ![e] = Written(@, x, n)] ELSE expenses
      /\ seen' = IF n.status = "approved" THEN [seen EXCEPT ![e] = x.amount] ELSE seen
      /\ Leaves(h)
  BY DEF ExpenseUpdateSave
<1>2. ExpenseJob(h)
  BY <1>1 DEF ExpensesOK
<1>3. /\ e \in Expenses /\ hrDesk[h].on = {e}
      /\ x \in ExpenseRecords \ {Absent} /\ n \in ExpenseRecords \ {Absent}
      /\ ExpenseBecomes(x, n)
      /\ e \notin together =>
           \/ expenses[e] = x
           \/ /\ x.status = "draft"
              /\ expenses[e] = Absent \/ expenses[e].status \in {"draft", "pending"}
  BY <1>2 DEF ExpenseJob
<1>4. /\ together' = together /\ hrDesk'[h] = Resting
      /\ \A g \in Handlers \ {h} : hrDesk'[g] = hrDesk[g]
  BY <1>1, LeavingDesk
<1>5. /\ seen' = [y \in Expenses \union Goals |-> seen'[y]]
      /\ \A y \in (Expenses \union Goals) \ {e} : seen'[y] = seen[y]
      /\ seen'[e] = IF n.status = "approved" THEN x.amount ELSE seen[e]
  BY <1>1, <1>3 DEF ExpensesOK
<1>6. \A g \in Goals : seen'[g] = seen[g]
  BY <1>3, <1>5, HrData
<1> HIDE DEF e, x, n
<1> DEFINE s == expenses[e]
<1>7. s \in ExpenseRecords /\ (Exists(s) <=> s # Absent)
  BY <1>3 DEF ExpensesOK, Exists, ExpenseRecords, Absent
<1>8. /\ expenses' \in [Expenses -> ExpenseRecords]
      /\ \A y \in Expenses \ {e} : expenses'[y] = expenses[y]
      /\ s = Absent => expenses'[e] = s
      /\ s # Absent => expenses'[e] = Written(s, x, n)
  <2>1. s # Absent => Written(s, x, n) \in ExpenseRecords
    BY <1>3, <1>7, ExpenseWritten
  <2>2. expenses \in [Expenses -> ExpenseRecords]
    BY DEF ExpensesOK
  <2> QED
    BY <1>1, <1>3, <1>7, <2>1, <2>2
<1>9. ASSUME NEW g \in Handlers, hrDesk'[g].op = "expense"
      PROVE  ExpenseJob(g)'
  <2>1. g # h /\ hrDesk'[g] = hrDesk[g] /\ ExpenseJob(g) /\ hrDesk[g].op = "expense"
    BY <1>4, <1>9 DEF ExpensesOK, Resting
  <2>2. CASE hrDesk[g].record = e
    <3>1. e \in together
      BY <1>1, <1>3, <2>1, <2>2 DEF DeskOK, ExpenseJob
    <3> QED
      BY <1>4, <2>1, <2>2, <3>1 DEF ExpenseJob
  <2>3. CASE hrDesk[g].record # e
    BY <1>4, <1>8, <2>1, <2>3 DEF ExpenseJob
  <2> QED
    BY <2>2, <2>3
<1>10. ASSUME e \notin together, Exists(expenses'[e]), expenses'[e].status \in {"approved", "paid"}
       PROVE  expenses'[e].reviewed /\ expenses'[e].amount = seen'[e]
  <2>1. s # Absent /\ expenses'[e] = Written(s, x, n)
    BY <1>8, <1>10 DEF Exists, Absent
  <2>2. expenses'[e].status = IF n.status # x.status THEN n.status ELSE s.status
    BY <1>3, <1>7, <2>1, ExpenseWritten
  <2>3. s = x
    <3> SUFFICES ASSUME s # x PROVE FALSE
      OBVIOUS
    <3>1. x.status = "draft" /\ s.status \in {"draft", "pending"}
      BY <1>3, <1>10, <2>1
    <3> QED
      BY <1>3, <1>10, <2>2, <3>1 DEF ExpenseBecomes
  <2>4. expenses'[e] = n
    BY <1>3, <2>1, <2>3, ExpenseWritten
  <2>5. CASE n.status = "approved"
    BY <1>3, <1>5, <2>4, <2>5 DEF ExpenseBecomes
  <2>6. CASE n.status = "paid"
    <3>1. x.status = "approved" /\ n.reviewed = x.reviewed /\ n.amount = x.amount
      BY <1>3, <2>6 DEF ExpenseBecomes
    <3>2. x.reviewed /\ x.amount = seen[e]
      BY <1>3, <1>7, <1>10, <2>1, <2>3, <3>1 DEF ExpensesOK, PaidIsWhatWasApproved
    <3> QED
      BY <1>5, <2>4, <2>6, <3>1, <3>2
  <2> QED
    BY <1>10, <2>4, <2>5, <2>6
<1>11. PaidIsWhatWasApproved'
  <2> SUFFICES ASSUME NEW y \in Expenses, Exists(expenses'[y]), y \notin together,
                      expenses'[y].status \in {"approved", "paid"}
               PROVE  expenses'[y].reviewed /\ expenses'[y].amount = seen'[y]
    BY <1>4 DEF PaidIsWhatWasApproved, Exists
  <2>1. CASE y = e
    BY <1>10, <2>1
  <2>2. CASE y # e
    <3>1. expenses'[y] = expenses[y] /\ seen'[y] = seen[y]
      BY <1>5, <1>8, <2>2
    <3> QED
      BY <3>1 DEF ExpensesOK, PaidIsWhatWasApproved
  <2> QED
    BY <2>1, <2>2
<1> QED
  BY <1>5, <1>6, <1>8, <1>9, <1>11 DEF ExpensesOK

LEMMA ExpenseDeleteKeeps ==
  ASSUME ExpensesOK, NEW e \in Expenses, ExpenseDelete(e)
  PROVE  ExpensesOK'
<1>1. /\ Exists(expenses[e]) /\ expenses[e].status = "draft"
      /\ expenses' = [expenses EXCEPT ![e] = Absent]
      /\ UNCHANGED <<hrDesk, seen, together>>
  BY DEF ExpenseDelete
<1>2. Absent \in ExpenseRecords
  BY DEF ExpenseRecords
<1>3. /\ expenses' \in [Expenses -> ExpenseRecords]
      /\ \A x \in Expenses : expenses'[x] = IF x = e THEN Absent ELSE expenses[x]
  BY <1>1, <1>2 DEF ExpensesOK
<1>4. ASSUME NEW h \in Handlers, hrDesk'[h].op = "expense"
      PROVE  ExpenseJob(h)'
  <2>1. ExpenseJob(h) /\ hrDesk'[h] = hrDesk[h]
    BY <1>1, <1>4 DEF ExpensesOK
  <2>2. CASE hrDesk[h].record = e
    <3>1. hrDesk[h].original = expenses[e] => hrDesk[h].original.status = "draft"
      BY <1>1
    <3> QED
      BY <1>1, <1>3, <2>1, <2>2, <3>1 DEF ExpenseJob
  <2>3. CASE hrDesk[h].record # e
    BY <1>1, <1>3, <2>1, <2>3 DEF ExpenseJob
  <2> QED
    BY <2>2, <2>3
<1>5. PaidIsWhatWasApproved'
  BY <1>1, <1>3 DEF ExpensesOK, PaidIsWhatWasApproved, Exists, Absent
<1> QED
  BY <1>1, <1>3, <1>4, <1>5 DEF ExpensesOK

-----------------------------------------------------------------------------
(* Tasks.                                                                  *)

\* A task in one hand is as it was read.
TaskJob(h) ==
  LET j == hrDesk[h]
      t == j.record
      x == j.original
      n == j.new
  IN /\ t \in Tasks /\ j.on = {t}
     /\ x \in TaskRecords \ {Absent} /\ n \in TaskRecords \ {Absent}
     /\ n.completedAt = (n.status = "completed") /\ n.creator = x.creator
     /\ t \notin together => tasks[t] = x
     /\ Exists(tasks[t])

TasksOK ==
  /\ tasks \in [Tasks -> TaskRecords]
  /\ \A h \in Handlers : hrDesk[h].op = "task" => TaskJob(h)
  /\ CompletedIsDatedAndTold

LEMMA TasksStay ==
  ASSUME TasksOK, UNCHANGED tasks, together \subseteq together', told \subseteq told',
         \A h \in Handlers : hrDesk'[h] = hrDesk[h] \/ hrDesk'[h].op # "task"
  PROVE  TasksOK'
<1>1. ASSUME NEW h \in Handlers, hrDesk'[h].op = "task"
      PROVE  TaskJob(h)'
  BY <1>1 DEF TasksOK, TaskJob, Exists
<1>2. CompletedIsDatedAndTold'
  BY DEF TasksOK, CompletedIsDatedAndTold, Exists
<1> QED
  BY <1>1, <1>2 DEF TasksOK

LEMMA TaskWritten ==
  ASSUME NEW s \in TaskRecords \ {Absent}, NEW x \in TaskRecords \ {Absent},
         NEW n \in TaskRecords \ {Absent}
  PROVE  /\ Written(s, x, n) \in TaskRecords \ {Absent}
         /\ s = x => Written(s, x, n) = n
<1> DEFINE P(f) == IF n[f] # x[f] THEN n[f] ELSE s[f]
<1>1. Written(s, x, n) =
        [stage |-> "stored", assignee |-> P("assignee"), creator |-> P("creator"),
         status |-> P("status"), completedAt |-> P("completedAt")]
  BY DEF Written, TaskRecords, Absent
<1>2. /\ P("assignee") \in People /\ P("creator") \in People
      /\ P("status") \in TaskStatuses /\ P("completedAt") \in BOOLEAN
  BY DEF TaskRecords, Absent
<1>3. Written(s, x, n) \in TaskRecords \ {Absent}
  BY <1>1, <1>2 DEF TaskRecords, Absent
<1>4. ASSUME s = x PROVE Written(s, x, n) = n
  BY <1>1, <1>4 DEF TaskRecords, Absent
<1> QED
  BY <1>3, <1>4

LEMMA TaskCreateKeeps ==
  ASSUME TasksOK, NEW t \in Tasks, NEW by \in People, NEW p \in People, TaskCreate(t, by, p)
  PROVE  TasksOK'
<1> DEFINE r == [stage |-> "stored", assignee |-> p, creator |-> by, status |-> "pending",
                 completedAt |-> FALSE]
<1>1. /\ tasks[t] = Absent /\ tasks' = [tasks EXCEPT ![t] = r]
      /\ told \subseteq told' /\ UNCHANGED <<hrDesk, together>>
  BY DEF TaskCreate
<1>2. /\ r \in TaskRecords \ {Absent} /\ Exists(r)
      /\ r.status = "pending" /\ r.completedAt = FALSE
  BY DEF TaskRecords, TaskStatuses, Absent, Exists
<1> HIDE DEF r
<1>3. /\ tasks' \in [Tasks -> TaskRecords]
      /\ \A x \in Tasks : tasks'[x] = IF x = t THEN r ELSE tasks[x]
  BY <1>1, <1>2 DEF TasksOK
<1>4. ASSUME NEW h \in Handlers, hrDesk'[h].op = "task"
      PROVE  TaskJob(h)'
  <2>1. TaskJob(h) /\ hrDesk'[h] = hrDesk[h]
    BY <1>1, <1>4 DEF TasksOK
  <2>2. hrDesk[h].record # t
    BY <1>1, <2>1 DEF TaskJob, Exists, Absent
  <2> QED
    BY <1>1, <1>3, <2>1, <2>2 DEF TaskJob, Exists
<1>5. CompletedIsDatedAndTold'
  BY <1>1, <1>2, <1>3 DEF TasksOK, CompletedIsDatedAndTold, Exists
<1> QED
  BY <1>3, <1>4, <1>5 DEF TasksOK

LEMMA TaskUpdateReadKeeps ==
  ASSUME DeskOK, TasksOK, NEW h \in Handlers, NEW t \in Tasks, NEW p \in People,
         NEW status \in TaskStatuses, TaskUpdateRead(h, t, p, status)
  PROVE  TasksOK' /\ DeskOK' /\ together \subseteq together' /\ hrDesk'[h].op = "task"
         /\ \A g \in Handlers \ {h} : hrDesk'[g] = hrDesk[g]
<1> DEFINE x == tasks[t]
           n == [x EXCEPT !.status = status, !.completedAt = (status = "completed")]
           job == Updating("task", t, x, n)
<1>1. TakesInHand(h, job) /\ Exists(x) /\ UNCHANGED <<tasks, told>>
  BY DEF TaskUpdateRead, TaskUpdate
<1>2. x \in TaskRecords \ {Absent}
  BY <1>1 DEF TasksOK, Exists, Absent
<1>3. /\ n \in TaskRecords \ {Absent}
      /\ n.completedAt = (n.status = "completed") /\ n.creator = x.creator
  BY <1>2 DEF TaskRecords, Absent
<1>4. /\ job.op = "task" /\ job.on = {t} /\ job.record = t
      /\ job.original = x /\ job.new = n
  BY DEF Updating
<1> HIDE DEF job, n, x
<1>5. /\ DeskOK' /\ together \subseteq together' /\ hrDesk'[h] = job
      /\ \A g \in Handlers \ {h} : hrDesk'[g] = hrDesk[g]
  BY <1>1, <1>4, TakingInHand
<1>6. ASSUME NEW g \in Handlers, hrDesk'[g].op = "task"
      PROVE  TaskJob(g)'
  <2>1. CASE g = h
    BY <1>1, <1>2, <1>3, <1>4, <1>5, <2>1 DEF TaskJob, x, Exists
  <2>2. CASE g # h
    BY <1>1, <1>5, <1>6, <2>2 DEF TasksOK, TaskJob, Exists
  <2> QED
    BY <2>1, <2>2
<1>7. CompletedIsDatedAndTold'
  BY <1>1, <1>5 DEF TasksOK, CompletedIsDatedAndTold, Exists
<1> QED
  BY <1>1, <1>4, <1>5, <1>6, <1>7 DEF TasksOK

LEMMA TaskUpdateSaveKeeps ==
  ASSUME DeskOK, TasksOK, NEW h \in Handlers, TaskUpdateSave(h)
  PROVE  TasksOK' /\ told \subseteq told'
<1> DEFINE t == hrDesk[h].record
           x == hrDesk[h].original
           n == hrDesk[h].new
<1>1. /\ hrDesk[h].op = "task"
      /\ tasks' = [tasks EXCEPT ![t] = Written(@, x, n)]
      /\ told' = IF n.status = "completed" /\ x.status # "completed"
                 THEN told \union {<<t, n.creator>>} ELSE told
      /\ Leaves(h)
  BY DEF TaskUpdateSave
<1>2. /\ t \in Tasks /\ hrDesk[h].on = {t}
      /\ x \in TaskRecords \ {Absent} /\ n \in TaskRecords \ {Absent}
      /\ n.completedAt = (n.status = "completed") /\ n.creator = x.creator
      /\ t \notin together => tasks[t] = x
      /\ Exists(tasks[t])
  BY <1>1 DEF TasksOK, TaskJob
<1>3. /\ together' = together /\ hrDesk'[h] = Resting
      /\ \A g \in Handlers \ {h} : hrDesk'[g] = hrDesk[g]
  BY <1>1, LeavingDesk
<1> HIDE DEF t, x, n
<1> DEFINE w == Written(tasks[t], x, n)
<1>4. tasks[t] \in TaskRecords \ {Absent}
  BY <1>2 DEF TasksOK, Exists, Absent
<1>5. w \in TaskRecords \ {Absent} /\ (tasks[t] = x => w = n)
  BY <1>2, <1>4, TaskWritten
<1>6. /\ tasks' \in [Tasks -> TaskRecords]
      /\ \A y \in Tasks : tasks'[y] = IF y = t THEN w ELSE tasks[y]
  BY <1>1, <1>2, <1>5 DEF TasksOK
<1>7. Exists(w)
  BY <1>5 DEF TaskRecords, Exists, Absent
<1> HIDE DEF w
<1>8. ASSUME NEW g \in Handlers, hrDesk'[g].op = "task"
      PROVE  TaskJob(g)'
  <2>1. g # h /\ hrDesk'[g] = hrDesk[g] /\ TaskJob(g) /\ hrDesk[g].op = "task"
    BY <1>3, <1>8 DEF TasksOK, Resting
  <2>2. CASE hrDesk[g].record = t
    <3>1. t \in together
      BY <1>1, <1>2, <2>1, <2>2 DEF DeskOK, TaskJob
    <3> QED
      BY <1>3, <1>6, <1>7, <2>1, <2>2, <3>1 DEF TaskJob
  <2>3. CASE hrDesk[g].record # t
    BY <1>3, <1>6, <2>1, <2>3 DEF TaskJob, Exists
  <2> QED
    BY <2>2, <2>3
<1>9. ASSUME t \notin together
      PROVE  /\ tasks'[t].completedAt <=> tasks'[t].status = "completed"
             /\ tasks'[t].completedAt => <<t, tasks'[t].creator>> \in told'
  <2>1. tasks[t] = x /\ tasks'[t] = n
    BY <1>2, <1>5, <1>6, <1>9
  <2>2. x.status = "completed" => <<t, x.creator>> \in told
    BY <1>2, <1>9, <2>1 DEF TasksOK, CompletedIsDatedAndTold
  <2>3. n.status = "completed" => <<t, n.creator>> \in told'
    BY <1>1, <1>2, <2>2
  <2>4. n.completedAt <=> n.status = "completed"
    BY <1>2
  <2> QED
    BY <2>1, <2>3, <2>4
<1>10. told \subseteq told'
  BY <1>1
<1>11. CompletedIsDatedAndTold'
  BY <1>2, <1>3, <1>6, <1>9, <1>10 DEF TasksOK, CompletedIsDatedAndTold, Exists
<1> QED
  BY <1>6, <1>8, <1>10, <1>11 DEF TasksOK

-----------------------------------------------------------------------------
(* Goals.                                                                  *)

\* A goal in one hand is as it was read, and its end is that of the hook.
GoalJob(h) ==
  LET j == hrDesk[h]
      g == j.record
      x == j.original
      n == j.new
  IN /\ g \in Goals /\ j.on = {g} /\ j.by \in People
     /\ x \in GoalRecords \ {Absent} /\ n \in GoalRecords \ {Absent}
     /\ n.employee = x.employee
     /\ j.by = n.employee /\ RoleOf[j.by] = "employee" =>
          (n.status = "completed" <=> n.progress = 100)
     /\ g \notin together => goals[g] = x
     /\ Exists(goals[g])

GoalsOK ==
  /\ goals \in [Goals -> GoalRecords]
  /\ seen = [x \in Expenses \union Goals |-> seen[x]]
  /\ \A g \in Goals : ~Exists(goals[g]) => seen[g] = "nobody"
  /\ \A h \in Handlers : hrDesk[h].op = "goal" => GoalJob(h)
  /\ CompleteAtTheEnd

LEMMA GoalsStay ==
  ASSUME GoalsOK, UNCHANGED goals, together \subseteq together',
         seen' = [x \in Expenses \union Goals |-> seen'[x]],
         \A g \in Goals : seen'[g] = seen[g],
         \A h \in Handlers : hrDesk'[h] = hrDesk[h] \/ hrDesk'[h].op # "goal"
  PROVE  GoalsOK'
<1>1. ASSUME NEW h \in Handlers, hrDesk'[h].op = "goal"
      PROVE  GoalJob(h)'
  BY <1>1 DEF GoalsOK, GoalJob, Exists
<1>2. CompleteAtTheEnd'
  BY DEF GoalsOK, CompleteAtTheEnd, Exists
<1> QED
  BY <1>1, <1>2 DEF GoalsOK, Exists

LEMMA GoalWritten ==
  ASSUME NEW s \in GoalRecords \ {Absent}, NEW x \in GoalRecords \ {Absent},
         NEW n \in GoalRecords \ {Absent}
  PROVE  /\ Written(s, x, n) \in GoalRecords \ {Absent}
         /\ s = x => Written(s, x, n) = n
<1> DEFINE P(f) == IF n[f] # x[f] THEN n[f] ELSE s[f]
<1>1. Written(s, x, n) =
        [stage |-> "stored", employee |-> P("employee"), progress |-> P("progress"),
         status |-> P("status")]
  BY DEF Written, GoalRecords, Absent
<1>2. P("employee") \in People /\ P("progress") \in 0 .. 100 /\ P("status") \in GoalStatuses
  BY DEF GoalRecords, Absent
<1>3. Written(s, x, n) \in GoalRecords \ {Absent}
  BY <1>1, <1>2 DEF GoalRecords, Absent
<1>4. ASSUME s = x PROVE Written(s, x, n) = n
  BY <1>1, <1>4 DEF GoalRecords, Absent
<1> QED
  BY <1>3, <1>4

LEMMA ClampedIsProgress ==
  ASSUME NEW n \in TypedProgress
  PROVE  Clamped(n) \in 0 .. 100
BY HrData DEF Clamped

LEMMA GoalCreateKeeps ==
  ASSUME GoalsOK, NEW g \in Goals, NEW by \in People, NEW p \in People,
         NEW progress \in TypedProgress, GoalCreate(g, by, p, progress)
  PROVE  GoalsOK'
<1> DEFINE r == [stage |-> "stored", employee |-> p, progress |-> Clamped(progress),
                 status |-> "active"]
<1>1. /\ goals[g] = Absent /\ goals' = [goals EXCEPT ![g] = r]
      /\ UNCHANGED <<hrDesk, seen, together>>
  BY DEF GoalCreate
<1>2. r \in GoalRecords \ {Absent} /\ Exists(r) /\ r.employee \in People
  BY ClampedIsProgress DEF GoalRecords, GoalStatuses, Absent, Exists
<1> HIDE DEF r
<1>3. /\ goals' \in [Goals -> GoalRecords]
      /\ \A x \in Goals : goals'[x] = IF x = g THEN r ELSE goals[x]
  BY <1>1, <1>2 DEF GoalsOK
<1>4. ASSUME NEW h \in Handlers, hrDesk'[h].op = "goal"
      PROVE  GoalJob(h)'
  <2>1. GoalJob(h) /\ hrDesk'[h] = hrDesk[h]
    BY <1>1, <1>4 DEF GoalsOK
  <2>2. hrDesk[h].record # g
    BY <1>1, <2>1 DEF GoalJob, Exists, Absent
  <2> QED
    BY <1>1, <1>3, <2>1, <2>2 DEF GoalJob, Exists
<1>5. seen[g] = "nobody" /\ r.employee # "nobody"
  BY <1>1, <1>2, HrData DEF GoalsOK, Exists, Absent
<1>6. CompleteAtTheEnd'
  <2> SUFFICES ASSUME NEW y \in Goals, Exists(goals'[y]), y \notin together,
                      seen[y] = goals'[y].employee, RoleOf[seen[y]] = "employee"
               PROVE  goals'[y].status = "completed" <=> goals'[y].progress = 100
    BY <1>1 DEF CompleteAtTheEnd, Exists
  <2>1. y # g
    BY <1>3, <1>5
  <2> QED
    BY <1>3, <2>1 DEF GoalsOK, CompleteAtTheEnd
<1>7. \A x \in Goals : ~Exists(goals'[x]) => seen'[x] = "nobody"
  BY <1>1, <1>2, <1>3 DEF GoalsOK
<1> QED
  BY <1>1, <1>3, <1>4, <1>6, <1>7 DEF GoalsOK, Exists

LEMMA GoalUpdateReadKeeps ==
  ASSUME DeskOK, GoalsOK, NEW h \in Handlers, NEW g \in Goals, NEW p \in People,
         NEW progress \in TypedProgress, NEW status \in GoalStatuses,
         GoalUpdateRead(h, g, p, progress, status)
  PROVE  GoalsOK' /\ DeskOK' /\ together \subseteq together' /\ hrDesk'[h].op = "goal"
         /\ \A a \in Handlers \ {h} : hrDesk'[a] = hrDesk[a]
<1> DEFINE x == goals[g]
<1>1. PICK n \in GoalUpdate(x, p, progress, status) :
        TakesInHand(h, [op |-> "goal", on |-> {g}, record |-> g, original |-> x,
                        new |-> n, by |-> p])
  BY DEF GoalUpdateRead
<1>2. Exists(x) /\ UNCHANGED <<goals, seen>>
  BY DEF GoalUpdateRead
<1>3. x \in GoalRecords \ {Absent}
  BY <1>2 DEF GoalsOK, Exists, Absent
<1>4. /\ n \in GoalRecords \ {Absent} /\ n.employee = x.employee
      /\ p = n.employee /\ RoleOf[p] = "employee" =>
           (n.status = "completed" <=> n.progress = 100)
  <2>1. CASE x.employee = p /\ RoleOf[p] = "employee"
    <3> DEFINE c == Clamped(progress)
               s == IF c = 100 THEN "completed" ELSE "active"
    <3>1. n = [x EXCEPT !.progress = c, !.status = s]
      BY <1>1, <2>1 DEF GoalUpdate
    <3>2. c \in 0 .. 100 /\ s \in GoalStatuses
      BY ClampedIsProgress DEF GoalStatuses
    <3>3. s = "completed" <=> c = 100
      OBVIOUS
    <3> HIDE DEF c, s
    <3>4. n \in GoalRecords \ {Absent} /\ n.employee = x.employee /\ n.progress = c /\ n.status = s
      BY <1>3, <3>1, <3>2 DEF GoalRecords, Absent
    <3> QED
      BY <3>3, <3>4
  <2>2. CASE ~(x.employee = p /\ RoleOf[p] = "employee")
    <3>1. progress \in 0 .. 100 /\ n = [x EXCEPT !.progress = progress, !.status = status]
      BY <1>1, <2>2 DEF GoalUpdate
    <3>2. n \in GoalRecords \ {Absent} /\ n.employee = x.employee
      BY <1>3, <3>1 DEF GoalRecords, Absent
    <3> QED
      BY <2>2, <3>2
  <2> QED
    BY <2>1, <2>2
<1> DEFINE job == [op |-> "goal", on |-> {g}, record |-> g, original |-> x, new |-> n, by |-> p]
<1>5. /\ job.op = "goal" /\ job.on = {g} /\ job.record = g
      /\ job.original = x /\ job.new = n /\ job.by = p
  OBVIOUS
<1> HIDE DEF job, x
<1>6. /\ DeskOK' /\ together \subseteq together' /\ hrDesk'[h] = job
      /\ \A a \in Handlers \ {h} : hrDesk'[a] = hrDesk[a]
  BY <1>1, <1>5, TakingInHand DEF job
<1>7. ASSUME NEW a \in Handlers, hrDesk'[a].op = "goal"
      PROVE  GoalJob(a)'
  <2>1. CASE a = h
    BY <1>2, <1>3, <1>4, <1>5, <1>6, <2>1 DEF GoalJob, x, Exists
  <2>2. CASE a # h
    BY <1>2, <1>6, <1>7, <2>2 DEF GoalsOK, GoalJob, Exists
  <2> QED
    BY <2>1, <2>2
<1>8. CompleteAtTheEnd'
  BY <1>2, <1>6 DEF GoalsOK, CompleteAtTheEnd, Exists
<1> QED
  BY <1>2, <1>5, <1>6, <1>7, <1>8 DEF GoalsOK, Exists

LEMMA GoalUpdateSaveKeeps ==
  ASSUME DeskOK, GoalsOK, NEW h \in Handlers, GoalUpdateSave(h)
  PROVE  GoalsOK' /\ \A e \in Expenses : seen'[e] = seen[e]
<1> DEFINE g == hrDesk[h].record
           x == hrDesk[h].original
           n == hrDesk[h].new
           by == hrDesk[h].by
<1>1. /\ hrDesk[h].op = "goal"
      /\ goals' = [goals EXCEPT ![g] = Written(@, x, n)]
      /\ seen' = [seen EXCEPT ![g] = by]
      /\ Leaves(h)
  BY DEF GoalUpdateSave
<1>2. /\ g \in Goals /\ hrDesk[h].on = {g}
      /\ x \in GoalRecords \ {Absent} /\ n \in GoalRecords \ {Absent}
      /\ by = n.employee /\ RoleOf[by] = "employee" =>
           (n.status = "completed" <=> n.progress = 100)
      /\ g \notin together => goals[g] = x
      /\ Exists(goals[g])
  BY <1>1 DEF GoalsOK, GoalJob
<1>3. /\ together' = together /\ hrDesk'[h] = Resting
      /\ \A a \in Handlers \ {h} : hrDesk'[a] = hrDesk[a]
  BY <1>1, LeavingDesk
<1> HIDE DEF g, x, n, by
<1>4. /\ seen' = [y \in Expenses \union Goals |-> seen'[y]]
      /\ \A y \in (Expenses \union Goals) \ {g} : seen'[y] = seen[y]
      /\ seen'[g] = by
  BY <1>1, <1>2 DEF GoalsOK
<1>5. \A e \in Expenses : seen'[e] = seen[e]
  BY <1>2, <1>4, HrData
<1> DEFINE w == Written(goals[g], x, n)
<1>6. goals[g] \in GoalRecords \ {Absent}
  BY <1>2 DEF GoalsOK, Exists, Absent
<1>7. w \in GoalRecords \ {Absent} /\ (goals[g] = x => w = n)
  BY <1>2, <1>6, GoalWritten
<1>8. Exists(w)
  BY <1>7 DEF GoalRecords, Exists, Absent
<1>9. /\ goals' \in [Goals -> GoalRecords]
      /\ \A y \in Goals : goals'[y] = IF y = g THEN w ELSE goals[y]
  BY <1>1, <1>2, <1>7 DEF GoalsOK
<1> HIDE DEF w
<1>10. ASSUME NEW a \in Handlers, hrDesk'[a].op = "goal"
       PROVE  GoalJob(a)'
  <2>1. a # h /\ hrDesk'[a] = hrDesk[a] /\ GoalJob(a) /\ hrDesk[a].op = "goal"
    BY <1>3, <1>10 DEF GoalsOK, Resting
  <2>2. CASE hrDesk[a].record = g
    <3>1. g \in together
      BY <1>1, <1>2, <2>1, <2>2 DEF DeskOK, GoalJob
    <3> QED
      BY <1>3, <1>8, <1>9, <2>1, <2>2, <3>1 DEF GoalJob
  <2>3. CASE hrDesk[a].record # g
    BY <1>3, <1>9, <2>1, <2>3 DEF GoalJob, Exists
  <2> QED
    BY <2>2, <2>3
<1>11. CompleteAtTheEnd'
  <2> SUFFICES ASSUME NEW y \in Goals, Exists(goals'[y]), y \notin together,
                      seen'[y] = goals'[y].employee, RoleOf[seen'[y]] = "employee"
               PROVE  goals'[y].status = "completed" <=> goals'[y].progress = 100
    BY <1>3 DEF CompleteAtTheEnd, Exists
  <2>1. CASE y = g
    <3>1. goals'[y] = n
      BY <1>2, <1>7, <1>9, <2>1
    <3> QED
      BY <1>2, <1>4, <2>1, <3>1
  <2>2. CASE y # g
    <3>1. goals'[y] = goals[y] /\ seen'[y] = seen[y]
      BY <1>4, <1>9, <2>2
    <3> QED
      BY <3>1 DEF GoalsOK, CompleteAtTheEnd
  <2> QED
    BY <2>1, <2>2
<1>12. \A y \in Goals : ~Exists(goals'[y]) => seen'[y] = "nobody"
  BY <1>4, <1>8, <1>9 DEF GoalsOK
<1> QED
  BY <1>4, <1>5, <1>9, <1>10, <1>11, <1>12 DEF GoalsOK, Exists

-----------------------------------------------------------------------------
(* Folders, documents and their readings.                                  *)

\* A folder is being deleted: what lies in it came meanwhile.
FolderJob(h) ==
  LET f == hrDesk[h].record
  IN f \in Folders /\ hrDesk[h].on = {f} /\ \A d \in In(f) : d \in together

\* What the hooks let become of a document has a place, and the request has
\* both in hand.
DocumentJob(h) ==
  LET j == hrDesk[h]
      n == j.new
  IN /\ j.record \in Documents /\ j.on = {j.record, n.folder} \ {"none"}
     /\ n \in DocumentRecords \ {Absent}
     /\ n.folder = "none" => n.employee # "nobody"

\* One in one hand is as it was read, or gone.
DocumentAsRead(h) ==
  LET j == hrDesk[h]
      d == j.record
  IN /\ j.original \in DocumentRecords \ {Absent}
     /\ d \notin together => documents[d] = j.original \/ documents[d] = Absent

DocumentDeskOK ==
  \A h \in Handlers :
    /\ hrDesk[h].op = "delete folder" => FolderJob(h)
    /\ hrDesk[h].op \in {"create document", "document"} => DocumentJob(h)
    /\ hrDesk[h].op = "document" => DocumentAsRead(h)
    /\ hrDesk[h].op = "read" => hrDesk[h].record \in Documents /\ hrDesk[h].by \in People

FoldersExist ==
  \A d \in Documents : Exists(documents[d]) /\ documents[d].folder # "none" =>
    Exists(folders[documents[d].folder])

PeopleKnown ==
  \A d \in Documents :
    Exists(documents[d]) /\ d \notin together /\ documents[d].folder = "none" =>
      documents[d].employee # "nobody"

DocumentsOK ==
  /\ folders \in [Folders -> FolderRecords]
  /\ documents \in [Documents -> DocumentRecords]
  /\ acknowledgements \in [Documents \X People -> Nat]
  /\ DocumentDeskOK /\ FoldersExist /\ PeopleKnown /\ ReadOnce

DocumentOps == {"delete folder", "create document", "document", "read"}

LEMMA Rests == Resting.op = "idle" /\ Resting.op \notin DocumentOps
BY DEF Resting, DocumentOps

\* The jobs in hand stay as long as nothing comes into a folder that is being
\* deleted and a document in hand does not change.
LEMMA DocumentDeskStays ==
  ASSUME DocumentDeskOK, together \subseteq together',
         \A h \in Handlers : hrDesk'[h] = hrDesk[h] \/ hrDesk'[h].op \notin DocumentOps,
         \A h \in Handlers : hrDesk'[h] = hrDesk[h] /\ hrDesk[h].op = "delete folder" =>
           \A d \in In(hrDesk[h].record)' : d \in In(hrDesk[h].record) \union together',
         \A h \in Handlers : hrDesk'[h] = hrDesk[h] /\ hrDesk[h].op = "document" =>
           LET d == hrDesk[h].record
           IN d \notin together' => documents'[d] = documents[d] \/ documents'[d] = Absent
  PROVE  DocumentDeskOK'
<1> SUFFICES ASSUME NEW h \in Handlers, hrDesk'[h].op \in DocumentOps
             PROVE  /\ hrDesk'[h].op = "delete folder" => FolderJob(h)'
                    /\ hrDesk'[h].op \in {"create document", "document"} => DocumentJob(h)'
                    /\ hrDesk'[h].op = "document" => DocumentAsRead(h)'
                    /\ hrDesk'[h].op = "read" =>
                         hrDesk'[h].record \in Documents /\ hrDesk'[h].by \in People
  BY DEF DocumentDeskOK, DocumentOps
<1>1. hrDesk'[h] = hrDesk[h]
  OBVIOUS
<1>2. hrDesk'[h].op = "delete folder" => FolderJob(h)'
  <2> SUFFICES ASSUME hrDesk'[h].op = "delete folder"
               PROVE  FolderJob(h)'
    OBVIOUS
  <2>1. FolderJob(h)
    BY <1>1 DEF DocumentDeskOK
  <2>2. \A d \in In(hrDesk[h].record)' : d \in together'
    BY <1>1, <2>1 DEF FolderJob
  <2> QED
    BY <1>1, <2>1, <2>2 DEF FolderJob, In
<1>3. hrDesk'[h].op \in {"create document", "document"} => DocumentJob(h)'
  BY <1>1 DEF DocumentDeskOK, DocumentJob
<1>4. hrDesk'[h].op = "document" => DocumentAsRead(h)'
  BY <1>1 DEF DocumentDeskOK, DocumentAsRead
<1>5. hrDesk'[h].op = "read" => hrDesk'[h].record \in Documents /\ hrDesk'[h].by \in People
  BY <1>1 DEF DocumentDeskOK
<1> QED
  BY <1>2, <1>3, <1>4, <1>5

\* A new job beside those.
LEMMA DocumentDeskTakes ==
  ASSUME DocumentDeskOK, NEW h \in Handlers,
         UNCHANGED documents, together \subseteq together',
         \A g \in Handlers \ {h} : hrDesk'[g] = hrDesk[g],
         hrDesk'[h].op = "delete folder" => FolderJob(h)',
         hrDesk'[h].op \in {"create document", "document"} => DocumentJob(h)',
         hrDesk'[h].op = "document" => DocumentAsRead(h)',
         hrDesk'[h].op = "read" => hrDesk'[h].record \in Documents /\ hrDesk'[h].by \in People
  PROVE  DocumentDeskOK'
<1> SUFFICES ASSUME NEW g \in Handlers \ {h}
             PROVE  /\ hrDesk'[g].op = "delete folder" => FolderJob(g)'
                    /\ hrDesk'[g].op \in {"create document", "document"} => DocumentJob(g)'
                    /\ hrDesk'[g].op = "document" => DocumentAsRead(g)'
                    /\ hrDesk'[g].op = "read" =>
                         hrDesk'[g].record \in Documents /\ hrDesk'[g].by \in People
  BY DEF DocumentDeskOK
<1>1. hrDesk'[g] = hrDesk[g]
  OBVIOUS
<1>2. hrDesk[g].op = "delete folder" => FolderJob(g)'
  BY <1>1 DEF DocumentDeskOK, FolderJob, In, Exists
<1>3. hrDesk[g].op \in {"create document", "document"} => DocumentJob(g)'
  BY <1>1 DEF DocumentDeskOK, DocumentJob
<1>4. hrDesk[g].op = "document" => DocumentAsRead(g)'
  BY <1>1 DEF DocumentDeskOK, DocumentAsRead
<1> QED
  BY <1>1, <1>2, <1>3, <1>4 DEF DocumentDeskOK

LEMMA DocumentsStay ==
  ASSUME DocumentsOK, UNCHANGED <<folders, documents, acknowledgements>>,
         together \subseteq together',
         \A h \in Handlers : hrDesk'[h] = hrDesk[h] \/ hrDesk'[h].op \notin DocumentOps
  PROVE  DocumentsOK'
<1>1. \A f : In(f)' = In(f)
  BY DEF DocumentsOK, In, Exists
<1>2. DocumentDeskOK'
  BY <1>1, DocumentDeskStays DEF DocumentsOK
<1>3. FoldersExist' /\ PeopleKnown' /\ ReadOnce'
  BY DEF DocumentsOK, FoldersExist, PeopleKnown, ReadOnce, Exists
<1> QED
  BY <1>2, <1>3 DEF DocumentsOK

LEMMA FolderSaveKeeps ==
  ASSUME DocumentsOK, NEW f \in Folders, NEW v \in {"company", "selected", "management"},
         NEW allowed \in FolderLists, FolderSave(f, v, allowed)
  PROVE  DocumentsOK'
<1> DEFINE r == [stage |-> "stored", visibility |-> v,
                 allowed |-> IF v = "selected" THEN allowed ELSE {}]
<1>1. /\ folders' = [folders EXCEPT ![f] = r]
      /\ UNCHANGED <<documents, acknowledgements, hrDesk, together>>
  BY DEF FolderSave
<1>2. (IF v = "selected" THEN allowed ELSE {}) \in SUBSET People
  BY HrData
<1>3. r \in FolderRecords /\ Exists(r)
  BY <1>2 DEF FolderRecords, Exists
<1> HIDE DEF r
<1>4. /\ folders' \in [Folders -> FolderRecords]
      /\ \A g \in Folders : folders'[g] = IF g = f THEN r ELSE folders[g]
  BY <1>1, <1>3 DEF DocumentsOK
<1>5. \A g : In(g)' = In(g)
  BY <1>1 DEF In, Exists
<1>6. DocumentDeskOK'
  BY <1>1, <1>5, DocumentDeskStays DEF DocumentsOK
<1>7. FoldersExist'
  <2>1. \A d \in Documents : Exists(documents[d]) => documents[d].folder \in Folders \union {"none"}
    BY DEF DocumentsOK, DocumentRecords, Exists, Absent
  <2> QED
    BY <1>1, <1>3, <1>4, <2>1 DEF DocumentsOK, FoldersExist, Exists
<1>8. PeopleKnown' /\ ReadOnce'
  BY <1>1 DEF DocumentsOK, PeopleKnown, ReadOnce, Exists
<1> QED
  BY <1>1, <1>4, <1>6, <1>7, <1>8 DEF DocumentsOK

LEMMA FolderDeleteReadKeeps ==
  ASSUME DeskOK, DocumentsOK, NEW h \in Handlers, NEW f \in Folders, FolderDeleteRead(h, f)
  PROVE  DocumentsOK' /\ DeskOK' /\ together \subseteq together' /\ hrDesk'[h].op \in DocumentOps
         /\ \A g \in Handlers \ {h} : hrDesk'[g] = hrDesk[g]
<1> DEFINE job == [op |-> "delete folder", on |-> {f}, record |-> f]
<1>1. /\ In(f) = {} /\ TakesInHand(h, job)
      /\ UNCHANGED <<folders, documents, acknowledgements>>
  BY DEF FolderDeleteRead
<1>2. job.op = "delete folder" /\ job.on = {f} /\ job.record = f
  OBVIOUS
<1> HIDE DEF job
<1>3. /\ DeskOK' /\ together \subseteq together' /\ hrDesk'[h] = job
      /\ \A g \in Handlers \ {h} : hrDesk'[g] = hrDesk[g]
  BY <1>1, <1>2, TakingInHand
<1>4. FolderJob(h)'
  BY <1>1, <1>2, <1>3 DEF FolderJob, In, Exists
<1>5. DocumentDeskOK'
  BY <1>1, <1>2, <1>3, <1>4, DocumentDeskTakes DEF DocumentsOK
<1>6. FoldersExist' /\ PeopleKnown' /\ ReadOnce'
  BY <1>1, <1>3 DEF DocumentsOK, FoldersExist, PeopleKnown, ReadOnce, Exists
<1> QED
  BY <1>1, <1>2, <1>3, <1>5, <1>6 DEF DocumentsOK, DocumentOps

LEMMA FolderDeleteKeeps ==
  ASSUME DeskOK, DocumentsOK, NEW h \in Handlers, FolderDelete(h)
  PROVE  DocumentsOK'
<1> DEFINE f == hrDesk[h].record
<1>1. /\ hrDesk[h].op = "delete folder"
      /\ folders' = [folders EXCEPT ![f] = Absent]
      /\ documents' = [d \in Documents |->
           IF d \in In(f) THEN [documents[d] EXCEPT !.folder = "none"] ELSE documents[d]]
      /\ Leaves(h) /\ UNCHANGED acknowledgements
  BY DEF FolderDelete
<1>2. f \in Folders /\ \A d \in In(f) : d \in together
  BY <1>1 DEF DocumentsOK, DocumentDeskOK, FolderJob
<1>3. /\ together' = together /\ hrDesk'[h] = Resting
      /\ \A g \in Handlers \ {h} : hrDesk'[g] = hrDesk[g]
  BY <1>1, LeavingDesk
<1> HIDE DEF f
<1>4. /\ folders' \in [Folders -> FolderRecords]
      /\ \A g \in Folders : folders'[g] = IF g = f THEN Absent ELSE folders[g]
  BY <1>1, <1>2 DEF DocumentsOK, FolderRecords
<1>5. \A d \in In(f) : /\ documents'[d] \in DocumentRecords \ {Absent}
                       /\ documents'[d].folder = "none"
  <2> SUFFICES ASSUME NEW d \in In(f)
               PROVE  [documents[d] EXCEPT !.folder = "none"] \in DocumentRecords \ {Absent}
                      /\ [documents[d] EXCEPT !.folder = "none"].folder = "none"
    BY <1>1 DEF In
  <2>1. documents[d] \in DocumentRecords \ {Absent}
    BY DEF In, Exists, Absent, DocumentsOK
  <2> QED
    BY <2>1 DEF DocumentRecords, Absent
<1>6. \A d \in Documents \ In(f) : documents'[d] = documents[d]
  BY <1>1
<1>7. documents' \in [Documents -> DocumentRecords]
  <2>1. \A d \in Documents : documents'[d] \in DocumentRecords
    BY <1>5, <1>6 DEF DocumentsOK
  <2> QED
    BY <1>1, <2>1
<1>8. \A d \in Documents :
        Exists(documents'[d]) /\ documents'[d].folder # "none" =>
          d \notin In(f) /\ documents'[d] = documents[d] /\ documents[d].folder # f
  BY <1>5, <1>6 DEF In
<1>9. DocumentDeskOK'
  <2>1. \A g \in Handlers : hrDesk'[g] = hrDesk[g] \/ hrDesk'[g].op \notin DocumentOps
    <3>1. hrDesk'[h].op \notin DocumentOps
      BY <1>3, Rests
    <3> QED
      BY <1>3, <3>1
  <2>2. ASSUME NEW g \in Handlers, hrDesk'[g] = hrDesk[g], hrDesk[g].op = "delete folder"
        PROVE  \A d \in In(hrDesk[g].record)' : d \in In(hrDesk[g].record) \union together'
    <3>1. FolderJob(g)
      BY <2>2 DEF DocumentsOK, DocumentDeskOK
    <3>2. hrDesk[g].record # "none"
      BY <3>1, HrData DEF FolderJob
    <3>3. \A d \in In(hrDesk[g].record)' : d \in In(hrDesk[g].record)
      BY <1>8, <2>2, <3>2 DEF In, Exists
    <3> QED
      BY <3>3
  <2>3. ASSUME NEW g \in Handlers, hrDesk[g].op = "document", hrDesk[g].record \notin together'
        PROVE  documents'[hrDesk[g].record] = documents[hrDesk[g].record]
    <3>1. hrDesk[g].record \in Documents
      BY <2>3 DEF DocumentsOK, DocumentDeskOK, DocumentJob
    <3> QED
      BY <1>2, <1>3, <1>6, <2>3, <3>1
  <2> QED
    <3>1. \A g \in Handlers : hrDesk'[g] = hrDesk[g] /\ hrDesk[g].op = "delete folder" =>
            \A d \in In(hrDesk[g].record)' : d \in In(hrDesk[g].record) \union together'
      BY <2>2
    <3>2. \A g \in Handlers : hrDesk'[g] = hrDesk[g] /\ hrDesk[g].op = "document" =>
            LET d == hrDesk[g].record
            IN d \notin together' => documents'[d] = documents[d] \/ documents'[d] = Absent
      BY <2>3
    <3>3. DocumentDeskOK /\ together \subseteq together'
      BY <1>3 DEF DocumentsOK
    <3> QED
      BY <2>1, <3>1, <3>2, <3>3, DocumentDeskStays
<1>10. FoldersExist'
  <2> SUFFICES ASSUME NEW d \in Documents, Exists(documents'[d]), documents'[d].folder # "none"
               PROVE  Exists(folders'[documents'[d].folder])
    BY DEF FoldersExist, Exists
  <2>1. documents'[d] = documents[d] /\ documents[d].folder # f
    BY <1>8
  <2>2. documents[d].folder \in Folders
    BY <2>1 DEF DocumentsOK, DocumentRecords, Exists, Absent
  <2>3. Exists(folders[documents[d].folder])
    BY <2>1 DEF DocumentsOK, FoldersExist
  <2> QED
    BY <1>4, <2>1, <2>2, <2>3
<1>11. PeopleKnown'
  BY <1>2, <1>3, <1>6 DEF DocumentsOK, PeopleKnown, Exists
<1>12. ReadOnce'
  BY <1>1 DEF DocumentsOK, ReadOnce
<1> QED
  BY <1>1, <1>4, <1>7, <1>9, <1>10, <1>11, <1>12 DEF DocumentsOK

LEMMA DocumentCreateReadKeeps ==
  ASSUME DeskOK, DocumentsOK, NEW h \in Handlers, NEW d \in Documents, NEW p \in People,
         NEW x \in DocumentInputs, DocumentCreateRead(h, d, p, x)
  PROVE  DocumentsOK' /\ DeskOK' /\ together \subseteq together' /\ hrDesk'[h].op \in DocumentOps
         /\ \A g \in Handlers \ {h} : hrDesk'[g] = hrDesk[g]
<1>1. PICK n \in DocumentCreate(p, x.folder, x.employee, x.visibility, x.required) :
        TakesInHand(h, [op |-> "create document", on |-> {d, x.folder} \ {"none"}, record |-> d,
                        new |-> n, by |-> p])
  BY DEF DocumentCreateRead
<1>2. UNCHANGED <<folders, documents, acknowledgements>>
  BY DEF DocumentCreateRead
<1>3. /\ x.folder \in Folders \union {"none"} /\ x.employee \in People \union {"nobody"}
      /\ x.visibility \in {"employee", "company", "management", "folder"}
      /\ x.required \in BOOLEAN /\ p # "nobody"
  BY HrData
<1> DEFINE new(f, e, v) == [stage |-> "stored", folder |-> f, employee |-> e, visibility |-> v,
                            required |-> x.required, acknowledged |-> FALSE]
<1>4. \A f \in Folders \union {"none"}, e \in People \union {"nobody"},
         v \in {"employee", "company", "management", "folder"} :
        /\ new(f, e, v) \in DocumentRecords \ {Absent}
        /\ new(f, e, v).folder = f /\ new(f, e, v).employee = e
  BY <1>3 DEF DocumentRecords, Absent
<1>5. \/ x.folder # "none" /\ n = new(x.folder, "nobody", "folder")
      \/ x.folder = "none" /\ \E e \in People, v \in {"employee", "company", "management"} :
                                 n = new("none", e, v)
  <2>1. CASE x.folder # "none"
    BY <1>1, <2>1 DEF DocumentCreate
  <2>2. CASE x.folder = "none" /\ Manages(p)
    <3>1. /\ x.visibility # "folder"
          /\ n = new("none", IF x.employee = "nobody" THEN p ELSE x.employee, x.visibility)
      BY <1>1, <2>2 DEF DocumentCreate
    <3> QED
      BY <1>3, <2>2, <3>1
  <2>3. CASE x.folder = "none" /\ ~Manages(p)
    <3>1. \/ n = new("none", p, "employee")
          \/ x.visibility # "folder" /\ n = new("none", p, x.visibility)
      BY <1>1, <2>3 DEF DocumentCreate
    <3> QED
      BY <1>3, <2>3, <3>1
  <2> QED
    BY <2>1, <2>2, <2>3
<1>6. /\ n \in DocumentRecords \ {Absent} /\ n.folder = x.folder
      /\ n.folder = "none" => n.employee # "nobody"
  <2> HIDE DEF new
  <2>1. CASE x.folder # "none"
    BY <1>3, <1>4, <1>5, <2>1
  <2>2. CASE x.folder = "none"
    <3>1. PICK e \in People, v \in {"employee", "company", "management"} : n = new("none", e, v)
      BY <1>5, <2>2
    <3>2. e # "nobody"
      BY HrData
    <3>3. e \in People \union {"nobody"} /\ v \in {"employee", "company", "management", "folder"}
      OBVIOUS
    <3>4. n \in DocumentRecords \ {Absent} /\ n.folder = "none" /\ n.employee = e
      BY <1>4, <3>1, <3>3
    <3> QED
      BY <2>2, <3>2, <3>4
  <2> QED
    BY <2>1, <2>2
<1> HIDE DEF new
<1> DEFINE job == [op |-> "create document", on |-> {d, x.folder} \ {"none"}, record |-> d,
                   new |-> n, by |-> p]
<1>7. /\ job.op = "create document" /\ job.on = {d, x.folder} \ {"none"}
      /\ job.record = d /\ job.new = n
  OBVIOUS
<1> HIDE DEF job
<1>8. /\ DeskOK' /\ together \subseteq together' /\ hrDesk'[h] = job
      /\ \A g \in Handlers \ {h} : hrDesk'[g] = hrDesk[g]
  BY <1>1, <1>7, TakingInHand DEF job
<1>9. DocumentJob(h)'
  BY <1>6, <1>7, <1>8 DEF DocumentJob
<1>10. DocumentDeskOK'
  BY <1>2, <1>7, <1>8, <1>9, DocumentDeskTakes DEF DocumentsOK
<1>11. FoldersExist' /\ PeopleKnown' /\ ReadOnce'
  BY <1>2, <1>8 DEF DocumentsOK, FoldersExist, PeopleKnown, ReadOnce, Exists
<1> QED
  BY <1>2, <1>7, <1>8, <1>10, <1>11 DEF DocumentsOK, DocumentOps

\* What a save of a document in hand leaves of the others in hand.
LEMMA DocumentSaves ==
  ASSUME DeskOK, DocumentsOK, NEW h \in Handlers, Leaves(h),
         hrDesk[h].op \in {"create document", "document"},
         NEW r, r \in DocumentRecords, documents' = [documents EXCEPT ![hrDesk[h].record] = r],
         UNCHANGED <<folders, acknowledgements>>,
         Exists(r) /\ r.folder # "none" => Exists(folders[r.folder]),
         hrDesk[h].record \notin together /\ Exists(r) =>
           /\ r.folder = "none" => r.employee # "nobody"
           /\ r.folder = hrDesk[h].new.folder
  PROVE  DocumentsOK'
<1> DEFINE d == hrDesk[h].record
           f == hrDesk[h].new.folder
<1>1. /\ together' = together /\ hrDesk'[h] = Resting
      /\ \A g \in Handlers \ {h} : hrDesk'[g] = hrDesk[g]
  BY LeavingDesk
<1>2. DocumentJob(h) /\ hrDesk[h].op # "idle"
  BY DEF DocumentsOK, DocumentDeskOK
<1>3. d \in Documents /\ d # "none" /\ hrDesk[h].on = {d, f} \ {"none"}
  BY <1>2, HrData DEF DocumentJob
<1>4. /\ documents' \in [Documents -> DocumentRecords]
      /\ \A x \in Documents : documents'[x] = IF x = d THEN r ELSE documents[x]
  BY <1>3 DEF DocumentsOK
<1> HIDE DEF d, f
<1>5. \A g \in Handlers : hrDesk'[g] = hrDesk[g] \/ hrDesk'[g].op \notin DocumentOps
  <2>1. hrDesk'[h].op \notin DocumentOps
    BY <1>1, Rests
  <2> QED
    BY <1>1, <2>1
<1>6. ASSUME NEW g \in Handlers, hrDesk'[g] = hrDesk[g], hrDesk[g].op = "delete folder"
      PROVE  \A y \in In(hrDesk[g].record)' : y \in In(hrDesk[g].record) \union together'
  <2>1. FolderJob(g) /\ g # h
    BY <1>6 DEF DocumentsOK, DocumentDeskOK
  <2>2. hrDesk[g].record # "none" /\ hrDesk[g].on = {hrDesk[g].record}
    BY <2>1, HrData DEF FolderJob
  <2>3. \A y \in In(hrDesk[g].record)' :
          y \in In(hrDesk[g].record)
            \/ (y = d /\ Exists(r) /\ r.folder = hrDesk[g].record)
    BY <1>4, <1>6 DEF In, Exists
  <2>4. ASSUME Exists(r), r.folder = hrDesk[g].record PROVE d \in together
    <3> SUFFICES ASSUME d \notin together PROVE FALSE
      OBVIOUS
    <3>1. hrDesk[g].record = f
      BY <2>4 DEF d, f
    <3>2. f \in hrDesk[h].on \intersect hrDesk[g].on
      BY <1>3, <2>2, <3>1
    <3>3. hrDesk[h].on \subseteq together
      BY <1>2, <1>6, <2>1, <3>2 DEF DeskOK
    <3> QED
      BY <1>3, <3>3
  <2> QED
    BY <1>1, <2>3, <2>4
<1>7. ASSUME NEW g \in Handlers, hrDesk'[g] = hrDesk[g], hrDesk[g].op = "document",
             hrDesk[g].record \notin together'
      PROVE  documents'[hrDesk[g].record] = documents[hrDesk[g].record]
  <2>1. DocumentJob(g) /\ g # h
    BY <1>1, <1>7, Rests DEF DocumentsOK, DocumentDeskOK
  <2>2. hrDesk[g].record \in Documents \ {"none"} /\ hrDesk[g].record \in hrDesk[g].on
    BY <2>1, HrData DEF DocumentJob
  <2>3. hrDesk[g].record # d
    <3> SUFFICES ASSUME hrDesk[g].record = d PROVE FALSE
      OBVIOUS
    <3>1. d \in hrDesk[h].on \intersect hrDesk[g].on
      BY <1>3, <2>2
    <3>2. hrDesk[g].on \subseteq together
      BY <1>2, <1>7, <2>1, <3>1 DEF DeskOK
    <3> QED
      BY <1>1, <1>7, <2>2, <3>2
  <2> QED
    BY <1>4, <2>2, <2>3
<1>8. DocumentDeskOK'
  <2>1. \A g \in Handlers : hrDesk'[g] = hrDesk[g] /\ hrDesk[g].op = "delete folder" =>
          \A y \in In(hrDesk[g].record)' : y \in In(hrDesk[g].record) \union together'
    BY <1>6
  <2>2. \A g \in Handlers : hrDesk'[g] = hrDesk[g] /\ hrDesk[g].op = "document" =>
          LET y == hrDesk[g].record
          IN y \notin together' => documents'[y] = documents[y] \/ documents'[y] = Absent
    BY <1>7
  <2>3. DocumentDeskOK /\ together \subseteq together'
    BY <1>1 DEF DocumentsOK
  <2> QED
    BY <1>5, <2>1, <2>2, <2>3, DocumentDeskStays
<1>9. FoldersExist'
  <2> SUFFICES ASSUME NEW y \in Documents, Exists(documents'[y]), documents'[y].folder # "none"
               PROVE  Exists(folders[documents'[y].folder])
    BY DEF FoldersExist, Exists
  <2>1. CASE y = d
    BY <1>4, <2>1
  <2>2. CASE y # d
    BY <1>4, <2>2 DEF DocumentsOK, FoldersExist
  <2> QED
    BY <2>1, <2>2
<1>10. PeopleKnown'
  <2> SUFFICES ASSUME NEW y \in Documents, Exists(documents'[y]), y \notin together,
                      documents'[y].folder = "none"
               PROVE  documents'[y].employee # "nobody"
    BY <1>1 DEF PeopleKnown, Exists
  <2>1. CASE y = d
    BY <1>4, <2>1 DEF d
  <2>2. CASE y # d
    BY <1>4, <2>2 DEF DocumentsOK, PeopleKnown
  <2> QED
    BY <2>1, <2>2
<1>11. ReadOnce'
  BY DEF DocumentsOK, ReadOnce
<1> QED
  BY <1>4, <1>8, <1>9, <1>10, <1>11 DEF DocumentsOK

LEMMA DocumentCreateSaveKeeps ==
  ASSUME DeskOK, DocumentsOK, NEW h \in Handlers, DocumentCreateSave(h)
  PROVE  DocumentsOK'
<1> DEFINE d == hrDesk[h].record
           n == hrDesk[h].new
           saved == documents[d] = Absent /\ (n.folder = "none" \/ Exists(folders[n.folder]))
<1>1. /\ hrDesk[h].op = "create document"
      /\ documents' = IF saved THEN [documents EXCEPT ![d] = n] ELSE documents
      /\ Leaves(h) /\ UNCHANGED <<folders, acknowledgements>>
  BY DEF DocumentCreateSave
<1>2. /\ d \in Documents /\ n \in DocumentRecords
      /\ n.folder = "none" => n.employee # "nobody"
  BY <1>1 DEF DocumentsOK, DocumentDeskOK, DocumentJob
<1>3. CASE saved
  BY <1>1, <1>2, <1>3, DocumentSaves
<1>4. CASE ~saved
  <2>1. /\ together' = together /\ hrDesk'[h] = Resting
        /\ \A g \in Handlers \ {h} : hrDesk'[g] = hrDesk[g]
    BY <1>1, LeavingDesk
  <2>2. hrDesk'[h].op \notin DocumentOps
    BY <2>1, Rests
  <2>3. \A g \in Handlers : hrDesk'[g] = hrDesk[g] \/ hrDesk'[g].op \notin DocumentOps
    BY <2>1, <2>2
  <2> QED
    BY <1>1, <1>4, <2>1, <2>3, DocumentsStay
<1> QED
  BY <1>3, <1>4

LEMMA DocumentUpdateReadKeeps ==
  ASSUME DeskOK, DocumentsOK, NEW h \in Handlers, NEW d \in Documents, NEW p \in People,
         NEW x \in DocumentInputs, DocumentUpdateRead(h, d, p, x)
  PROVE  DocumentsOK' /\ DeskOK' /\ together \subseteq together' /\ hrDesk'[h].op \in DocumentOps
         /\ \A g \in Handlers \ {h} : hrDesk'[g] = hrDesk[g]
<1> DEFINE o == documents[d]
<1>1. PICK n \in DocumentUpdate(o, p, x.folder, x.employee, x.visibility) :
        TakesInHand(h, [op |-> "document", on |-> {d, n.folder} \ {"none"}, record |-> d,
                        original |-> o, new |-> n])
  BY DEF DocumentUpdateRead
<1>2. Exists(o) /\ UNCHANGED <<folders, documents, acknowledgements>>
  BY DEF DocumentUpdateRead
<1>3. o \in DocumentRecords \ {Absent}
  BY <1>2 DEF DocumentsOK, Exists, Absent
<1>4. /\ x.folder \in Folders \union {"none"} /\ x.employee \in People \union {"nobody"}
      /\ x.visibility \in {"employee", "company", "management", "folder"} /\ p # "nobody"
  BY HrData
<1>5. n \in DocumentRecords \ {Absent} /\ (n.folder = "none" => n.employee # "nobody")
  <2>1. CASE o.employee = p /\ RoleOf[p] = "employee"
    <3>1. n = [o EXCEPT !.acknowledged = TRUE]
      BY <1>1, <2>1 DEF DocumentUpdate
    <3> QED
      BY <1>3, <1>4, <2>1, <3>1 DEF DocumentRecords, Absent
  <2>2. CASE ~(o.employee = p /\ RoleOf[p] = "employee") /\ x.folder # "none"
    <3>1. n = [o EXCEPT !.folder = x.folder, !.employee = "nobody", !.visibility = "folder"]
      BY <1>1, <2>2 DEF DocumentUpdate
    <3> QED
      BY <1>3, <1>4, <2>2, <3>1 DEF DocumentRecords, Absent
  <2>3. CASE ~(o.employee = p /\ RoleOf[p] = "employee") /\ x.folder = "none"
    <3>1. /\ x.employee # "nobody"
          /\ n = [o EXCEPT !.folder = "none", !.employee = x.employee, !.visibility = x.visibility]
      BY <1>1, <2>3 DEF DocumentUpdate
    <3> QED
      BY <1>3, <1>4, <3>1 DEF DocumentRecords, Absent
  <2> QED
    BY <2>1, <2>2, <2>3
<1> DEFINE job == [op |-> "document", on |-> {d, n.folder} \ {"none"}, record |-> d,
                   original |-> o, new |-> n]
<1>6. /\ job.op = "document" /\ job.on = {d, n.folder} \ {"none"}
      /\ job.record = d /\ job.original = o /\ job.new = n
  OBVIOUS
<1> HIDE DEF job, o
<1>7. /\ DeskOK' /\ together \subseteq together' /\ hrDesk'[h] = job
      /\ \A g \in Handlers \ {h} : hrDesk'[g] = hrDesk[g]
  BY <1>1, <1>6, TakingInHand DEF job
<1>8. DocumentJob(h)'
  BY <1>5, <1>6, <1>7 DEF DocumentJob
<1>9. DocumentAsRead(h)'
  BY <1>2, <1>3, <1>6, <1>7 DEF DocumentAsRead, o
<1>10. DocumentDeskOK'
  BY <1>2, <1>6, <1>7, <1>8, <1>9, DocumentDeskTakes DEF DocumentsOK
<1>11. FoldersExist' /\ PeopleKnown' /\ ReadOnce'
  BY <1>2, <1>7 DEF DocumentsOK, FoldersExist, PeopleKnown, ReadOnce, Exists
<1> QED
  BY <1>2, <1>6, <1>7, <1>10, <1>11 DEF DocumentsOK, DocumentOps

LEMMA DocumentWritten ==
  ASSUME NEW s \in DocumentRecords \ {Absent}, NEW x \in DocumentRecords \ {Absent},
         NEW n \in DocumentRecords \ {Absent}
  PROVE  /\ Written(s, x, n) \in DocumentRecords \ {Absent}
         /\ s = x => Written(s, x, n) = n
         /\ Written(s, x, n).folder \in {s.folder, n.folder}
<1> DEFINE P(f) == IF n[f] # x[f] THEN n[f] ELSE s[f]
<1>1. Written(s, x, n) =
        [stage |-> "stored", folder |-> P("folder"), employee |-> P("employee"),
         visibility |-> P("visibility"), required |-> P("required"),
         acknowledged |-> P("acknowledged")]
  BY DEF Written, DocumentRecords, Absent
<1>2. /\ P("folder") \in Folders \union {"none"} /\ P("employee") \in People \union {"nobody"}
      /\ P("visibility") \in {"employee", "company", "management", "folder"}
      /\ P("required") \in BOOLEAN /\ P("acknowledged") \in BOOLEAN
  BY DEF DocumentRecords, Absent
<1>3. Written(s, x, n) \in DocumentRecords \ {Absent}
  BY <1>1, <1>2 DEF DocumentRecords, Absent
<1>4. ASSUME s = x PROVE Written(s, x, n) = n
  BY <1>1, <1>4 DEF DocumentRecords, Absent
<1>5. Written(s, x, n).folder \in {s.folder, n.folder}
  BY <1>1
<1> QED
  BY <1>3, <1>4, <1>5

LEMMA DocumentUpdateSaveKeeps ==
  ASSUME DeskOK, DocumentsOK, NEW h \in Handlers, DocumentUpdateSave(h)
  PROVE  DocumentsOK'
<1> DEFINE d == hrDesk[h].record
           x == hrDesk[h].original
           n == hrDesk[h].new
           s == documents[d]
           w == Written(s, x, n)
           saved == Exists(s) /\ (n.folder = "none" \/ Exists(folders[n.folder]))
<1>1. /\ hrDesk[h].op = "document"
      /\ documents' = IF saved THEN [documents EXCEPT ![d] = w] ELSE documents
      /\ Leaves(h) /\ UNCHANGED <<folders, acknowledgements>>
  BY DEF DocumentUpdateSave
<1>2. /\ d \in Documents /\ n \in DocumentRecords \ {Absent}
      /\ n.folder = "none" => n.employee # "nobody"
      /\ x \in DocumentRecords \ {Absent}
      /\ d \notin together => s = x \/ s = Absent
  BY <1>1 DEF DocumentsOK, DocumentDeskOK, DocumentJob, DocumentAsRead
<1>3. CASE saved
  <2>1. s \in DocumentRecords \ {Absent}
    BY <1>2, <1>3 DEF DocumentsOK, Exists, Absent
  <2>2. /\ w \in DocumentRecords /\ (s = x => w = n) /\ w.folder \in {s.folder, n.folder}
    BY <1>2, <2>1, DocumentWritten
  <2>3. s.folder # "none" => Exists(folders[s.folder])
    BY <1>2, <1>3 DEF DocumentsOK, FoldersExist
  <2>4. w.folder # "none" => Exists(folders[w.folder])
    BY <1>3, <2>2, <2>3
  <2>5. d \notin together => w = n
    BY <1>2, <2>1, <2>2
  <2>6. documents' = [documents EXCEPT ![d] = w]
    BY <1>1, <1>3
  <2>7. d \notin together /\ Exists(w) =>
          (w.folder = "none" => w.employee # "nobody") /\ w.folder = n.folder
    BY <1>2, <2>5
  <2>8. /\ w \in DocumentRecords /\ hrDesk[h].op \in {"create document", "document"}
        /\ Exists(w) /\ w.folder # "none" => Exists(folders[w.folder])
        /\ Leaves(h) /\ UNCHANGED <<folders, acknowledgements>>
    BY <1>1, <2>2, <2>4
  <2> HIDE DEF w
  <2> QED
    BY <2>6, <2>7, <2>8, DocumentSaves
<1>4. CASE ~saved
  <2>1. /\ together' = together /\ hrDesk'[h] = Resting
        /\ \A g \in Handlers \ {h} : hrDesk'[g] = hrDesk[g]
    BY <1>1, LeavingDesk
  <2>2. hrDesk'[h].op \notin DocumentOps
    BY <2>1, Rests
  <2>3. \A g \in Handlers : hrDesk'[g] = hrDesk[g] \/ hrDesk'[g].op \notin DocumentOps
    BY <2>1, <2>2
  <2> QED
    BY <1>1, <1>4, <2>1, <2>3, DocumentsStay
<1> QED
  BY <1>3, <1>4

LEMMA DocumentDeleteKeeps ==
  ASSUME DocumentsOK, NEW d \in Documents, NEW p \in People, DocumentDelete(d, p)
  PROVE  DocumentsOK'
<1>1. /\ documents' = [documents EXCEPT ![d] = Absent]
      /\ acknowledgements' = [a \in Documents \X People |->
           IF a[1] = d THEN 0 ELSE acknowledgements[a]]
      /\ UNCHANGED <<folders, hrDesk, together>>
  BY DEF DocumentDelete
<1>2. /\ documents' \in [Documents -> DocumentRecords]
      /\ \A x \in Documents : documents'[x] = IF x = d THEN Absent ELSE documents[x]
  BY <1>1 DEF DocumentsOK, DocumentRecords
<1>3. \A f : In(f)' \subseteq In(f)
  BY <1>2 DEF In, Exists, Absent
<1>4. DocumentDeskOK'
  <2>1. \A h \in Handlers : hrDesk'[h] = hrDesk[h] /\ hrDesk[h].op = "delete folder" =>
          \A y \in In(hrDesk[h].record)' : y \in In(hrDesk[h].record) \union together'
    BY <1>1, <1>2 DEF In, Exists, Absent
  <2>2. \A h \in Handlers : hrDesk'[h] = hrDesk[h] /\ hrDesk[h].op = "document" =>
          LET y == hrDesk[h].record
          IN y \notin together' => documents'[y] = documents[y] \/ documents'[y] = Absent
    BY <1>2 DEF DocumentsOK, DocumentDeskOK, DocumentJob
  <2> QED
    BY <1>1, <2>1, <2>2, DocumentDeskStays DEF DocumentsOK
<1>5. FoldersExist' /\ PeopleKnown'
  BY <1>1, <1>2 DEF DocumentsOK, FoldersExist, PeopleKnown, Exists, Absent
<1>6. acknowledgements' \in [Documents \X People -> Nat] /\ ReadOnce'
  BY <1>1 DEF DocumentsOK, ReadOnce
<1> QED
  BY <1>1, <1>2, <1>4, <1>5, <1>6 DEF DocumentsOK

LEMMA AcknowledgementReadKeeps ==
  ASSUME DeskOK, DocumentsOK, NEW h \in Handlers, NEW d \in Documents, NEW p \in People,
         AcknowledgementRead(h, d, p)
  PROVE  DocumentsOK' /\ DeskOK' /\ together \subseteq together' /\ hrDesk'[h].op \in DocumentOps
         /\ \A g \in Handlers \ {h} : hrDesk'[g] = hrDesk[g]
<1> DEFINE job == [op |-> "read", on |-> {}, record |-> d, by |-> p]
<1>1. TakesInHand(h, job) /\ UNCHANGED <<folders, documents, acknowledgements>>
  BY DEF AcknowledgementRead
<1>2. job.op = "read" /\ job.record = d /\ job.by = p
  OBVIOUS
<1> HIDE DEF job
<1>3. /\ DeskOK' /\ together \subseteq together' /\ hrDesk'[h] = job
      /\ \A g \in Handlers \ {h} : hrDesk'[g] = hrDesk[g]
  BY <1>1, <1>2, TakingInHand
<1>4. DocumentDeskOK'
  BY <1>1, <1>2, <1>3, DocumentDeskTakes DEF DocumentsOK
<1>5. FoldersExist' /\ PeopleKnown' /\ ReadOnce'
  BY <1>1, <1>3 DEF DocumentsOK, FoldersExist, PeopleKnown, ReadOnce, Exists
<1> QED
  BY <1>1, <1>2, <1>3, <1>4, <1>5 DEF DocumentsOK, DocumentOps

LEMMA AcknowledgementSaveKeeps ==
  ASSUME DeskOK, DocumentsOK, NEW h \in Handlers, AcknowledgementSave(h)
  PROVE  DocumentsOK'
<1> DEFINE reading == <<hrDesk[h].record, hrDesk[h].by>>
<1>1. /\ hrDesk[h].op = "read" /\ Leaves(h) /\ UNCHANGED <<folders, documents>>
      /\ \/ acknowledgements' = acknowledgements
         \/ /\ acknowledgements[reading] = 0
            /\ acknowledgements' = [acknowledgements EXCEPT ![reading] = @ + 1]
  BY DEF AcknowledgementSave
<1>2. reading \in Documents \X People
  BY <1>1 DEF DocumentsOK, DocumentDeskOK
<1>3. /\ together' = together /\ hrDesk'[h] = Resting
      /\ \A g \in Handlers \ {h} : hrDesk'[g] = hrDesk[g]
  BY <1>1, LeavingDesk
<1> HIDE DEF reading
<1>4. hrDesk'[h].op \notin DocumentOps
  BY <1>3, Rests
<1>5. \A g \in Handlers : hrDesk'[g] = hrDesk[g] \/ hrDesk'[g].op \notin DocumentOps
  BY <1>3, <1>4
<1>6. \A f : In(f)' = In(f)
  BY <1>1 DEF In, Exists
<1>7. DocumentDeskOK'
  BY <1>1, <1>3, <1>5, <1>6, DocumentDeskStays DEF DocumentsOK
<1>8. FoldersExist' /\ PeopleKnown'
  BY <1>1, <1>3 DEF DocumentsOK, FoldersExist, PeopleKnown, Exists
<1>9. acknowledgements' \in [Documents \X People -> Nat] /\ ReadOnce'
  <2>1. acknowledgements \in [Documents \X People -> Nat] /\ ReadOnce
    BY DEF DocumentsOK
  <2>2. CASE acknowledgements' = acknowledgements
    BY <2>1, <2>2 DEF ReadOnce
  <2>3. CASE /\ acknowledgements[reading] = 0
             /\ acknowledgements' = [acknowledgements EXCEPT ![reading] = @ + 1]
    <3>1. /\ acknowledgements' \in [Documents \X People -> Nat]
          /\ \A a \in Documents \X People :
               acknowledgements'[a] = IF a = reading THEN 1 ELSE acknowledgements[a]
      BY <1>2, <2>1, <2>3
    <3> QED
      BY <2>1, <3>1 DEF ReadOnce
  <2> QED
    BY <1>1, <2>2, <2>3
<1> QED
  BY <1>1, <1>7, <1>8, <1>9 DEF DocumentsOK

-----------------------------------------------------------------------------
(* The records keep their meaning.                                         *)

HrInv == DeskOK /\ ExpensesOK /\ TasksOK /\ GoalsOK /\ DocumentsOK

\* The desk changes only where a request of these kinds takes its job or ends.
DeskMoves(ops) ==
  /\ DeskOK' /\ together \subseteq together' /\ told \subseteq told'
  /\ \A g \in Handlers : hrDesk'[g] = hrDesk[g] \/ hrDesk'[g].op \in ops \union {"idle"}

LEMMA DeskRests ==
  ASSUME DeskOK, told \subseteq told', UNCHANGED <<hrDesk, together>>, NEW ops
  PROVE  DeskMoves(ops)
BY DEF DeskMoves, DeskOK

LEMMA DeskLeaves ==
  ASSUME DeskOK, told \subseteq told', NEW h \in Handlers, Leaves(h), NEW ops
  PROVE  DeskMoves(ops)
<1>1. /\ DeskOK' /\ together' = together /\ hrDesk'[h] = Resting
      /\ \A g \in Handlers \ {h} : hrDesk'[g] = hrDesk[g]
  BY LeavingDesk
<1>2. hrDesk'[h].op \in ops \union {"idle"}
  BY <1>1, Rests
<1> QED
  BY <1>1, <1>2 DEF DeskMoves

LEMMA HrInvInit == HrInit => HrInv
<1> SUFFICES ASSUME HrInit
             PROVE  HrInv
  OBVIOUS
<1>1. /\ expenses = [e \in Expenses |-> Absent] /\ tasks = [t \in Tasks |-> Absent]
      /\ goals = [g \in Goals |-> Absent] /\ folders = [f \in Folders |-> Absent]
      /\ documents = [d \in Documents |-> Absent]
      /\ acknowledgements = [a \in Documents \X People |-> 0]
      /\ hrDesk = [h \in Handlers |-> Resting]
      /\ seen = [x \in Expenses \union Goals |-> "nobody"]
  BY DEF HrInit
<1>2. ~Exists(Absent)
  BY DEF Exists, Absent
<1>3. \A h \in Handlers : hrDesk[h].op = "idle"
  BY <1>1, Rests
<1>4. DeskOK
  BY <1>1, <1>3 DEF DeskOK
<1>5. ExpensesOK
  <2>1. Absent \in ExpenseRecords
    BY DEF ExpenseRecords
  <2>2. PaidIsWhatWasApproved
    BY <1>1, <1>2 DEF PaidIsWhatWasApproved
  <2> QED
    BY <1>1, <1>3, <2>1, <2>2 DEF ExpensesOK
<1>6. TasksOK
  <2>1. Absent \in TaskRecords
    BY DEF TaskRecords
  <2>2. CompletedIsDatedAndTold
    BY <1>1, <1>2 DEF CompletedIsDatedAndTold
  <2> QED
    BY <1>1, <1>3, <2>1, <2>2 DEF TasksOK
<1>7. GoalsOK
  <2>1. Absent \in GoalRecords
    BY DEF GoalRecords
  <2>2. CompleteAtTheEnd
    BY <1>1, <1>2 DEF CompleteAtTheEnd
  <2> QED
    BY <1>1, <1>3, <2>1, <2>2 DEF GoalsOK
<1>8. DocumentsOK
  <2>1. Absent \in DocumentRecords /\ Absent \in FolderRecords
    BY DEF DocumentRecords, FolderRecords
  <2>2. FoldersExist /\ PeopleKnown
    BY <1>1, <1>2 DEF FoldersExist, PeopleKnown
  <2>3. ReadOnce /\ acknowledgements \in [Documents \X People -> Nat]
    BY <1>1 DEF ReadOnce
  <2>4. DocumentDeskOK
    BY <1>3 DEF DocumentDeskOK
  <2> QED
    BY <1>1, <2>1, <2>2, <2>3, <2>4 DEF DocumentsOK
<1> QED
  BY <1>4, <1>5, <1>6, <1>7, <1>8 DEF HrInv

LEMMA ExpenseNextKeeps ==
  ASSUME HrInv, ExpenseNext
  PROVE  HrInv'
<1> USE DEF HrInv
<1>1. ExpensesOK' /\ DeskMoves({"expense"}) /\ \A g \in Goals : seen'[g] = seen[g]
  <2>1. ASSUME NEW e \in Expenses, NEW p \in People, NEW amount \in Amounts,
               NEW status \in ExpenseStatuses, ExpenseCreate(e, p, amount, status)
        PROVE  <1>1!:
    <3>1. told \subseteq told' /\ UNCHANGED <<hrDesk, seen, together>>
      BY <2>1 DEF ExpenseCreate
    <3> QED
      BY <2>1, <3>1, ExpenseCreateKeeps, DeskRests
  <2>2. ASSUME NEW h \in Handlers, NEW e \in Expenses, NEW p \in People,
               NEW amount \in Amounts, NEW status \in ExpenseStatuses,
               ExpenseUpdateRead(h, e, p, status, amount)
        PROVE  <1>1!:
    <3>1. UNCHANGED <<told, seen>>
      BY <2>2 DEF ExpenseUpdateRead
    <3>2. /\ ExpensesOK' /\ DeskOK' /\ together \subseteq together' /\ hrDesk'[h].op = "expense"
          /\ \A g \in Handlers \ {h} : hrDesk'[g] = hrDesk[g]
      BY <2>2, ExpenseUpdateReadKeeps
    <3> QED
      BY <3>1, <3>2 DEF DeskMoves
  <2>3. ASSUME NEW h \in Handlers, ExpenseUpdateSave(h)
        PROVE  <1>1!:
    <3>1. told \subseteq told' /\ Leaves(h)
      BY <2>3 DEF ExpenseUpdateSave
    <3> QED
      BY <2>3, <3>1, ExpenseUpdateSaveKeeps, DeskLeaves
  <2>4. ASSUME NEW e \in Expenses, ExpenseDelete(e)
        PROVE  <1>1!:
    <3>1. told \subseteq told' /\ UNCHANGED <<hrDesk, seen, together>>
      BY <2>4 DEF ExpenseDelete
    <3> QED
      BY <2>4, <3>1, ExpenseDeleteKeeps, DeskRests
  <2> QED
    BY <2>1, <2>2, <2>3, <2>4 DEF ExpenseNext
<1>2. UNCHANGED <<tasks, goals, folders, documents, acknowledgements>>
  BY DEF ExpenseNext, ExpenseCreate, ExpenseUpdateRead, ExpenseUpdateSave, ExpenseDelete
<1>3. TasksOK'
  BY <1>1, <1>2, TasksStay DEF DeskMoves
<1>4. GoalsOK'
  BY <1>1, <1>2, GoalsStay DEF DeskMoves, ExpensesOK
<1>5. DocumentsOK'
  BY <1>1, <1>2, DocumentsStay DEF DeskMoves, DocumentOps
<1> QED
  BY <1>1, <1>3, <1>4, <1>5 DEF DeskMoves

LEMMA TaskNextKeeps ==
  ASSUME HrInv, TaskNext
  PROVE  HrInv'
<1> USE DEF HrInv
<1>1. TasksOK' /\ DeskMoves({"task"})
  <2>1. ASSUME NEW t \in Tasks, NEW by \in People, NEW p \in People, TaskCreate(t, by, p)
        PROVE  <1>1!:
    <3>1. told \subseteq told' /\ UNCHANGED <<hrDesk, together>>
      BY <2>1 DEF TaskCreate
    <3> QED
      BY <2>1, <3>1, TaskCreateKeeps, DeskRests
  <2>2. ASSUME NEW h \in Handlers, NEW t \in Tasks, NEW p \in People,
               NEW status \in TaskStatuses, TaskUpdateRead(h, t, p, status)
        PROVE  <1>1!:
    <3>1. UNCHANGED told
      BY <2>2 DEF TaskUpdateRead
    <3>2. /\ TasksOK' /\ DeskOK' /\ together \subseteq together' /\ hrDesk'[h].op = "task"
          /\ \A g \in Handlers \ {h} : hrDesk'[g] = hrDesk[g]
      BY <2>2, TaskUpdateReadKeeps
    <3> QED
      BY <3>1, <3>2 DEF DeskMoves
  <2>3. ASSUME NEW h \in Handlers, TaskUpdateSave(h)
        PROVE  <1>1!:
    <3>1. Leaves(h)
      BY <2>3 DEF TaskUpdateSave
    <3> QED
      BY <2>3, <3>1, TaskUpdateSaveKeeps, DeskLeaves
  <2> QED
    BY <2>1, <2>2, <2>3 DEF TaskNext
<1>2. UNCHANGED <<expenses, goals, folders, documents, acknowledgements, seen>>
  BY DEF TaskNext, TaskCreate, TaskUpdateRead, TaskUpdateSave
<1>3. ExpensesOK'
  BY <1>1, <1>2, ExpensesStay DEF DeskMoves, ExpensesOK
<1>4. GoalsOK'
  BY <1>1, <1>2, GoalsStay DEF DeskMoves, GoalsOK
<1>5. DocumentsOK'
  BY <1>1, <1>2, DocumentsStay DEF DeskMoves, DocumentOps
<1> QED
  BY <1>1, <1>3, <1>4, <1>5 DEF DeskMoves

LEMMA GoalNextKeeps ==
  ASSUME HrInv, GoalNext
  PROVE  HrInv'
<1> USE DEF HrInv
<1>1. GoalsOK' /\ DeskMoves({"goal"}) /\ \A e \in Expenses : seen'[e] = seen[e]
  <2>1. ASSUME NEW g \in Goals, NEW by \in People, NEW p \in People,
               NEW progress \in TypedProgress, GoalCreate(g, by, p, progress)
        PROVE  <1>1!:
    <3>1. told \subseteq told' /\ UNCHANGED <<hrDesk, seen, together>>
      BY <2>1 DEF GoalCreate
    <3> QED
      BY <2>1, <3>1, GoalCreateKeeps, DeskRests
  <2>2. ASSUME NEW h \in Handlers, NEW g \in Goals, NEW p \in People,
               NEW progress \in TypedProgress, NEW status \in GoalStatuses,
               GoalUpdateRead(h, g, p, progress, status)
        PROVE  <1>1!:
    <3>1. UNCHANGED <<told, seen>>
      BY <2>2 DEF GoalUpdateRead
    <3>2. /\ GoalsOK' /\ DeskOK' /\ together \subseteq together' /\ hrDesk'[h].op = "goal"
          /\ \A a \in Handlers \ {h} : hrDesk'[a] = hrDesk[a]
      BY <2>2, GoalUpdateReadKeeps
    <3> QED
      BY <3>1, <3>2 DEF DeskMoves
  <2>3. ASSUME NEW h \in Handlers, GoalUpdateSave(h)
        PROVE  <1>1!:
    <3>1. UNCHANGED told /\ Leaves(h)
      BY <2>3 DEF GoalUpdateSave
    <3> QED
      BY <2>3, <3>1, GoalUpdateSaveKeeps, DeskLeaves
  <2> QED
    BY <2>1, <2>2, <2>3 DEF GoalNext
<1>2. UNCHANGED <<expenses, tasks, folders, documents, acknowledgements>>
  BY DEF GoalNext, GoalCreate, GoalUpdateRead, GoalUpdateSave
<1>3. ExpensesOK'
  BY <1>1, <1>2, ExpensesStay DEF DeskMoves, GoalsOK
<1>4. TasksOK'
  BY <1>1, <1>2, TasksStay DEF DeskMoves
<1>5. DocumentsOK'
  BY <1>1, <1>2, DocumentsStay DEF DeskMoves, DocumentOps
<1> QED
  BY <1>1, <1>3, <1>4, <1>5 DEF DeskMoves

LEMMA DocumentNextKeeps ==
  ASSUME HrInv, DocumentNext
  PROVE  HrInv'
<1> USE DEF HrInv
<1> DEFINE Reads(h) ==
      /\ DocumentsOK' /\ DeskOK' /\ together \subseteq together' /\ hrDesk'[h].op \in DocumentOps
      /\ \A g \in Handlers \ {h} : hrDesk'[g] = hrDesk[g]
<1>0. ASSUME NEW h \in Handlers, Reads(h), UNCHANGED told
      PROVE  DocumentsOK' /\ DeskMoves(DocumentOps)
  BY <1>0 DEF DeskMoves
<1>1. DocumentsOK' /\ DeskMoves(DocumentOps)
  <2>1. ASSUME NEW f \in Folders, NEW v \in {"company", "selected", "management"},
               NEW allowed \in FolderLists, FolderSave(f, v, allowed)
        PROVE  <1>1!:
    <3>1. UNCHANGED <<hrDesk, told, together>>
      BY <2>1 DEF FolderSave
    <3> QED
      BY <2>1, <3>1, FolderSaveKeeps, DeskRests
  <2>2. ASSUME NEW h \in Handlers, NEW f \in Folders, FolderDeleteRead(h, f)
        PROVE  <1>1!:
    <3>1. UNCHANGED told
      BY <2>2 DEF FolderDeleteRead
    <3> QED
      BY <1>0, <2>2, <3>1, FolderDeleteReadKeeps
  <2>3. ASSUME NEW h \in Handlers, NEW d \in Documents, NEW p \in People,
               NEW x \in DocumentInputs, DocumentCreateRead(h, d, p, x)
        PROVE  <1>1!:
    <3>1. UNCHANGED told
      BY <2>3 DEF DocumentCreateRead
    <3> QED
      BY <1>0, <2>3, <3>1, DocumentCreateReadKeeps
  <2>4. ASSUME NEW h \in Handlers, NEW d \in Documents, NEW p \in People,
               NEW x \in DocumentInputs, DocumentUpdateRead(h, d, p, x)
        PROVE  <1>1!:
    <3>1. UNCHANGED told
      BY <2>4 DEF DocumentUpdateRead
    <3> QED
      BY <1>0, <2>4, <3>1, DocumentUpdateReadKeeps
  <2>5. ASSUME NEW d \in Documents, NEW p \in People, DocumentDelete(d, p)
        PROVE  <1>1!:
    <3>1. UNCHANGED <<hrDesk, told, together>>
      BY <2>5 DEF DocumentDelete
    <3> QED
      BY <2>5, <3>1, DocumentDeleteKeeps, DeskRests
  <2>6. ASSUME NEW h \in Handlers, NEW d \in Documents, NEW p \in People,
               AcknowledgementRead(h, d, p)
        PROVE  <1>1!:
    <3>1. UNCHANGED told
      BY <2>6 DEF AcknowledgementRead
    <3> QED
      BY <1>0, <2>6, <3>1, AcknowledgementReadKeeps
  <2>7. ASSUME NEW h \in Handlers, FolderDelete(h)
        PROVE  <1>1!:
    <3>1. UNCHANGED told /\ Leaves(h)
      BY <2>7 DEF FolderDelete
    <3> QED
      BY <2>7, <3>1, FolderDeleteKeeps, DeskLeaves
  <2>8. ASSUME NEW h \in Handlers, DocumentCreateSave(h)
        PROVE  <1>1!:
    <3>1. told \subseteq told' /\ Leaves(h)
      BY <2>8 DEF DocumentCreateSave
    <3> QED
      BY <2>8, <3>1, DocumentCreateSaveKeeps, DeskLeaves
  <2>9. ASSUME NEW h \in Handlers, DocumentUpdateSave(h)
        PROVE  <1>1!:
    <3>1. UNCHANGED told /\ Leaves(h)
      BY <2>9 DEF DocumentUpdateSave
    <3> QED
      BY <2>9, <3>1, DocumentUpdateSaveKeeps, DeskLeaves
  <2>10. ASSUME NEW h \in Handlers, AcknowledgementSave(h)
         PROVE  <1>1!:
    <3>1. UNCHANGED told /\ Leaves(h)
      BY <2>10 DEF AcknowledgementSave
    <3> QED
      BY <2>10, <3>1, AcknowledgementSaveKeeps, DeskLeaves
  <2> QED
    BY <2>1, <2>2, <2>3, <2>4, <2>5, <2>6, <2>7, <2>8, <2>9, <2>10 DEF DocumentNext
<1>2. UNCHANGED <<expenses, tasks, goals, seen>>
  BY DEF DocumentNext, FolderSave, FolderDeleteRead, FolderDelete, DocumentCreateRead,
         DocumentCreateSave, DocumentUpdateRead, DocumentUpdateSave, DocumentDelete,
         AcknowledgementRead, AcknowledgementSave
<1>3. ExpensesOK'
  BY <1>1, <1>2, ExpensesStay DEF DeskMoves, ExpensesOK, DocumentOps
<1>4. TasksOK'
  BY <1>1, <1>2, TasksStay DEF DeskMoves, DocumentOps
<1>5. GoalsOK'
  BY <1>1, <1>2, GoalsStay DEF DeskMoves, GoalsOK, DocumentOps
<1> QED
  BY <1>1, <1>3, <1>4, <1>5 DEF DeskMoves

LEMMA HrInvNext == HrInv /\ [HrNext]_hrVars => HrInv'
<1> SUFFICES ASSUME HrInv, [HrNext]_hrVars
             PROVE  HrInv'
  OBVIOUS
<1>1. CASE UNCHANGED hrVars
  <2>1. /\ UNCHANGED <<expenses, tasks, goals, folders, documents, acknowledgements>>
        /\ UNCHANGED <<hrDesk, told, seen, together>>
    BY <1>1 DEF hrVars
  <2> QED
    BY <2>1, ExpensesStay, TasksStay, GoalsStay, DocumentsStay
       DEF HrInv, DeskOK, ExpensesOK
<1> QED
  BY <1>1, ExpenseNextKeeps, TaskNextKeeps, GoalNextKeeps, DocumentNextKeeps DEF HrNext

\* What is paid is what was approved, what is complete is dated and told, a
\* document has its place and a reading counts once, whatever requests overlap
\* on other records (the hooks of expenses, tasks, goals, documents, folders
\* and acknowledgements).
THEOREM RecordsMean == HrSpec => []RecordsKeepTheirMeaning
<1>1. HrInv => RecordsKeepTheirMeaning
  <2>1. HrInv => DocumentsHaveAPlace
    BY DEF HrInv, DocumentsOK, FoldersExist, PeopleKnown, DocumentsHaveAPlace
  <2> QED
    BY <2>1 DEF HrInv, ExpensesOK, TasksOK, GoalsOK, DocumentsOK, RecordsKeepTheirMeaning
<1> QED
  BY <1>1, HrInvInit, HrInvNext, PTL DEF HrSpec

LEMMA PagesFollow ==
  ASSUME HrInv
  PROVE  PagesOfferWhatServerDoes
<1> USE DEF HrInv
<1>1. ASSUME NEW e \in Expenses, NEW p \in People, Exists(expenses[e]),
             NEW status \in expenseOffers(p, e)
      PROVE  ExpenseUpdate(expenses[e], p, status, expenses[e].amount) # {}
  BY <1>1 DEF expenseOffers, ExpenseUpdate, Manages
<1>2. ASSUME NEW t \in Tasks, NEW p \in People, NEW status \in taskOffers(p, t)
      PROVE  TaskUpdate(tasks[t], p, status) # {}
  BY <1>2 DEF taskOffers, TaskUpdate
<1>3. ASSUME NEW d \in Documents, NEW p \in People, Exists(documents[d]),
             Shown(p, documents[d]), canCurrentUserAcknowledge(d, p),
             documents[d].folder # "none"
      PROVE  AcknowledgementAccepted(d, p)
  BY <1>3 DEF Shown, canCurrentUserAcknowledge, AcknowledgementAccepted
<1>4. ASSUME NEW d \in Documents, NEW p \in People, Exists(documents[d]),
             canCurrentUserAcknowledge(d, p), documents[d].folder = "none",
             RoleOf[p] = "employee"
      PROVE  \E new \in DocumentUpdate(documents[d], p, "none", p, documents[d].visibility) :
               new.acknowledged
  <2> DEFINE x == documents[d]
  <2>1. x.required /\ x.employee = p /\ x \in DocumentRecords \ {Absent}
    BY <1>4 DEF canCurrentUserAcknowledge, DocumentsOK, Exists, Absent
  <2>2. DocumentUpdate(x, p, "none", p, x.visibility) = {[x EXCEPT !.acknowledged = TRUE]}
    BY <1>4, <2>1 DEF DocumentUpdate
  <2>3. [x EXCEPT !.acknowledged = TRUE].acknowledged
    BY <2>1 DEF DocumentRecords, Absent
  <2> QED
    BY <2>2, <2>3
<1>5. ASSUME NEW d \in Documents, Exists(documents[d]), documents[d].folder # "none"
      PROVE  LET shown == {p \in People : Shown(p, documents[d])}
             IN /\ Recipients(documents[d]) = shown
                /\ folderAudience(documents[d].folder) = shown
  <2> DEFINE f == documents[d].folder
  <2>1. folders[f] \in FolderRecords \ {Absent}
    BY <1>5 DEF DocumentsOK, FoldersExist, DocumentRecords, Exists, Absent
  <2>2. /\ folders[f].visibility \in {"company", "selected", "management"}
        /\ folders[f].allowed \subseteq People
    BY <2>1 DEF FolderRecords, Absent
  <2>3. \A p \in People : Shown(p, documents[d]) <=>
          \/ Manages(p) \/ folders[f].visibility = "company"
          \/ folders[f].visibility = "selected" /\ p \in folders[f].allowed
    BY <1>5 DEF Shown
  <2>4. Recipients(documents[d]) = {p \in People : Shown(p, documents[d])}
    <3>1. CASE folders[f].visibility = "company"
      BY <1>5, <2>3, <3>1 DEF Recipients, Managers
    <3>2. CASE folders[f].visibility = "selected"
      BY <1>5, <2>2, <2>3, <3>2 DEF Recipients, Managers
    <3>3. CASE folders[f].visibility = "management"
      BY <1>5, <2>3, <3>3 DEF Recipients, Managers
    <3> QED
      BY <2>2, <3>1, <3>2, <3>3
  <2>5. folderAudience(f) = {p \in People : Shown(p, documents[d])}
    BY <2>3 DEF folderAudience
  <2> QED
    BY <2>4, <2>5
<1> QED
  BY <1>1, <1>2, <1>3, <1>4, <1>5 DEF PagesOfferWhatServerDoes

\* A button that a page offers on an expense, a task or a document is accepted
\* by the hook, and those who are told of a document, who see it and whose
\* readings are counted are the same: what the pages work out from the records
\* agrees with the hooks and the access rules.
THEOREM PagesAndServerAgree == HrSpec => []PagesOfferWhatServerDoes
<1>1. HrInv => PagesOfferWhatServerDoes
  BY PagesFollow
<1> QED
  BY <1>1, HrInvInit, HrInvNext, PTL DEF HrSpec

-----------------------------------------------------------------------------
(* Export: rows as their writers seal them.                                *)

Positive == Nat \ {0}

RowOK(x) ==
  /\ DOMAIN x = DOMAIN Blank
  /\ x.occurred \in Positive /\ x.recorded \in Positive /\ x.corrects \in Nat
  /\ x.correctedKind # "break_end" /\ x.previous # <<"another">>

V2Row(x) == x.version = "v2" /\ x.hash = v2Hash(x, Iso(x.occurred), Iso(x.recorded))
V3Row(x) ==
  /\ x.version = "v3" /\ x.captured \in Positive /\ x.synced \in Positive
  /\ x.hash = <<"v3", x.kind, x.correctedKind, x.corrects, Iso(x.occurred), Iso(x.recorded),
                x.adjustment, x.requestId, x.previous, x.terminal, Iso(x.captured),
                Iso(x.synced), x.sequence, x.offline>>
VoidRow(x) ==
  /\ x.version = "v1" /\ x.source = "manual" /\ x.void = TRUE
  /\ x.hash = <<"correction", "void", x.corrects, Db(x.occurred), x.requestId, x.previous>>
ManualRow(x) ==
  /\ x.version = "v1" /\ x.source = "manual" /\ x.void = FALSE /\ x.manual # 0
  /\ x.kind # "correction" /\ x.requestId = <<"manual", x.manual, x.requestId[3]>>
  /\ x.hash = <<x.kind, Db(x.occurred), x.manual, x.requestId[3], x.previous>>
LegacyRow(x) ==
  /\ x.version = "v1" /\ x.source = "web"
  /\ x.hash = <<x.kind, x.correctedKind, x.corrects, Iso(x.occurred), x.requestId, x.previous>>

\* A row holds the hash that its writer works out from the row's own columns.
WellSealed(x) ==
  RowOK(x) /\ (V2Row(x) \/ V3Row(x) \/ VoidRow(x) \/ ManualRow(x) \/ LegacyRow(x))

\* Every row is sealed and linked to the one before, and no two have the same
\* request.
WellLinked(c) ==
  /\ c \in Seq(Range(c))
  /\ \A i \in DOMAIN c : WellSealed(c[i])
  /\ \A i \in DOMAIN c : c[i].previous = IF i = 1 THEN NoHash ELSE c[i - 1].hash
  /\ \A i, j \in DOMAIN c : c[i].requestId = c[j].requestId => i = j

\* The request that a hash tells of: each recipe has it in its own place.
RequestOf(h) ==
  IF Len(h) = 5 THEN <<"manual", h[3], h[4]>> ELSE IF Len(h) = 6 THEN h[5] ELSE h[8]

LEMMA HashTellsRequest ==
  ASSUME NEW x, WellSealed(x)
  PROVE  RequestOf(x.hash) = x.requestId /\ x.hash # NoHash /\ x.hash # <<"another">>
<1>1. CASE V2Row(x)
  BY <1>1 DEF V2Row, RequestOf, v2Hash, NoHash
<1>2. CASE V3Row(x)
  BY <1>2 DEF V3Row, RequestOf, NoHash
<1>3. CASE VoidRow(x)
  BY <1>3 DEF VoidRow, RequestOf, NoHash
<1>4. CASE ManualRow(x)
  BY <1>4 DEF ManualRow, RequestOf, NoHash
<1>5. CASE LegacyRow(x)
  BY <1>5 DEF LegacyRow, RequestOf, NoHash
<1> QED
  BY <1>1, <1>2, <1>3, <1>4, <1>5 DEF WellSealed

\* The export works out again the hash of a row that was not touched.
LEMMA SealedRowMatches ==
  ASSUME NEW x, WellSealed(x)
  PROVE  eventHashMatches(x)
<1> USE DEF WellSealed, RowOK, Positive
<1>0. ASSUME NEW t \in Positive PROVE Iso(t) \in dateVariants(t) /\ Db(t) \in dateVariants(t)
  BY <1>0 DEF dateVariants
<1>1. CASE V2Row(x)
  BY <1>0, <1>1 DEF V2Row, eventHashMatches
<1>2. CASE V3Row(x)
  BY <1>0, <1>2 DEF V3Row, eventHashMatches
<1>3. CASE VoidRow(x)
  BY <1>0, <1>3 DEF VoidRow, eventHashMatches
<1>4. CASE ManualRow(x)
  BY <1>0, <1>4 DEF ManualRow, eventHashMatches
<1>5. CASE LegacyRow(x)
  BY <1>0, <1>5 DEF LegacyRow, eventHashMatches
<1> QED
  BY <1>1, <1>2, <1>3, <1>4, <1>5

\* A change of one column, and the others as they were.
LEMMA AlteredColumns ==
  ASSUME NEW x, DOMAIN x = DOMAIN Blank, NEW column, Sealed(x, column)
  PROVE  /\ \A f \in DOMAIN Blank \ {"kind", "correctedKind", "corrects", "occurred", "previous"} :
              Altered(x, column)[f] = x[f]
         /\ column = "kind" =>
              Altered(x, column).kind # x.kind
         /\ column # "kind" => Altered(x, column).kind = x.kind
         /\ column = "correctedKind" => Altered(x, column).correctedKind = "break_end"
         /\ column # "correctedKind" => Altered(x, column).correctedKind = x.correctedKind
         /\ column = "corrects" => Altered(x, column).corrects = x.corrects + 1
         /\ column # "corrects" => Altered(x, column).corrects = x.corrects
         /\ column = "occurredAt" => Altered(x, column).occurred = x.occurred + 1
         /\ column # "occurredAt" => Altered(x, column).occurred = x.occurred
         /\ column = "previousHash" => Altered(x, column).previous = <<"another">>
         /\ column # "previousHash" => Altered(x, column).previous = x.previous
<1>1. CASE column = "kind"
  BY <1>1 DEF Altered, Blank
<1>2. CASE column = "correctedKind"
  BY <1>2 DEF Altered, Blank
<1>3. CASE column = "corrects"
  BY <1>3 DEF Altered, Blank
<1>4. CASE column = "occurredAt"
  BY <1>4 DEF Altered, Blank
<1>5. CASE column = "previousHash"
  BY <1>5 DEF Altered, Blank
<1> QED
  BY <1>1, <1>2, <1>3, <1>4, <1>5 DEF Sealed

\* The export does not work out the hash of a row again once a column changed
\* that a recipe of the row covers.
LEMMA AlteredRowFails ==
  ASSUME NEW x, WellSealed(x), NEW column, Sealed(x, column)
  PROVE  ~eventHashMatches(Altered(x, column))
<1> DEFINE y == Altered(x, column)
<1>1. /\ y.version = x.version /\ y.source = x.source /\ y.void = x.void /\ y.hash = x.hash
      /\ y.manual = x.manual /\ y.recorded = x.recorded /\ y.captured = x.captured
      /\ y.synced = x.synced /\ y.requestId = x.requestId
  BY AlteredColumns DEF WellSealed, RowOK, Blank
<1>2. /\ x.occurred \in Positive /\ x.corrects \in Nat
      /\ x.correctedKind # "break_end" /\ x.previous # <<"another">>
  BY DEF WellSealed, RowOK
<1>3. \/ y.kind # x.kind /\ ~x.void
      \/ y.correctedKind # x.correctedKind /\ x.kind = "correction" /\ ~x.void
      \/ y.corrects # x.corrects /\ x.kind = "correction"
      \/ y.occurred = x.occurred + 1
      \/ y.previous # x.previous
  BY <1>2, AlteredColumns DEF WellSealed, RowOK, Sealed, Positive
<1>4. ASSUME y.occurred = x.occurred + 1
      PROVE  Iso(x.occurred) \notin dateVariants(y.occurred)
             /\ Db(x.occurred) \notin dateVariants(y.occurred)
  BY <1>2, <1>4 DEF dateVariants, Iso, Db, NoText, Positive
<1> SUFFICES ~eventHashMatches(y)
  OBVIOUS
<1> HIDE DEF y
<1>5. CASE V2Row(x)
  <2> SUFFICES ASSUME eventHashMatches(y) PROVE FALSE
    OBVIOUS
  <2>1. PICK o \in dateVariants(y.occurred), r \in dateVariants(y.recorded) :
          v2Hash(x, Iso(x.occurred), Iso(x.recorded)) = v2Hash(y, o, r)
    BY <1>1, <1>5 DEF V2Row, eventHashMatches
  <2>2. /\ x.kind = y.kind /\ x.correctedKind = y.correctedKind /\ x.corrects = y.corrects
        /\ o = Iso(x.occurred) /\ x.previous = y.previous
    BY <2>1 DEF v2Hash
  <2> QED
    BY <1>3, <1>4, <1>5, <2>1, <2>2 DEF V2Row
<1>6. CASE V3Row(x)
  <2> SUFFICES ASSUME eventHashMatches(y) PROVE FALSE
    OBVIOUS
  <2>1. PICK o \in dateVariants(y.occurred), r \in dateVariants(y.recorded),
             c \in dateVariants(y.captured), s \in dateVariants(y.synced) :
          <<"v3", x.kind, x.correctedKind, x.corrects, Iso(x.occurred), Iso(x.recorded),
            x.adjustment, x.requestId, x.previous, x.terminal, Iso(x.captured), Iso(x.synced),
            x.sequence, x.offline>>
          = <<"v3", y.kind, y.correctedKind, y.corrects, o, r, y.adjustment, y.requestId,
              y.previous, y.terminal, c, s, y.sequence, y.offline>>
    BY <1>1, <1>6 DEF V3Row, eventHashMatches
  <2>2. /\ x.kind = y.kind /\ x.correctedKind = y.correctedKind /\ x.corrects = y.corrects
        /\ o = Iso(x.occurred) /\ x.previous = y.previous
    BY <2>1
  <2> QED
    BY <1>3, <1>4, <1>6, <2>1, <2>2 DEF V3Row
<1>7. CASE VoidRow(x)
  <2> SUFFICES ASSUME eventHashMatches(y) PROVE FALSE
    OBVIOUS
  <2>1. PICK o \in dateVariants(y.occurred) :
          <<"correction", "void", x.corrects, Db(x.occurred), x.requestId, x.previous>>
          = <<"correction", "void", y.corrects, o, y.requestId, y.previous>>
    BY <1>1, <1>7 DEF VoidRow, eventHashMatches
  <2>2. x.corrects = y.corrects /\ o = Db(x.occurred) /\ x.previous = y.previous
    BY <2>1
  <2> QED
    BY <1>3, <1>4, <1>7, <2>1, <2>2 DEF VoidRow
<1>8. CASE ManualRow(x)
  <2> SUFFICES ASSUME eventHashMatches(y) PROVE FALSE
    OBVIOUS
  <2>1. PICK o \in dateVariants(y.occurred) :
          <<x.kind, Db(x.occurred), x.manual, x.requestId[3], x.previous>>
          = <<y.kind, o, y.manual, y.requestId[3], y.previous>>
    BY <1>1, <1>8 DEF ManualRow, eventHashMatches
  <2>2. x.kind = y.kind /\ o = Db(x.occurred) /\ x.previous = y.previous
    BY <2>1
  <2> QED
    BY <1>3, <1>4, <1>8, <2>1, <2>2 DEF ManualRow
<1>9. CASE LegacyRow(x)
  <2> SUFFICES ASSUME eventHashMatches(y) PROVE FALSE
    OBVIOUS
  <2>1. PICK o \in dateVariants(y.occurred) :
          <<x.kind, x.correctedKind, x.corrects, Iso(x.occurred), x.requestId, x.previous>>
          = <<y.kind, y.correctedKind, y.corrects, o, y.requestId, y.previous>>
    BY <1>1, <1>9 DEF LegacyRow, eventHashMatches
  <2>2. /\ x.kind = y.kind /\ x.correctedKind = y.correctedKind /\ x.corrects = y.corrects
        /\ o = Iso(x.occurred) /\ x.previous = y.previous
    BY <2>1
  <2> QED
    BY <1>3, <1>4, <1>9, <2>1, <2>2 DEF LegacyRow
<1> QED
  BY <1>5, <1>6, <1>7, <1>8, <1>9 DEF WellSealed

-----------------------------------------------------------------------------
(* The chain of rows.                                                      *)

\* No two rows of a chain have the same hash, and none has the empty one.
LEMMA HashesDiffer ==
  ASSUME NEW c, WellLinked(c)
  PROVE  /\ \A i \in DOMAIN c : c[i].hash # NoHash /\ c[i].hash # <<"another">>
         /\ \A i, j \in DOMAIN c : c[i].hash = c[j].hash => i = j
  BY HashTellsRequest DEF WellLinked

\* The tip of a chain is its last row.
LEMMA TipIsLast ==
  ASSUME NEW c, WellLinked(c)
  PROVE  integrityTipHash(c) = IF c = <<>> THEN NoHash ELSE c[Len(c)].hash
<1> DEFINE tips == {i \in DOMAIN c : c[i].hash \notin Referenced(c)}
<1>0. /\ Len(c) \in Nat /\ DOMAIN c = 1 .. Len(c) /\ (c = <<>> <=> Len(c) = 0)
  BY DEF WellLinked
<1>1. Referenced(c) = {c[i].hash : i \in 1 .. Len(c) - 1}
  <2>1. ASSUME NEW h \in Referenced(c) PROVE h \in {c[i].hash : i \in 1 .. Len(c) - 1}
    <3>1. PICK i \in DOMAIN c : h = c[i].previous /\ h # NoHash
      BY <2>1 DEF Referenced
    <3>2. i \in 1 .. Len(c) /\ i # 1 /\ h = c[i - 1].hash
      BY <1>0, <3>1 DEF WellLinked
    <3> QED
      BY <1>0, <3>2
  <2>2. ASSUME NEW i \in 1 .. Len(c) - 1 PROVE c[i].hash \in Referenced(c)
    <3>1. i + 1 \in DOMAIN c /\ i + 1 # 1 /\ (i + 1) - 1 = i /\ i \in DOMAIN c
      BY <1>0
    <3>2. c[i + 1].previous = c[i].hash /\ c[i].hash # NoHash
      BY <3>1, HashesDiffer DEF WellLinked
    <3> QED
      BY <3>1, <3>2 DEF Referenced
  <2> QED
    BY <2>1, <2>2
<1>2. CASE c = <<>>
  <2>1. tips = {}
    BY <1>0, <1>2
  <2> QED
    BY <1>2, <2>1 DEF integrityTipHash
<1>3. CASE c # <<>>
  <2>1. tips = {Len(c)}
    BY <1>0, <1>1, <1>3, HashesDiffer
  <2>2. (CHOOSE i \in tips : \A j \in tips : j <= i) = Len(c)
    BY <1>0, <2>1
  <2> QED
    BY <1>3, <2>1, <2>2 DEF integrityTipHash
<1> QED
  BY <1>2, <1>3

\* A row of a new request that names the tip goes to the end of the chain.
LEMMA ChainGrows ==
  ASSUME NEW c, WellLinked(c), NEW x, WellSealed(x), x.previous = integrityTipHash(c),
         \A i \in DOMAIN c : c[i].requestId # x.requestId
  PROVE  WellLinked(Append(c, x))
<1> DEFINE d == Append(c, x)
<1>0. c \in Seq(Range(c)) /\ Len(c) \in Nat /\ DOMAIN c = 1 .. Len(c) /\ (c = <<>> <=> Len(c) = 0)
  BY DEF WellLinked
<1>1. /\ Len(d) = Len(c) + 1 /\ DOMAIN d = 1 .. Len(c) + 1
      /\ \A i \in 1 .. Len(c) : d[i] = c[i]
      /\ d[Len(c) + 1] = x
  BY <1>0
<1>2. d \in Seq(Range(d))
  <2>1. d \in Seq(Range(c) \union {x})
    BY <1>0
  <2>2. \A i \in DOMAIN d : d[i] \in Range(d)
    BY DEF Range
  <2> QED
    BY <1>0, <1>1, <2>1, <2>2
<1>3. x.previous = IF Len(c) + 1 = 1 THEN NoHash ELSE d[Len(c)].hash
  <2>1. Len(c) # 0 => d[Len(c)] = c[Len(c)]
    <3> HIDE DEF d
    <3>1. Len(c) # 0 => Len(c) \in 1 .. Len(c)
      BY <1>0
    <3> QED
      BY <1>1, <3>1
  <2>2. x.previous = IF Len(c) = 0 THEN NoHash ELSE c[Len(c)].hash
    BY <1>0, TipIsLast
  <2> HIDE DEF d
  <2> QED
    BY <1>0, <2>1, <2>2
<1> HIDE DEF d
<1>4. \A i \in DOMAIN d : WellSealed(d[i])
  BY <1>0, <1>1 DEF WellLinked
<1>5. \A i \in DOMAIN d : d[i].previous = IF i = 1 THEN NoHash ELSE d[i - 1].hash
  <2> SUFFICES ASSUME NEW i \in DOMAIN d
               PROVE  d[i].previous = IF i = 1 THEN NoHash ELSE d[i - 1].hash
    OBVIOUS
  <2>1. CASE i = Len(c) + 1
    BY <1>0, <1>1, <1>3, <2>1
  <2>2. CASE i \in 1 .. Len(c)
    <3>1. c[i].previous = IF i = 1 THEN NoHash ELSE c[i - 1].hash
      BY <1>0, <2>2 DEF WellLinked
    <3>2. i # 1 => i - 1 \in 1 .. Len(c)
      BY <1>0, <2>2
    <3> QED
      BY <1>1, <2>2, <3>1, <3>2
  <2> QED
    BY <1>0, <1>1, <2>1, <2>2
<1>6. \A i, j \in DOMAIN d : d[i].requestId = d[j].requestId => i = j
  BY <1>0, <1>1 DEF WellLinked
<1>7. WellLinked(d)
  BY <1>2, <1>4, <1>5, <1>6 DEF WellLinked
<1> QED
  BY <1>7 DEF d

\* The package of such a chain is valid.
LEMMA LinkedChainIsValid ==
  ASSUME NEW c, WellLinked(c)
  PROVE  workEventExportData(c)
<1>0. /\ Len(c) \in Nat /\ DOMAIN c = 1 .. Len(c) /\ (c = <<>> <=> Len(c) = 0)
  BY DEF WellLinked
<1>1. ASSUME NEW i \in DOMAIN c
      PROVE  /\ c[i].hash # NoHash
             /\ \A j \in 1 .. i - 1 : c[j].hash # c[i].hash
             /\ eventHashMatches(c[i])
             /\ c[i].previous = NoHash \/ c[i].previous \in Hashes(c)
  <2>1. \A j \in 1 .. i - 1 : j \in DOMAIN c /\ j # i
    BY <1>0
  <2>2. eventHashMatches(c[i])
    BY SealedRowMatches DEF WellLinked
  <2>3. i # 1 => i - 1 \in DOMAIN c
    BY <1>0
  <2> QED
    BY <2>1, <2>2, <2>3, HashesDiffer DEF WellLinked, Hashes
<1>2. c # <<>> => {i \in DOMAIN c : c[i].previous = NoHash} = {1}
  <2>1. ASSUME NEW i \in DOMAIN c, i # 1 PROVE c[i].previous # NoHash
    <3>1. i - 1 \in DOMAIN c
      BY <1>0, <2>1
    <3> QED
      BY <2>1, <3>1, HashesDiffer DEF WellLinked
  <2> QED
    BY <1>0, <2>1 DEF WellLinked
<1>3. c # <<>> => {i \in DOMAIN c : c[i].hash \notin Referenced(c)} = {Len(c)}
  <2> SUFFICES ASSUME c # <<>> PROVE {i \in DOMAIN c : c[i].hash \notin Referenced(c)} = {Len(c)}
    OBVIOUS
  <2>1. ASSUME NEW i \in DOMAIN c, i # Len(c) PROVE c[i].hash \in Referenced(c)
    <3>1. i + 1 \in DOMAIN c /\ i + 1 # 1 /\ (i + 1) - 1 = i
      BY <1>0, <2>1
    <3>2. c[i + 1].previous = c[i].hash /\ c[i].hash # NoHash
      BY <3>1, HashesDiffer DEF WellLinked
    <3> QED
      BY <3>1, <3>2 DEF Referenced
  <2>2. c[Len(c)].hash \notin Referenced(c)
    <3> SUFFICES ASSUME NEW i \in DOMAIN c, c[i].previous = c[Len(c)].hash PROVE FALSE
      BY DEF Referenced
    <3>1. Len(c) \in DOMAIN c /\ c[Len(c)].hash # NoHash
      BY <1>0, HashesDiffer
    <3>2. i # 1 /\ c[i - 1].hash = c[Len(c)].hash
      BY <3>1 DEF WellLinked
    <3>3. i - 1 \in DOMAIN c /\ i - 1 # Len(c)
      BY <1>0, <3>2
    <3> QED
      BY <3>1, <3>2, <3>3, HashesDiffer
  <2> QED
    BY <1>0, <2>1, <2>2
<1> QED
  BY <1>1, <1>2, <1>3, FS_Singleton DEF workEventExportData

\* The package is not valid once a covered column of a row has changed, or a
\* row was lost that is not the last one.
LEMMA DamageIsSeen ==
  ASSUME NEW c, WellLinked(c), NEW i \in DOMAIN c
  PROVE  /\ i < Len(c) => ~workEventExportData(RemoveAt(c, i))
         /\ \A column : Sealed(c[i], column) =>
              ~workEventExportData([c EXCEPT ![i] = Altered(@, column)])
<1>0. Len(c) \in Nat /\ DOMAIN c = 1 .. Len(c) /\ i \in 1 .. Len(c)
  BY DEF WellLinked
<1>1. ASSUME i < Len(c) PROVE ~workEventExportData(RemoveAt(c, i))
  <2> DEFINE d == RemoveAt(c, i)
  <2>1. c \in Seq(Range(c)) /\ i \in Int
    BY <1>0 DEF WellLinked
  <2>2. /\ Len(d) = Len(c) - 1 /\ DOMAIN d = 1 .. Len(c) - 1
        /\ \A j \in 1 .. Len(c) - 1 : d[j] = IF j < i THEN c[j] ELSE c[j + 1]
    <3>1. RemoveAt(c, i) = SubSeq(c, 1, i - 1) \o SubSeq(c, i + 1, Len(c))
      BY DEF RemoveAt
    <3>2. /\ Len(SubSeq(c, 1, i - 1)) = i - 1
          /\ \A j \in 1 .. i - 1 : SubSeq(c, 1, i - 1)[j] = c[j]
          /\ SubSeq(c, 1, i - 1) \in Seq(Range(c))
      BY <1>0, <2>1, SubSeqProperties
    <3>3. /\ Len(SubSeq(c, i + 1, Len(c))) = Len(c) - i
          /\ \A j \in 1 .. Len(c) - i : SubSeq(c, i + 1, Len(c))[j] = c[i + j]
          /\ SubSeq(c, i + 1, Len(c)) \in Seq(Range(c))
      BY <1>0, <1>1, <2>1, SubSeqProperties
    <3> DEFINE a == SubSeq(c, 1, i - 1)
               b == SubSeq(c, i + 1, Len(c))
    <3>4. /\ d = a \o b /\ a \in Seq(Range(c)) /\ b \in Seq(Range(c))
          /\ Len(a) = i - 1 /\ Len(b) = Len(c) - i
          /\ \A j \in 1 .. i - 1 : a[j] = c[j]
          /\ \A j \in 1 .. Len(c) - i : b[j] = c[i + j]
      BY <3>1, <3>2, <3>3
    <3> HIDE DEF a, b, d
    <3>5. /\ d \in Seq(Range(c)) /\ Len(d) = Len(a) + Len(b)
          /\ \A j \in 1 .. Len(a) + Len(b) : d[j] = IF j <= Len(a) THEN a[j] ELSE b[j - Len(a)]
      BY <3>4, ConcatProperties
    <3>6. Len(d) = Len(c) - 1 /\ DOMAIN d = 1 .. Len(c) - 1
      <4>1. Len(d) = Len(c) - 1
        BY <1>0, <3>4, <3>5
      <4>2. DOMAIN d = 1 .. Len(d)
        BY <3>5
      <4> QED
        BY <4>1, <4>2
    <3>7. ASSUME NEW j \in 1 .. Len(c) - 1 PROVE d[j] = IF j < i THEN c[j] ELSE c[j + 1]
      <4>0. Len(a) + Len(b) = Len(c) - 1
        BY <1>0, <3>4
      <4>1. d[j] = IF j <= Len(a) THEN a[j] ELSE b[j - Len(a)]
        BY <3>5, <4>0
      <4>2. CASE j < i
        BY <1>0, <3>4, <4>1, <4>2
      <4>3. CASE ~(j < i)
        <5>1. j - (i - 1) \in 1 .. Len(c) - i /\ i + (j - (i - 1)) = j + 1 /\ ~(j <= i - 1)
          BY <1>0, <4>3
        <5>2. b[j - (i - 1)] = c[i + (j - (i - 1))]
          BY <3>4, <5>1
        <5> QED
          BY <3>4, <4>1, <4>3, <5>1, <5>2
      <4> QED
        BY <4>2, <4>3
    <3> QED
      BY <3>6, <3>7
  <2> HIDE DEF d
  <2>3. i \in DOMAIN d /\ i + 1 \in DOMAIN c /\ i + 1 # 1 /\ (i + 1) - 1 = i
    BY <1>0, <1>1, <2>2
  <2>4. d[i].previous = c[i].hash /\ d[i].previous # NoHash
    <3>1. d[i] = c[i + 1]
      BY <1>0, <2>2, <2>3
    <3>2. c[i + 1].previous = c[i].hash
      BY <2>3 DEF WellLinked
    <3> QED
      BY <3>1, <3>2, HashesDiffer
  <2>5. c[i].hash \notin Hashes(d)
    <3> SUFFICES ASSUME NEW j \in DOMAIN d, d[j].hash = c[i].hash PROVE FALSE
      BY DEF Hashes
    <3>1. PICK k \in DOMAIN c : k # i /\ d[j] = c[k]
      <4>1. CASE j < i
        BY <1>0, <2>2, <4>1
      <4>2. CASE ~(j < i)
        BY <1>0, <2>2, <4>2
      <4> QED
        BY <4>1, <4>2
    <3> QED
      BY <3>1, HashesDiffer
  <2> QED
    BY <2>3, <2>4, <2>5 DEF workEventExportData, d
<1>2. ASSUME NEW column, Sealed(c[i], column)
      PROVE  ~workEventExportData([c EXCEPT ![i] = Altered(@, column)])
  <2> DEFINE d == [c EXCEPT ![i] = Altered(@, column)]
  <2>1. i \in DOMAIN d /\ d[i] = Altered(c[i], column)
    BY <1>0
  <2>2. ~eventHashMatches(d[i])
    BY <1>2, <2>1, AlteredRowFails DEF WellLinked
  <2> HIDE DEF d
  <2>3. ~workEventExportData(d)
    BY <2>1, <2>2 DEF workEventExportData
  <2> QED
    BY <2>3 DEF d
<1> QED
  BY <1>1, <1>2

-----------------------------------------------------------------------------
(* The writers.                                                            *)

\* The requests of a chain are older than the one that is served now.
Older(c) == \A i \in DOMAIN c : c[i].requestId[2] \in Nat /\ c[i].requestId[2] < writes

ExportInv ==
  /\ writes \in Positive
  /\ damage = "none" => WellLinked(chain) /\ Older(chain)
  /\ damage \notin {"none", "unsealed"} => ~workEventExportData(chain)

\* No altered link is the tip of a chain.
LEMMA TipIsNoOther ==
  ASSUME NEW c, WellLinked(c)
  PROVE  integrityTipHash(c) # <<"another">>
<1>1. c = <<>> \/ Len(c) \in DOMAIN c
  BY DEF WellLinked
<1>2. NoHash # <<"another">>
  BY DEF NoHash
<1> QED
  BY <1>1, <1>2, TipIsLast, HashesDiffer

\* An event of the web clock or a correction sent as one.
LEMMA WebRows ==
  ASSUME ExportInv, damage = "none", NEW k \in {"clock_in", "clock_out", "correction"},
         NEW corrected \in {"none", "clock_in", "clock_out"}, NEW target \in Nat,
         NEW t \in Positive, NEW adjustment \in Nat
  PROVE  LET x == webEvent(k, corrected, target, t, adjustment) IN
         /\ WellSealed(x) /\ x.previous = integrityTipHash(chain) /\ x.requestId[2] = writes
<1> DEFINE x == webEvent(k, corrected, target, t, adjustment)
<1>1. /\ x.version = "v2" /\ x.occurred = t /\ x.recorded = t + adjustment
      /\ x.kind = k /\ x.correctedKind = corrected /\ x.corrects = target
      /\ x.adjustment = adjustment /\ x.requestId = <<"web", writes, 0>>
      /\ x.previous = integrityTipHash(chain)
      /\ x.hash = v2Hash(x, Iso(x.occurred), Iso(x.recorded))
  BY DEF webEvent, Blank, v2Hash
<1>2. DOMAIN x = DOMAIN Blank
  BY DEF webEvent, Blank
<1>3. x.previous # <<"another">>
  BY <1>1, TipIsNoOther DEF ExportInv
<1> HIDE DEF x
<1>4. WellSealed(x)
  BY <1>1, <1>2, <1>3 DEF WellSealed, RowOK, V2Row, Positive
<1> QED
  BY <1>1, <1>4 DEF x

\* The correcting event of an approved request.
LEMMA ApprovalRows ==
  ASSUME ExportInv, damage = "none", NEW k \in {"clock_in", "clock_out"}, NEW target \in Nat,
         NEW t \in Positive
  PROVE  LET x == correctionEvent(k, target, t) IN
         /\ WellSealed(x) /\ x.previous = integrityTipHash(chain) /\ x.requestId[2] = writes
<1> DEFINE x == correctionEvent(k, target, t)
<1>1. /\ x.version = "v2" /\ x.occurred = t /\ x.recorded = t
      /\ x.correctedKind = k /\ x.corrects = target
      /\ x.requestId = <<"correction-request", writes, 0>>
      /\ x.previous = integrityTipHash(chain)
      /\ x.hash = v2Hash(x, Iso(x.occurred), Iso(x.recorded))
  BY DEF correctionEvent, Blank, v2Hash
<1>2. DOMAIN x = DOMAIN Blank
  BY DEF correctionEvent, Blank
<1>3. x.previous # <<"another">>
  BY <1>1, TipIsNoOther DEF ExportInv
<1> HIDE DEF x
<1>4. WellSealed(x)
  BY <1>1, <1>2, <1>3 DEF WellSealed, RowOK, V2Row, Positive
<1> QED
  BY <1>1, <1>4 DEF x

\* An event of a terminal.
LEMMA TerminalRows ==
  ASSUME ExportInv, damage = "none", NEW k \in {"clock_in", "clock_out"},
         NEW t \in Positive, NEW adjustment \in Nat, NEW offline
  PROVE  LET x == terminalEvent(k, t, adjustment, offline) IN
         /\ WellSealed(x) /\ x.previous = integrityTipHash(chain) /\ x.requestId[2] = writes
<1> DEFINE x == terminalEvent(k, t, adjustment, offline)
<1>1. /\ x.version = "v3" /\ x.occurred = t /\ x.recorded = t + adjustment
      /\ x.captured = t + adjustment /\ x.synced = t
      /\ x.correctedKind = "none" /\ x.corrects = 0
      /\ x.requestId = <<"terminal", writes, 0>>
      /\ x.previous = integrityTipHash(chain)
      /\ x.hash = <<"v3", x.kind, x.correctedKind, x.corrects, Iso(x.occurred), Iso(x.recorded),
                    x.adjustment, x.requestId, x.previous, x.terminal, Iso(x.captured),
                    Iso(x.synced), x.sequence, x.offline>>
  BY DEF terminalEvent, Blank
<1>2. DOMAIN x = DOMAIN Blank
  BY DEF terminalEvent, Blank
<1>3. x.previous # <<"another">>
  BY <1>1, TipIsNoOther DEF ExportInv
<1> HIDE DEF x
<1>4. WellSealed(x)
  BY <1>1, <1>2, <1>3 DEF WellSealed, RowOK, V3Row, Positive
<1> QED
  BY <1>1, <1>4 DEF x

\* The void of an event that has a time.
LEMMA VoidRows ==
  ASSUME NEW c, WellLinked(c), NEW target \in Nat, chain[target].occurred \in Positive
  PROVE  LET x == voidEvent(c, target) IN
         /\ WellSealed(x) /\ x.previous = integrityTipHash(c)
         /\ x.requestId = <<"replacement-void", writes, 0>>
<1> DEFINE x == voidEvent(c, target)
<1>1. /\ x.version = "v1" /\ x.source = "manual" /\ x.void = TRUE
      /\ x.occurred = chain[target].occurred /\ x.recorded = 1
      /\ x.correctedKind = "none" /\ x.corrects = target
      /\ x.requestId = <<"replacement-void", writes, 0>> /\ x.previous = integrityTipHash(c)
      /\ x.hash = <<"correction", "void", x.corrects, Db(x.occurred), x.requestId, x.previous>>
  BY DEF voidEvent, Blank
<1>2. DOMAIN x = DOMAIN Blank
  BY DEF voidEvent, Blank
<1>3. x.previous # <<"another">>
  BY <1>1, TipIsNoOther
<1> HIDE DEF x
<1>4. WellSealed(x)
  BY <1>1, <1>2, <1>3 DEF WellSealed, RowOK, VoidRow, Positive
<1> QED
  BY <1>1, <1>4 DEF x

\* An event of a declared day.
LEMMA ManualRows ==
  ASSUME NEW c, WellLinked(c), NEW k \in {"clock_in", "clock_out"}, NEW t \in Positive,
         NEW index, writes \in Positive
  PROVE  LET x == manualEvent(c, k, t, index) IN
         /\ WellSealed(x) /\ x.previous = integrityTipHash(c)
         /\ x.requestId = <<"manual", writes, index>>
<1> DEFINE x == manualEvent(c, k, t, index)
<1>1. /\ x.version = "v1" /\ x.source = "manual" /\ x.void = FALSE /\ x.kind = k
      /\ x.occurred = t /\ x.recorded = 1 /\ x.manual = writes
      /\ x.correctedKind = "none" /\ x.corrects = 0
      /\ x.requestId = <<"manual", writes, index>> /\ x.previous = integrityTipHash(c)
      /\ x.hash = <<x.kind, Db(x.occurred), x.manual, x.requestId[3], x.previous>>
  BY DEF manualEvent, Blank
<1>2. DOMAIN x = DOMAIN Blank
  BY DEF manualEvent, Blank
<1>3. x.previous # <<"another">>
  BY <1>1, TipIsNoOther
<1>5. x.requestId[3] = index
  BY <1>1
<1> HIDE DEF x
<1>4. WellSealed(x)
  BY <1>1, <1>2, <1>3, <1>5 DEF WellSealed, RowOK, ManualRow, Positive
<1> QED
  BY <1>1, <1>4 DEF x

\* The row from before the versions.
LEMMA LegacyRows ==
  /\ WellSealed(legacyEvent) /\ legacyEvent.previous = NoHash
  /\ legacyEvent.requestId = <<"web", 0, 0>>
<1> DEFINE x == legacyEvent
<1>1. /\ x.version = "v1" /\ x.source = "web"
      /\ x.occurred = 1 /\ x.recorded = 1 /\ x.correctedKind = "none" /\ x.corrects = 0
      /\ x.requestId = <<"web", 0, 0>> /\ x.previous = NoHash
      /\ x.hash = <<x.kind, x.correctedKind, x.corrects, Iso(x.occurred), x.requestId, x.previous>>
  BY DEF legacyEvent, Blank
<1>2. DOMAIN x = DOMAIN Blank
  BY DEF legacyEvent, Blank
<1>3. x.previous # <<"another">>
  BY <1>1 DEF NoHash
<1> HIDE DEF x
<1>4. WellSealed(x)
  BY <1>1, <1>2, <1>3 DEF WellSealed, RowOK, LegacyRow, Positive
<1> QED
  BY <1>1, <1>4 DEF x

\* A writer of one row keeps the record linked.
LEMMA OneRowWritten ==
  ASSUME ExportInv, NEW x, WellSealed(x), x.previous = integrityTipHash(chain),
         x.requestId[2] = writes, Write(<<x>>)
  PROVE  ExportInv'
<1>1. damage = "none" /\ WellLinked(chain) /\ Older(chain) /\ writes \in Positive
  BY DEF ExportInv, Write
<1>2. chain \in Seq(Range(chain)) /\ chain' = Append(chain, x)
  BY <1>1 DEF Write, WellLinked
<1>3. \A i \in DOMAIN chain : chain[i].requestId # x.requestId
  BY <1>1 DEF Older, Positive
<1>4. WellLinked(chain')
  BY <1>1, <1>2, <1>3, ChainGrows
<1>5. writes' = writes + 1 /\ damage' = "none"
  BY <1>1 DEF Write
<1>6. ASSUME NEW i \in DOMAIN chain'
      PROVE  chain'[i].requestId[2] \in Nat /\ chain'[i].requestId[2] < writes'
  <2>1. (i \in DOMAIN chain /\ chain'[i] = chain[i]) \/ chain'[i] = x
    BY <1>2
  <2> QED
    BY <1>1, <1>5, <2>1 DEF Older, Positive
<1> QED
  BY <1>1, <1>4, <1>5, <1>6 DEF ExportInv, Older, Positive

\* So does a declared day, with the voids before it.
LEMMA DayWritten ==
  ASSUME ExportInv, NEW voided, voided = {} \/ \E i \in Targets : voided = {i},
         NEW t \in Positive, ManualDay(voided, t)
  PROVE  ExportInv'
<1> DEFINE target == CHOOSE x \in voided : TRUE
           voids == [i \in 1 .. Cardinality(voided) |-> voidEvent(chain, target)]
           c == chain \o voids
           first == manualEvent(c, "clock_in", t, 0)
           d == Append(c, first)
           last == manualEvent(d, "clock_out", t + 1, 1)
           e == Append(d, last)
<1>0. /\ damage = "none" /\ WellLinked(chain) /\ Older(chain) /\ writes \in Positive
      /\ chain' = chain \o (voids \o <<first, last>>) /\ writes' = writes + 1 /\ damage' = "none"
  BY DEF ExportInv, ManualDay, Write
<1>1. chain \in Seq(Range(chain))
  BY <1>0 DEF WellLinked
<1>2. /\ WellLinked(c) /\ \E S : voids \in Seq(S)
      /\ \A i \in DOMAIN c : \/ c[i].requestId[2] \in Nat /\ c[i].requestId[2] < writes
                            \/ c[i].requestId = <<"replacement-void", writes, 0>>
  <2>1. CASE voided = {}
    <3>1. Cardinality(voided) = 0
      BY <2>1, FS_EmptySet
    <3>2. voids = <<>>
      BY <3>1
    <3> HIDE DEF voids
    <3>3. chain \o <<>> = chain /\ <<>> \in Seq(Range(chain))
      BY <1>1
    <3> QED
      BY <1>0, <3>2, <3>3 DEF Older
  <2>2. CASE voided # {}
    <3>1. PICK n \in Targets : voided = {n}
      BY <2>2
    <3> DEFINE v == voidEvent(chain, n)
    <3>2. Cardinality(voided) = 1 /\ (CHOOSE x \in voided : TRUE) = n
      BY <3>1, FS_Singleton
    <3>3. voids = <<v>>
      <4>1. voids = [i \in 1 .. 1 |-> v]
        BY <3>2
      <4> HIDE DEF v, voids
      <4> QED
        BY <4>1
    <3>4. n \in Nat /\ chain[n].occurred \in Positive
      BY <1>0, <3>1 DEF Targets, WellLinked, WellSealed, RowOK
    <3>5. /\ WellSealed(v) /\ v.previous = integrityTipHash(chain)
          /\ v.requestId = <<"replacement-void", writes, 0>>
      BY <1>0, <3>4, VoidRows
    <3> HIDE DEF v, voids
    <3>6. \A i \in DOMAIN chain : chain[i].requestId # v.requestId
      BY <1>0, <3>5 DEF Older, Positive
    <3>7. WellLinked(Append(chain, v))
      BY <1>0, <3>5, <3>6, ChainGrows
    <3>8. c = Append(chain, v) /\ voids \in Seq({v})
      BY <1>1, <3>3
    <3> HIDE DEF c
    <3>9. \A i \in DOMAIN c : (i \in DOMAIN chain /\ c[i] = chain[i]) \/ c[i] = v
      BY <1>1, <3>8
    <3> QED
      BY <1>0, <3>5, <3>7, <3>8, <3>9 DEF Older
  <2> QED
    BY <2>1, <2>2
<1>3. chain' = e
  <2>1. PICK S : voids \in Seq(S)
    BY <1>2
  <2> DEFINE U == Range(chain) \union S \union {first, last}
  <2> HIDE DEF voids, first, last
  <2>2. chain \in Seq(U) /\ voids \in Seq(U) /\ <<first, last>> \in Seq(U)
    BY <1>1, <2>1
  <2>3. chain \o (voids \o <<first, last>>) = c \o <<first, last>> /\ c \in Seq(U)
    BY <2>2, ConcatAssociative, ConcatProperties
  <2> HIDE DEF c
  <2>4. c \o <<first, last>> = Append(Append(c, first), last)
    BY <2>2, <2>3
  <2> QED
    BY <1>0, <2>3, <2>4
<1> HIDE DEF c, voids
<1>4. /\ WellSealed(first) /\ first.previous = integrityTipHash(c)
      /\ first.requestId = <<"manual", writes, 0>>
  BY <1>0, <1>2, ManualRows
<1> HIDE DEF first
<1>5. \A i \in DOMAIN c : c[i].requestId # first.requestId
  BY <1>0, <1>2, <1>4 DEF Positive
<1>6. WellLinked(d)
  BY <1>2, <1>4, <1>5, ChainGrows
<1>7. \A i \in DOMAIN d : (i \in DOMAIN c /\ d[i] = c[i]) \/ d[i] = first
  BY <1>2 DEF WellLinked
<1> HIDE DEF d
<1>8. /\ WellSealed(last) /\ last.previous = integrityTipHash(d)
      /\ last.requestId = <<"manual", writes, 1>>
  <2>1. t + 1 \in Positive
    BY DEF Positive
  <2> QED
    BY <1>0, <1>6, <2>1, ManualRows
<1> HIDE DEF last
<1>9. \A i \in DOMAIN d : /\ d[i].requestId # last.requestId
                         /\ d[i].requestId[2] \in Nat /\ d[i].requestId[2] <= writes
  BY <1>0, <1>2, <1>4, <1>7, <1>8 DEF Positive
<1>10. WellLinked(e)
  BY <1>6, <1>8, <1>9, ChainGrows
<1>11. \A i \in DOMAIN e : (i \in DOMAIN d /\ e[i] = d[i]) \/ e[i] = last
  BY <1>6 DEF WellLinked
<1> HIDE DEF e
<1>12. \A i \in DOMAIN e : e[i].requestId[2] \in Nat /\ e[i].requestId[2] < writes + 1
  BY <1>0, <1>8, <1>9, <1>11 DEF Positive
<1>13. WellLinked(chain') /\ writes' \in Positive
  <2>1. WellLinked(chain')
    BY <1>3, <1>10, Zenon
  <2>2. writes' \in Positive
    BY <1>0 DEF Positive
  <2> QED
    BY <2>1, <2>2
<1>14. Older(chain)'
  <2>1. \A i \in DOMAIN chain' : chain'[i].requestId[2] \in Nat
                               /\ chain'[i].requestId[2] < writes'
    BY <1>0, <1>3, <1>12
  <2> QED
    BY <2>1 DEF Older
<1> QED
  BY <1>0, <1>13, <1>14 DEF ExportInv

\* The invariant of Export holds at the start.
LEMMA ExportInvInit == ExportInit => ExportInv
<1> SUFFICES ASSUME ExportInit PROVE ExportInv
  OBVIOUS
<1>1. WellLinked(<<>>)
  BY DEF WellLinked
<1>2. WellLinked(<<legacyEvent>>) /\ Older(<<legacyEvent>>)
  <2>1. integrityTipHash(<<>>) = NoHash
    BY <1>1, TipIsLast
  <2>2. WellLinked(Append(<<>>, legacyEvent))
    <3>1. \A i \in DOMAIN <<>> : <<>>[i].requestId # legacyEvent.requestId
      OBVIOUS
    <3> QED
      BY <1>1, <2>1, <3>1, LegacyRows, ChainGrows
  <2>3. Append(<<>>, legacyEvent) = <<legacyEvent>>
    OBVIOUS
  <2> QED
    BY <2>2, <2>3, LegacyRows DEF Older, ExportInit
<1> QED
  BY <1>1, <1>2 DEF ExportInit, ExportInv, Older, Positive

\* And every step keeps it.
LEMMA ExportInvStep == ExportInv /\ [ExportNext]_exportVars => ExportInv'
<1> SUFFICES ASSUME ExportInv, [ExportNext]_exportVars PROVE ExportInv'
  OBVIOUS
<1>0. ClockTimes \subseteq Positive /\ Columns \subseteq {"kind", "correctedKind", "corrects",
        "occurredAt", "previousHash", "breakPaid", "lost"}
  BY ExportData DEF Positive
<1>1. ASSUME NEW k \in {"clock_in", "clock_out"}, NEW t \in ClockTimes, NEW adjustment \in {0, 1},
             WebClock(k, t, adjustment)
      PROVE  ExportInv'
  BY <1>0, <1>1, WebRows, OneRowWritten DEF WebClock, Write
<1>2. ASSUME NEW k \in {"clock_in", "clock_out"}, NEW t \in ClockTimes, NEW adjustment \in {0, 1},
             NEW offline \in BOOLEAN, TerminalAction(k, t, adjustment, offline)
      PROVE  ExportInv'
  BY <1>0, <1>2, TerminalRows, OneRowWritten DEF TerminalAction, Write
<1>3. ASSUME NEW i \in Targets, damage = "none" PROVE i \in Nat
  BY <1>3 DEF Targets, ExportInv, WellLinked
<1>4. ASSUME NEW k \in {"clock_in", "clock_out"}, NEW t \in ClockTimes, WebCorrection(k, t)
      PROVE  ExportInv'
  <2>1. PICK i \in Targets : Write(<<webEvent("correction", k, i, t, 0)>>)
    BY <1>4 DEF WebCorrection
  <2> QED
    BY <1>0, <1>3, <2>1, WebRows, OneRowWritten DEF Write
<1>5. ASSUME NEW k \in {"clock_in", "clock_out"}, NEW t \in ClockTimes, CorrectionApproved(k, t)
      PROVE  ExportInv'
  <2>1. PICK i \in Targets : Write(<<correctionEvent(k, i, t)>>)
    BY <1>5 DEF CorrectionApproved
  <2> QED
    BY <1>0, <1>3, <2>1, ApprovalRows, OneRowWritten DEF Write
<1>6. ASSUME NEW voided \in {{}} \union {{i} : i \in Targets}, NEW t \in ClockTimes,
             ManualDay(voided, t)
      PROVE  ExportInv'
  BY <1>0, <1>6, DayWritten
<1>7. ASSUME NEW i \in 1 .. MaxEvents, NEW column \in Columns, Damage(i, column)
      PROVE  ExportInv'
  <2>0. /\ damage = "none" /\ WellLinked(chain) /\ i \in DOMAIN chain
        /\ writes' = writes /\ writes \in Positive
    BY <1>7 DEF Damage, ExportInv
  <2>1. CASE column = "lost"
    BY <1>7, <2>0, <2>1, DamageIsSeen DEF Damage, ExportInv
  <2>2. CASE column # "lost"
    <3>1. chain' = [chain EXCEPT ![i] = Altered(@, column)]
          /\ damage' = IF Sealed(chain[i], column) THEN column ELSE "unsealed"
      BY <1>7, <2>2 DEF Damage
    <3>2. column # "none"
      BY <1>0
    <3> QED
      BY <2>0, <3>1, <3>2, DamageIsSeen DEF ExportInv
  <2> QED
    BY <2>1, <2>2
<1>8. CASE UNCHANGED exportVars
  BY <1>8 DEF exportVars, ExportInv, Older, WellLinked, workEventExportData, Hashes, Referenced
<1> QED
  BY <1>1, <1>2, <1>4, <1>5, <1>6, <1>7, <1>8 DEF ExportNext

\* The package of a record of any length, written by any of the writers in any
\* order, is valid; and no longer valid once a covered column of any row has
\* changed or any row but the last was lost.
THEOREM PackageIsHonest == ExportSpec => []PackageTellsWhatWasWritten
<1>1. ExportInv => PackageTellsWhatWasWritten
  BY LinkedChainIsValid DEF ExportInv, PackageTellsWhatWasWritten
<1> QED
  BY <1>1, ExportInvInit, ExportInvStep, PTL DEF ExportSpec
=============================================================================
