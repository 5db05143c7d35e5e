------------------------------ MODULE Accounts ------------------------------
(***************************************************************************)
(* One person's account: its creation and its updates by a manager, an     *)
(* administrator or the person, and the invitations that let the person    *)
(* set a password. Issuing one takes several saves with a mail in between  *)
(* and no transaction; accepting one is a transaction. An invitation       *)
(* stands for its token, which only the mail carries.                      *)
(***************************************************************************)
EXTENDS Integers, FiniteSets

CONSTANTS
  Invitations,   \* user_invitations that may be issued
  Emails,        \* addresses the person may have
  Lifetime,      \* ticks until an invitation expires, seventy-two hours
  MaxClock       \* bound: the clock stops here

VARIABLES
  clock,
  user,          \* the record of the person
  invitations,   \* user_invitations and the requests issuing them
  mailed,        \* invitations whose mail went out
  edit,          \* what an update of the account holds before its save
  uses,          \* ghost: how often each invitation set the password
  granted,       \* ghost: the role an administrator, or the creation, gave
  disturbed      \* ghost: requests overlapped, or one failed half-way

accountVars == <<clock, user, invitations, mailed, edit, uses, granted, disturbed>>

Roles == {"admin", "manager", "employee", "representative"}
NotIssued == [stage |-> "none"]
NoEdit == [op |-> "idle"]
Edited == [op |-> "done"]  \* bound: one update of the account

Users == [role : Roles, email : Emails, active : BOOLEAN,
          status : {"none", "pending", "accepted"}, sent : Int, expires : Int,
          password : Invitations \union {"none"}]

\* What a save leaves of a record: the columns that differ from the record
\* that was read.
Saved(stored, original, new) ==
  [f \in DOMAIN stored |-> IF new[f] # original[f] THEN new[f] ELSE stored[f]]

InTable(i) == invitations[i].stage # "none" /\ invitations[i].status # "deleted"
Live(i) == InTable(i) /\ invitations[i].status = "pending" /\ clock < invitations[i].expires
Issuing(i) == invitations[i].stage \notin {"none", "done"}
AllDone == edit.op # "update" /\ \A i \in Invitations : ~Issuing(i)

\* Create request: a manager creates employees only; nothing of an invitation
\* can be given.
UserCreated(by, role, email) ==
  [role |-> IF by = "manager" THEN "employee" ELSE role, email |-> email, active |-> TRUE,
   status |-> "none", sent |-> 0, expires |-> 0, password |-> "none"]

-----------------------------------------------------------------------------
(* Issuing an invitation.                                                  *)

At(i, stage) == invitations[i].stage = stage
Moves(i, stage) == invitations' = [invitations EXCEPT ![i].stage = stage]
Ends(i, status) ==  \* the request ends; what it had read is forgotten
  invitations' = [invitations EXCEPT ![i] =
    [stage |-> "done", email |-> invitations[i].email, status |-> status,
     sent |-> invitations[i].sent, expires |-> invitations[i].expires]]

\* The person is read and the invitation stored.
IssueStart(i, by) ==
  /\ At(i, "none")
  /\ by = "admin" \/ user.role = "employee"
  /\ invitations' = [invitations EXCEPT ![i] =
       [stage |-> "stored", email |-> user.email, status |-> "pending", sent |-> clock,
        expires |-> clock + Lifetime, read |-> user, others |-> {}]]
  /\ disturbed' = (disturbed \/ ~AllDone)
  /\ UNCHANGED <<clock, user, mailed, edit, uses, granted>>

\* The mail goes out, or it fails: then the invitation is deleted or, when that
\* fails too, revoked.
IssueMail(i) ==
  /\ At(i, "stored") /\ Moves(i, "mailed")
  /\ mailed' = mailed \union {i}
  /\ UNCHANGED <<clock, user, edit, uses, granted, disturbed>>

IssueMailFails(i, outcome) ==
  /\ At(i, "stored") /\ outcome \in {"deleted", "revoked"}
  /\ Ends(i, outcome)
  /\ UNCHANGED <<clock, user, mailed, edit, uses, granted, disturbed>>

\* Mistake: the other invitations are left as they are.
IssueFindNone(i) ==
  /\ At(i, "mailed") /\ Moves(i, "revoking")
  /\ UNCHANGED <<clock, user, mailed, edit, uses, granted, disturbed>>

\* The other pending invitations are looked for, then revoked one by one.
IssueFind(i) ==
  /\ At(i, "mailed")
  /\ invitations' = [invitations EXCEPT
       ![i].stage = "revoking",
       ![i].others = {j \in Invitations \ {i} : InTable(j) /\ invitations[j].status = "pending"}]
  /\ UNCHANGED <<clock, user, mailed, edit, uses, granted, disturbed>>

IssueRevoke(i, j) ==
  /\ At(i, "revoking") /\ j \in invitations[i].others
  /\ invitations' = [invitations EXCEPT
       ![j].status = IF @ = "deleted" THEN @ ELSE "revoked",
       ![i].others = @ \ {j}]
  /\ UNCHANGED <<clock, user, mailed, edit, uses, granted, disturbed>>

\* The person read at the beginning is saved as invited.
IssueFinish(i) ==
  LET read == invitations[i].read
      new  == [read EXCEPT !.status = "pending", !.sent = invitations[i].sent,
                           !.expires = invitations[i].expires]
  IN /\ At(i, "revoking") /\ invitations[i].others = {}
     /\ user' = Saved(user, read, new)
     /\ Ends(i, invitations[i].status)
     /\ UNCHANGED <<clock, mailed, edit, uses, granted, disturbed>>

\* A save in between fails, and the request ends there.
IssueFails(i) ==
  /\ invitations[i].stage \in {"mailed", "revoking"}
  /\ Ends(i, invitations[i].status)
  /\ disturbed' = TRUE
  /\ UNCHANGED <<clock, user, mailed, edit, uses, granted>>

-----------------------------------------------------------------------------
(* Accepting it, and the account itself.                                   *)

\* What the page of a link shows, and whether it shows anything.
invitationDetails(i) ==
  Live(i) /\ user.email = invitations[i].email /\ user.active

\* The transaction checks all of it again and revokes the others.
acceptInvitation(i) ==
  /\ i \in mailed /\ invitationDetails(i)
  /\ user' = [user EXCEPT !.password = i, !.status = "accepted"]
  /\ invitations' = [j \in Invitations |->
       IF j = i THEN [invitations[j] EXCEPT !.status = "accepted"]
       ELSE IF InTable(j) /\ invitations[j].status = "pending"
       THEN [invitations[j] EXCEPT !.status = "revoked"]
       ELSE invitations[j]]
  /\ uses' = [uses EXCEPT ![i] = @ + 1]
  /\ disturbed' = (disturbed \/ ~AllDone)
  /\ UNCHANGED <<clock, mailed, edit, granted>>

\* Update request: the columns of the invitation are put back as they were
\* read; the person changes neither role nor activity, a manager changes
\* employees only and leaves them employees.
UserUpdateRead(by, role, email, active) ==
  /\ edit.op = "idle"
  /\ by = "manager" => user.role = "employee"
  /\ edit' = [op |-> "update", by |-> by, original |-> user,
              new |-> CASE by = "self" -> [user EXCEPT !.email = email]
                        [] by = "manager" -> [user EXCEPT !.role = "employee", !.email = email,
                                                          !.active = active]
                        [] by = "admin" -> [user EXCEPT !.role = role, !.email = email,
                                                        !.active = active]]
  /\ disturbed' = (disturbed \/ ~AllDone)
  /\ UNCHANGED <<clock, user, invitations, mailed, uses, granted>>

UserUpdateSave ==
  /\ edit.op = "update"
  /\ user' = Saved(user, edit.original, edit.new)
  /\ granted' = IF edit.by = "admin" /\ edit.new.role # edit.original.role
                THEN edit.new.role ELSE granted
  /\ edit' = Edited
  /\ UNCHANGED <<clock, invitations, mailed, uses, disturbed>>

ClockTicks ==
  /\ clock < MaxClock
  /\ clock' = clock + 1
  /\ UNCHANGED <<user, invitations, mailed, edit, uses, granted, disturbed>>

AccountInit ==
  /\ clock = 0
  /\ \E by \in {"admin", "manager"}, role \in {"manager", "employee"}, email \in Emails :
       user = UserCreated(by, role, email)
  /\ invitations = [i \in Invitations |-> NotIssued]
  /\ mailed = {}
  /\ edit = NoEdit
  /\ uses = [i \in Invitations |-> 0]
  /\ granted = user.role
  /\ disturbed = FALSE

AccountNext ==
  \/ \E i \in Invitations : \/ \E by \in {"admin", "manager"} : IssueStart(i, by)
                           \/ IssueMail(i) \/ IssueFind(i) \/ IssueFinish(i) \/ IssueFails(i)
                           \/ \E outcome \in {"deleted", "revoked"} : IssueMailFails(i, outcome)
                           \/ \E j \in Invitations : IssueRevoke(i, j)
                           \/ acceptInvitation(i)
  \/ \E by \in {"self", "manager", "admin"}, role \in {"manager", "employee"},
       email \in Emails, active \in BOOLEAN : UserUpdateRead(by, role, email, active)
  \/ UserUpdateSave
  \/ ClockTicks

AccountSpec == AccountInit /\ [][AccountNext]_accountVars

-----------------------------------------------------------------------------

AccountTypes ==
  /\ user \in Users
  /\ mailed \subseteq {i \in Invitations : invitations[i].stage # "none"}
  /\ uses \in [Invitations -> Nat]

\* A link sets the password once. When nothing is in hand, nothing failed
\* half-way and no two requests overlapped, one link works at most, the last
\* one mailed; and the state the team page shows is true: pending and not
\* expired means that there is such a link (unless the address or the account
\* changed since), and no link outlives an acceptance. Even overlapping
\* requests leave the role to the administrators.
InvitationsAreHonest ==
  LET live == {i \in mailed : Live(i)}
  IN /\ \A i \in Invitations : uses[i] <= 1
     /\ (AllDone /\ ~disturbed) =>
          /\ \A i \in live : \A j \in mailed : invitations[j].sent <= invitations[i].sent
          /\ Cardinality(live) <= 1
          /\ (user.status = "pending" /\ clock < user.expires) => live # {}
          /\ user.status = "accepted" => live = {}
     /\ user.role = granted
=============================================================================
