----------------------------- MODULE Terminals -----------------------------
(***************************************************************************)
(* The administration of a company's attendance terminals: the tags of its *)
(* people and the revision they are cached under, the PIN of the device's  *)
(* administration mode with its waiting times, and the sessions it opens.  *)
(* A request of a device reads the company when it is authenticated and    *)
(* acts on what it read in a later step. Time is in ticks of three         *)
(* minutes.                                                                *)
(***************************************************************************)
EXTENDS Integers, FiniteSets, FiniteSetsExt

CONSTANTS
  Staff,         \* people of the company
  Tags,
  Capacity,      \* active people with a tag, thirty
  Devices,       \* attendance_terminals
  Pins,
  Attempts,      \* requests for a session handled at once
  MaxRevision,   \* bound: changes of tags
  MaxTicks,      \* bound: the clock stops here
  MaxTries       \* bound: requests for a session

VARIABLES
  active,        \* people who may clock
  tags,          \* the tag of each person, NoTag without one
  revision,      \* organizations.rfidCacheRevision
  caches,        \* what each device holds: [revision, items]
  downloads,     \* the revision that a download of each device has read
  pin,           \* the PIN configured, NoPin without one
  failures, blocked,  \* terminal_pin_attempts of each scope
  attempts,      \* how far each request for a session is
  sessions,      \* terminal_admin_sessions: [device, pin (ghost), used]
  ticks,
  tries,
  moved,         \* ghost: people (de)activated since each device's cache was read
  recalled,      \* ghost: somebody with a tag was activated again
  overlapped     \* ghost: requests about the PIN overlapped

tagVars == <<active, tags, revision, caches, downloads, moved, recalled>>
pinVars == <<pin, failures, blocked, attempts, sessions, ticks, tries, overlapped>>
terminalVars == <<tagVars, pinVars>>

Scopes == Devices \union {"organization"}
NoTag == "none"
NoPin == "none"
NoDownload == -1
NoAttempt == [step |-> "none"]
Tagged(p) == tags[p] # NoTag

-----------------------------------------------------------------------------
(* Tags.                                                                   *)

\* What a device is sent: the tags of the active people.
CacheItems == {<<tags[p], p>> : p \in {p \in active : Tagged(p)}}

\* PUT .../rfid from the web or a device, one transaction: another tag only
\* when it is to be replaced, a first one only below the capacity, and no tag
\* of somebody else.
AssignRFID(p, t, replace) ==
  /\ p \in active
  /\ Tagged(p) => replace
  /\ ~Tagged(p) => Cardinality({x \in active : Tagged(x)}) < Capacity
  /\ \A x \in Staff \ {p} : tags[x] # t
  /\ revision < MaxRevision
  /\ tags' = [tags EXCEPT ![p] = t]
  /\ revision' = revision + 1
  /\ UNCHANGED <<active, caches, downloads, moved, recalled, pinVars>>

\* Mistake: the devices are not told of a tag that was taken away.
RevokeRFIDQuietly(p) ==
  /\ revision < MaxRevision
  /\ tags' = [tags EXCEPT ![p] = NoTag]
  /\ UNCHANGED <<active, revision, caches, downloads, moved, recalled, pinVars>>

\* DELETE .../rfid, one transaction; the person may be inactive or have none.
RevokeRFID(p) ==
  /\ revision < MaxRevision
  /\ tags' = [tags EXCEPT ![p] = NoTag]
  /\ revision' = revision + 1
  /\ UNCHANGED <<active, caches, downloads, moved, recalled, pinVars>>

\* The team page deactivates and activates people; their tags stay.
Activate(p, on) ==
  /\ (p \in active) # on
  /\ active' = IF on THEN active \union {p} ELSE active \ {p}
  /\ moved' = [d \in Devices |-> moved[d] \union {p}]
  /\ recalled' = (recalled \/ (on /\ Tagged(p)))
  /\ UNCHANGED <<tags, revision, caches, downloads, pinVars>>

\* GET cache: the company is read, and its revision is compared.
CacheRead(d) ==
  /\ downloads[d] = NoDownload
  /\ caches[d].revision # revision
  /\ downloads' = [downloads EXCEPT ![d] = revision]
  /\ UNCHANGED <<active, tags, revision, caches, moved, recalled, pinVars>>

\* Then the people are read, and the answer arrives or is lost.
CacheAnswer(d, arrives) ==
  /\ downloads[d] # NoDownload
  /\ downloads' = [downloads EXCEPT ![d] = NoDownload]
  /\ IF arrives
     THEN /\ caches' = [caches EXCEPT ![d] = [revision |-> downloads[d], items |-> CacheItems]]
          /\ moved' = [moved EXCEPT ![d] = {}]
     ELSE UNCHANGED <<caches, moved>>
  /\ UNCHANGED <<active, tags, revision, recalled, pinVars>>

-----------------------------------------------------------------------------
(* The PIN.                                                                *)

\* Three failures and more make the device wait, half an hour at most.
pinDelay(n) == CASE n < 3 -> 0 [] n \in 3 .. 12 -> n - 2 [] OTHER -> 10

InHandNow == {a \in Attempts : attempts[a] # NoAttempt}

\* POST admin-sessions: nobody waits, and the PIN configured is compared.
SessionRequest(a, d, typed) ==
  /\ attempts[a] = NoAttempt /\ tries < MaxTries
  /\ pin # NoPin /\ blocked[d] <= ticks /\ blocked["organization"] <= ticks
  /\ attempts' = [attempts EXCEPT ![a] =
       [step |-> IF typed = pin THEN "right" ELSE "wrong", device |-> d, typed |-> typed]]
  /\ tries' = tries + 1
  /\ overlapped' = (overlapped \/ InHandNow # {})
  /\ UNCHANGED <<tagVars, pin, failures, blocked, sessions, ticks>>

\* A wrong one counts for the device and for the company: the counters are
\* read, and saved with one more in a later step.
PinFailureRead(a) ==
  /\ attempts[a].step = "wrong"
  /\ attempts' = [attempts EXCEPT ![a] =
       [step |-> "counted",
        counts |-> [s \in {attempts[a].device, "organization"} |-> failures[s] + 1]]]
  /\ UNCHANGED <<tagVars, pin, failures, blocked, sessions, ticks, tries, overlapped>>

recordPINFailure(a) ==
  /\ attempts[a].step = "counted"
  /\ LET counts == attempts[a].counts
         late == {s \in DOMAIN counts : pinDelay(counts[s]) > 0}
     IN /\ failures' = [s \in Scopes |-> IF s \in DOMAIN counts THEN counts[s] ELSE failures[s]]
        /\ blocked' = [s \in Scopes |->
             IF s \in late THEN ticks + pinDelay(counts[s]) ELSE blocked[s]]
  /\ attempts' = [attempts EXCEPT ![a] = NoAttempt]
  /\ UNCHANGED <<tagVars, pin, sessions, ticks, tries, overlapped>>

\* The right one deletes every counter of the company and opens a session.
SessionCreated(a) ==
  /\ attempts[a].step = "right"
  /\ failures' = [s \in Scopes |-> 0]
  /\ blocked' = [s \in Scopes |-> 0]
  /\ sessions' = sessions \union
       {[device |-> attempts[a].device, pin |-> attempts[a].typed, used |-> ticks]}
  /\ attempts' = [attempts EXCEPT ![a] = NoAttempt]
  /\ UNCHANGED <<tagVars, pin, ticks, tries, overlapped>>

\* PUT admin-pin, one transaction.
UpdateAdminPIN(new) ==
  /\ pin' = new /\ pin # new
  /\ sessions' = {}
  /\ failures' = [s \in Scopes |-> 0]
  /\ blocked' = [s \in Scopes |-> 0]
  /\ overlapped' = (overlapped \/ InHandNow # {})
  /\ UNCHANGED <<tagVars, attempts, ticks, tries>>

\* A request with a session renews it, or finds it idle for five minutes and
\* revokes it.
RequireDeviceAdmin(s) ==
  /\ s \in sessions
  /\ sessions' = (sessions \ {s}) \union
       (IF ticks - s.used < 2 THEN {[device |-> s.device, pin |-> s.pin, used |-> ticks]} ELSE {})
  /\ UNCHANGED <<tagVars, pin, failures, blocked, attempts, ticks, tries, overlapped>>

CloseAdminSession(s) ==
  /\ s \in sessions /\ ticks - s.used < 2
  /\ sessions' = sessions \ {s}
  /\ UNCHANGED <<tagVars, pin, failures, blocked, attempts, ticks, tries, overlapped>>

TimePasses ==
  /\ ticks < MaxTicks
  /\ ticks' = ticks + 1
  /\ UNCHANGED <<tagVars, pin, failures, blocked, attempts, sessions, tries, overlapped>>

TerminalsInit ==
  /\ active = Staff /\ tags = [p \in Staff |-> NoTag] /\ revision = 0
  /\ caches = [d \in Devices |-> [revision |-> 0, items |-> {}]]
  /\ downloads = [d \in Devices |-> NoDownload]
  /\ pin = NoPin /\ failures = [s \in Scopes |-> 0] /\ blocked = [s \in Scopes |-> 0]
  /\ attempts = [a \in Attempts |-> NoAttempt] /\ sessions = {} /\ ticks = 0 /\ tries = 0
  /\ moved = [d \in Devices |-> {}] /\ recalled = FALSE /\ overlapped = FALSE

TagNext ==
  \/ \E p \in Staff : \/ RevokeRFID(p)
                      \/ \E t \in Tags, replace \in BOOLEAN : AssignRFID(p, t, replace)
                      \/ \E on \in BOOLEAN : Activate(p, on)
  \/ \E d \in Devices : CacheRead(d) \/ \E arrives \in BOOLEAN : CacheAnswer(d, arrives)

PinNext ==
  \/ \E a \in Attempts : \/ \E d \in Devices, typed \in Pins : SessionRequest(a, d, typed)
                         \/ PinFailureRead(a) \/ recordPINFailure(a) \/ SessionCreated(a)
  \/ \E new \in Pins : UpdateAdminPIN(new)
  \/ \E s \in sessions : RequireDeviceAdmin(s) \/ CloseAdminSession(s)
  \/ TimePasses

TerminalSpec == TerminalsInit /\ [][TagNext \/ PinNext]_terminalVars

-----------------------------------------------------------------------------

TerminalTypes ==
  /\ active \subseteq Staff /\ revision \in 0 .. MaxRevision
  /\ \A d \in Devices : downloads[d] \in {NoDownload} \union 0 .. revision
  /\ \A s \in Scopes : failures[s] \in 0 .. MaxTries
  /\ \A s \in sessions : s.device \in Devices /\ s.used \in 0 .. ticks

\* A device that is told "unchanged" holds the tags as they are, though they
\* may change between the reading of the revision and of the people: those
\* aside who were activated or deactivated since, which raises no revision.
CachesAreTrue ==
  \A d \in Devices : caches[d].revision = revision =>
    {i \in caches[d].items : i[2] \notin moved[d]} = {i \in CacheItems : i[2] \notin moved[d]}

\* The active people with a tag stay within the capacity, unless one was
\* activated again.
CapacityIsKept == ~recalled => Cardinality({p \in active : Tagged(p)}) <= Capacity

\* What the devices count, added up.
DeviceSum(f) == MapThenSumSet(LAMBDA d : f[d], Devices)

\* What the company failed is what its devices failed, and it waits at least
\* as long as each, unless two requests about the PIN overlapped.
CountersAgree ==
  ~overlapped =>
    /\ failures["organization"] = DeviceSum(failures)
    /\ \A d \in Devices : blocked[d] <= blocked["organization"]

\* A session was opened with the PIN in force, with the same exception.
SessionsHaveThePin == ~overlapped => \A s \in sessions : s.pin = pin

\* The devices agree with the company.
TerminalsStayInStep ==
  CachesAreTrue /\ CapacityIsKept /\ CountersAgree /\ SessionsHaveThePin
=============================================================================
