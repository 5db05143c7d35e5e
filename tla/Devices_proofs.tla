---------------------------- MODULE Devices_proofs ----------------------------
(***************************************************************************)
(* Theorems about the simulator of a terminal, for every size of its queue *)
(* and of a batch, and any number of actions, calls and synchronisations;  *)
(* and about the terminals of a company, for every set of people, tags,    *)
(* devices, PINs and requests handled at once, and for every bound.        *)
(***************************************************************************)
EXTENDS Simulator, Terminals, Counting

-----------------------------------------------------------------------------
(* What is left of a sequence.                                             *)

\* The function that Without defines.
Rest(rest, m, s, ids) ==
  rest = [n \in 0 .. m |->
            IF n = 0 THEN <<>>
            ELSE IF s[n].id \in ids THEN rest[n - 1] ELSE Append(rest[n - 1], s[n])]

LEMMA RestExists ==
  ASSUME NEW T, NEW s \in Seq(T), NEW ids
  PROVE  \E rest : Rest(rest, Len(s), s, ids)
<1> DEFINE Good == {m \in 0 .. Len(s) : \E rest : Rest(rest, m, s, ids)}
<1>1. Len(s) \in Nat
  OBVIOUS
<1>2. 0 \in Good
  <2> DEFINE empty == [n \in 0 .. 0 |-> <<>>]
  <2>1. Rest(empty, 0, s, ids)
    BY DEF Rest
  <2> HIDE DEF empty
  <2> QED
    BY <1>1, <2>1
<1>3. ASSUME NEW m \in 0 .. Len(s) - 1, m \in Good
      PROVE  m + 1 \in Good
  <2>1. PICK rest : Rest(rest, m, s, ids)
    BY <1>3
  <2> DEFINE next == IF s[m + 1].id \in ids THEN rest[m] ELSE Append(rest[m], s[m + 1])
             more == [n \in 0 .. m + 1 |-> IF n = m + 1 THEN next ELSE rest[n]]
  <2>2. m \in Nat /\ m + 1 \in 0 .. Len(s) /\ m + 1 # 0
    BY <1>1
  <2>3. ASSUME NEW n \in 0 .. m + 1
        PROVE  more[n] = IF n = 0 THEN <<>>
                         ELSE IF s[n].id \in ids THEN more[n - 1]
                         ELSE Append(more[n - 1], s[n])
    <3>1. CASE n = m + 1
      <4>1. more[n] = next /\ n # 0 /\ n - 1 = m /\ m \in 0 .. m + 1 /\ m # m + 1
        BY <2>2, <3>1
      <4>2. more[n - 1] = rest[m]
        BY <4>1
      <4> QED
        BY <3>1, <4>1, <4>2
    <3>2. CASE n # m + 1
      <4>1. n \in 0 .. m /\ more[n] = rest[n]
        BY <2>2, <3>2
      <4>2. rest[n] = IF n = 0 THEN <<>>
                      ELSE IF s[n].id \in ids THEN rest[n - 1]
                      ELSE Append(rest[n - 1], s[n])
        BY <2>1, <4>1 DEF Rest
      <4>3. n # 0 => n - 1 \in 0 .. m + 1 /\ n - 1 # m + 1
        BY <2>2, <4>1
      <4>4. n # 0 => more[n - 1] = rest[n - 1]
        BY <4>3
      <4> HIDE DEF more, next
      <4> QED
        BY <4>1, <4>2, <4>4
    <3> QED
      BY <3>1, <3>2
  <2>4. more = [n \in 0 .. m + 1 |-> more[n]]
    OBVIOUS
  <2> HIDE DEF more, next
  <2>5. Rest(more, m + 1, s, ids)
    BY <2>3, <2>4 DEF Rest
  <2> QED
    BY <2>2, <2>5
<1> HIDE DEF Good
<1>4. Len(s) \in Good
  BY <1>1, <1>2, <1>3, UpTo
<1> QED
  BY <1>4 DEF Good

\* How the elements of w, which s has left, are placed in the first m of s: e
\* gives the position of each.
Places(e, w, m, s, ids) ==
  /\ e \in [DOMAIN w -> 1 .. m]
  /\ \A k \in DOMAIN w : w[k] = s[e[k]] /\ s[e[k]].id \notin ids
  /\ \A j, k \in DOMAIN w : j < k => e[j] < e[k]
  /\ \A i \in 1 .. m : s[i].id \notin ids => \E k \in DOMAIN w : e[k] = i

LEMMA WithoutKeepsOrder ==
  ASSUME NEW T, NEW s \in Seq(T), NEW ids
  PROVE  /\ Without(s, ids) \in Seq(T)
         /\ \E e : Places(e, Without(s, ids), Len(s), s, ids)
<1> DEFINE rest == CHOOSE rest : Rest(rest, Len(s), s, ids)
<1>1. Rest(rest, Len(s), s, ids)
  BY RestExists
<1>2. Without(s, ids) = rest[Len(s)]
  BY DEF Without, Rest
<1> HIDE DEF rest
<1>3. /\ Len(s) \in Nat /\ \A i \in 1 .. Len(s) : s[i] \in T
      /\ rest[0] = <<>>
      /\ \A n \in 1 .. Len(s) :
           rest[n] = IF s[n].id \in ids THEN rest[n - 1] ELSE Append(rest[n - 1], s[n])
  <2>1. Len(s) \in Nat /\ \A i \in 1 .. Len(s) : s[i] \in T
    OBVIOUS
  <2>2. \A n \in 0 .. Len(s) :
          rest[n] = IF n = 0 THEN <<>>
                    ELSE IF s[n].id \in ids THEN rest[n - 1] ELSE Append(rest[n - 1], s[n])
    BY <1>1 DEF Rest
  <2> QED
    BY <2>1, <2>2
<1> DEFINE Good == {m \in 0 .. Len(s) : rest[m] \in Seq(T)
                                         /\ \E e : Places(e, rest[m], m, s, ids)}
<1>4. 0 \in Good
  <2>1. rest[0] \in Seq(T) /\ DOMAIN rest[0] = {}
    BY <1>3
  <2> DEFINE none == [k \in DOMAIN rest[0] |-> 0]
  <2>2. none \in [DOMAIN rest[0] -> 1 .. 0]
    BY <2>1
  <2>3. Places(none, rest[0], 0, s, ids)
    BY <2>1, <2>2 DEF Places
  <2>4. 0 \in 0 .. Len(s)
    BY <1>3
  <2> HIDE DEF none
  <2> QED
    BY <2>1, <2>3, <2>4
<1>5. ASSUME NEW m \in 0 .. Len(s) - 1, m \in Good
      PROVE  m + 1 \in Good
  <2>1. PICK e : rest[m] \in Seq(T) /\ Places(e, rest[m], m, s, ids)
    BY <1>5
  <2>2. /\ m \in Nat /\ m + 1 \in 1 .. Len(s) /\ m + 1 \in 0 .. Len(s) /\ s[m + 1] \in T
        /\ rest[m + 1] = IF s[m + 1].id \in ids THEN rest[m]
                         ELSE Append(rest[m], s[m + 1])
    <3>1. m \in Nat /\ m + 1 \in 1 .. Len(s) /\ m + 1 \in 0 .. Len(s) /\ (m + 1) - 1 = m
      BY <1>3
    <3> QED
      BY <1>3, <3>1
  <2>3. CASE s[m + 1].id \in ids
    <3>1. rest[m + 1] = rest[m]
      BY <2>2, <2>3
    <3>2. Places(e, rest[m], m + 1, s, ids)
      BY <2>1, <2>2, <2>3 DEF Places
    <3> QED
      BY <2>1, <2>2, <3>1, <3>2
  <2>4. CASE s[m + 1].id \notin ids
    <3> DEFINE w == rest[m]
               v == Append(w, s[m + 1])
               f == [k \in DOMAIN v |-> IF k = Len(w) + 1 THEN m + 1 ELSE e[k]]
    <3>1. rest[m + 1] = v
      BY <2>2, <2>4
    <3>2. /\ v \in Seq(T) /\ Len(w) \in Nat /\ DOMAIN w = 1 .. Len(w)
          /\ DOMAIN v = 1 .. Len(w) + 1
          /\ \A k \in 1 .. Len(w) : v[k] = w[k]
          /\ v[Len(w) + 1] = s[m + 1]
      BY <2>1, <2>2
    <3> HIDE DEF v
    <3>3. /\ \A k \in 1 .. Len(w) : f[k] = e[k] /\ e[k] \in 1 .. m
          /\ f[Len(w) + 1] = m + 1
      <4>1. \A k \in 1 .. Len(w) : k \in DOMAIN v /\ k # Len(w) + 1
        BY <3>2
      <4>2. Len(w) + 1 \in DOMAIN v
        BY <3>2
      <4>3. \A k \in 1 .. Len(w) : e[k] \in 1 .. m
        BY <2>1, <3>2 DEF Places
      <4> QED
        BY <4>1, <4>2, <4>3
    <3>4. \A k \in DOMAIN v : k \in 1 .. Len(w) \/ k = Len(w) + 1
      BY <3>2
    <3>5. f \in [DOMAIN v -> 1 .. m + 1]
      <4>1. f = [k \in DOMAIN v |-> f[k]]
        OBVIOUS
      <4> HIDE DEF f
      <4>2. \A k \in DOMAIN v : f[k] \in 1 .. m + 1
        BY <2>2, <3>3, <3>4
      <4> QED
        BY <4>1, <4>2
    <3> HIDE DEF f
    <3>6. \A k \in DOMAIN v : v[k] = s[f[k]] /\ s[f[k]].id \notin ids
      BY <2>1, <2>4, <3>2, <3>3, <3>4 DEF Places
    <3>7. \A j, k \in DOMAIN v : j < k => f[j] < f[k]
      <4>1. ASSUME NEW j \in DOMAIN v, NEW k \in DOMAIN v, j < k
            PROVE  f[j] < f[k]
        <5>1. j \in 1 .. Len(w)
          BY <3>2, <4>1
        <5>2. CASE k \in 1 .. Len(w)
          BY <2>1, <3>2, <3>3, <4>1, <5>1, <5>2 DEF Places
        <5>3. CASE k = Len(w) + 1
          BY <2>2, <3>3, <5>1, <5>3
        <5> QED
          BY <3>4, <5>2, <5>3
      <4> QED
        BY <4>1
    <3>8. \A i \in 1 .. m + 1 : s[i].id \notin ids => \E k \in DOMAIN v : f[k] = i
      <4>1. ASSUME NEW i \in 1 .. m + 1, s[i].id \notin ids
            PROVE  \E k \in DOMAIN v : f[k] = i
        <5>1. CASE i = m + 1
          BY <3>2, <3>3, <5>1
        <5>2. CASE i \in 1 .. m
          <6>1. PICK k \in DOMAIN w : e[k] = i
            BY <2>1, <4>1, <5>2 DEF Places
          <6> QED
            BY <3>2, <3>3, <6>1
        <5> QED
          BY <2>2, <5>1, <5>2
      <4> QED
        BY <4>1
    <3>9. Places(f, v, m + 1, s, ids)
      BY <3>5, <3>6, <3>7, <3>8 DEF Places
    <3> QED
      BY <2>2, <3>1, <3>2, <3>9
  <2> QED
    BY <2>3, <2>4
<1> HIDE DEF Good
<1>6. Len(s) \in Good
  BY <1>3, <1>4, <1>5, UpTo
<1> QED
  BY <1>2, <1>6 DEF Good

-----------------------------------------------------------------------------
(* The inductive invariant.                                                *)

Item == [id : Nat, seq : Nat, boot : Nat, previous : Nat]
Commands == {"clock_in", "break_start", "break_end", "clock_out"}
Ids(q) == {q[i].id : i \in DOMAIN q}

\* item may follow last in a batch.
Follows(last, item) ==
  IF item.boot = last.boot THEN item.previous = last.id /\ last.seq < item.seq
  ELSE item.previous = 0

Chain(q) == \A i \in 2 .. Len(q) : Follows(q[i - 1], q[i])

\* An item was given its number by this start of the simulator or an earlier one.
Numbered(item) == item.boot <= boot /\ (item.boot = boot => item.seq <= sequence)

\* What is being signed is new, and no two of it have the same number.
Signs(c) ==
  /\ c.item \in Item /\ Numbered(c.item)
  /\ c.item.id \in 1 .. made /\ c.item.id \notin stored
  /\ \A d \in calls : d.type = "sign" /\ d.item.id = c.item.id => d = c

\* What is being sent was stored, and what is left of it comes first in the
\* queue. What the server says it took it has decided, and that is the whole
\* batch as long as nothing was turned down.
Sends(c) ==
  /\ Ids(c.batch) \subseteq stored
  /\ \A i, j \in DOMAIN queue :
       i < j /\ queue[j].id \in Ids(c.batch) => queue[i].id \in Ids(c.batch)
  /\ c.at = "taken" => c.final \subseteq decided /\ (~turnedDown => c.final = Ids(c.batch))

CallOK(c) ==
  /\ c.type \in {"sign", "action"} => c.command \in Commands
  /\ c.type = "sign" => Signs(c)
  /\ c.type = "sync" => Sends(c)

\* The queue is what was stored and not yet decided, numbered.
QueueOK ==
  /\ queue \in Seq(Item)
  /\ \A i \in DOMAIN queue : queue[i].id \in stored /\ Numbered(queue[i])
  /\ \A id \in stored : id \in decided \/ id \in Ids(queue)

\* As long as nothing went wrong, the queue is a batch the server takes, and
\* so it will be with what is being signed.
ChainOK ==
  ~turnedDown /\ ~entangled =>
    /\ Chain(queue)
    /\ queue # <<>> => \A c \in calls : c.type = "sign" => Follows(queue[Len(queue)], c.item)

Counters == made \in Nat /\ boot \in Nat \ {0} /\ sequence \in Nat /\ stored \subseteq 1 .. made
Faces ==
  /\ resolved \in Kinds \union {"none"} /\ cache \in Kinds \union {"none"}
  /\ picker \in {"clock_out", "break_end"}

SimulatorInv == Counters /\ Faces /\ QueueOK /\ ChainOK /\ \A c \in calls : CallOK(c)

LEMMA SimulatorInvInit == SimulatorInit => SimulatorInv
<1> SUFFICES ASSUME SimulatorInit PROVE SimulatorInv
  OBVIOUS
<1>1. /\ queue = <<>> /\ calls = {} /\ stored = {} /\ made = 0 /\ boot = 1 /\ sequence = 0
      /\ resolved = "none" /\ cache = "none" /\ picker = "clock_out"
  BY DEF SimulatorInit
<1>2. QueueOK /\ ChainOK
  BY <1>1 DEF QueueOK, ChainOK, Chain
<1>3. Counters /\ Faces
  BY <1>1 DEF Counters, Faces
<1> QED
  BY <1>1, <1>2, <1>3 DEF SimulatorInv

-----------------------------------------------------------------------------
(* Steps that leave the queue alone.                                       *)

\* A call that carries nothing that was stored or is being signed.
Plain(c) ==
  /\ c.type \notin {"sign", "sync"}
  /\ c.type = "action" => c.command \in Commands

LEMMA QuietStep ==
  ASSUME SimulatorInv, Faces', UNCHANGED <<boot, queue, stored, decided, turnedDown, entangled>>,
         \A c \in calls' : c \in calls \/ Plain(c),
         made' \in Nat, made <= made', sequence' \in Nat, sequence <= sequence'
  PROVE  SimulatorInv'
<1>1. \A c \in calls' : c.type \in {"sign", "sync"} => c \in calls
  BY DEF Plain
<1>2. Counters'
  BY DEF SimulatorInv, Counters
<1>3. \A item : item.seq \in Nat /\ Numbered(item) => Numbered(item)'
  BY DEF SimulatorInv, Counters, Numbered
<1>4. \A item \in Item : item.seq \in Nat
  BY DEF Item
<1>5. QueueOK'
  <2>1. \A i \in DOMAIN queue : queue[i] \in Item /\ Numbered(queue[i])
    BY DEF SimulatorInv, QueueOK
  <2>2. \A i \in DOMAIN queue : Numbered(queue[i])'
    BY <1>3, <1>4, <2>1
  <2> QED
    BY <2>2 DEF SimulatorInv, QueueOK, Ids
<1>6. ChainOK'
  BY <1>1 DEF SimulatorInv, ChainOK, Chain, Follows
<1>7. ASSUME NEW c \in calls'
      PROVE  CallOK(c)'
  <2>1. CASE Plain(c)
    BY <2>1 DEF Plain, CallOK
  <2>2. CASE c \in calls
    <3>1. CallOK(c)
      BY <2>2 DEF SimulatorInv
    <3>2. c.type = "sign" => Signs(c)'
      <4>1. SUFFICES ASSUME c.type = "sign" PROVE Signs(c)'
        OBVIOUS
      <4>2. Signs(c)
        BY <3>1, <4>1 DEF CallOK
      <4>3. Numbered(c.item)'
        BY <1>3, <1>4, <4>2 DEF Signs
      <4>4. c.item.id \in 1 .. made'
        BY <4>2 DEF Signs, SimulatorInv, Counters
      <4> QED
        BY <1>1, <4>2, <4>3, <4>4 DEF Signs
    <3>3. c.type = "sync" => Sends(c)'
      BY <3>1 DEF CallOK, Sends, Ids
    <3> QED
      BY <3>1, <3>2, <3>3 DEF CallOK
  <2> QED
    BY <2>1, <2>2
<1> QED
  BY <1>2, <1>5, <1>6, <1>7 DEF SimulatorInv

\* The actions that QuietStep covers, but for execute.
LEMMA QuietActions ==
  ASSUME SimulatorInv,
         \/ Connect \/ Scan \/ declineClose \/ ActionTimer \/ MessageTimer \/ toggleOnline
         \/ advance
         \/ \E a \in {"nothing", "bootstrap", "all"}, k \in Kinds : ConnectEnds(a, k)
         \/ \E k \in Kinds \union {"none"} : ScanEnds(k)
         \/ \E c \in calls : ActionEnds(c) \/ CallFails(c)
  PROVE  SimulatorInv'
<1>1. /\ UNCHANGED <<boot, queue, stored, decided, turnedDown, entangled, made, sequence>>
      /\ \A c \in calls' : c \in calls \/ Plain(c)
  BY DEF Connect, Scan, declineClose, ActionTimer, MessageTimer, returnToIdle, toggleOnline,
         advance, ConnectEnds, ScanEnds, CallFails, ActionEnds, Begins, Ended, Connecting,
         Scanning, Plain, memory, bounds, ghosts, work
<1>2. Faces'
  <2>1. Faces
    BY DEF SimulatorInv
  <2>2. CASE Connect \/ declineClose \/ ActionTimer \/ MessageTimer \/ toggleOnline
             \/ \E c \in calls : CallFails(c)
    BY <2>1, <2>2 DEF Faces, Connect, declineClose, ActionTimer, MessageTimer, returnToIdle,
                      toggleOnline, CallFails, person, memory
  <2>3. \A k \in Kinds \union {"none"} : refreshedLocalState(k) \subseteq Kinds \union {"none"}
    BY DEF refreshedLocalState, Kinds
  <2>4. CASE Scan \/ advance
    BY <2>1, <2>3, <2>4 DEF Faces, Scan, advance, ShowActions, person, memory
  <2>5. ASSUME NEW a \in {"nothing", "bootstrap", "all"}, NEW k \in Kinds, ConnectEnds(a, k)
        PROVE  Faces'
    BY <2>1, <2>5 DEF Faces, ConnectEnds, person
  <2>6. ASSUME NEW k \in Kinds \union {"none"}, ScanEnds(k)
        PROVE  Faces'
    BY <2>1, <2>6 DEF Faces, ScanEnds, ShowActions, person, memory
  <2>7. ASSUME NEW c \in calls, ActionEnds(c)
        PROVE  Faces'
    <3>1. c.command \in Commands
      BY <2>7 DEF ActionEnds, SimulatorInv, CallOK
    <3>2. advanceLocalState(c.command) \in Kinds /\ {"working", "long"} \subseteq Kinds
      BY <3>1 DEF advanceLocalState, Commands, Kinds
    <3>3. \E state \in Kinds : Takes(c, state)
      BY <2>7, <3>2 DEF ActionEnds
    <3> QED
      BY <2>1, <2>7, <3>3 DEF Faces, ActionEnds, Takes, memory
  <2> QED
    BY <2>2, <2>4, <2>5, <2>6, <2>7
<1>3. made' \in Nat /\ made <= made' /\ sequence' \in Nat /\ sequence <= sequence'
  BY <1>1 DEF SimulatorInv, Counters
<1> QED
  BY <1>1, <1>2, <1>3, QuietStep

-----------------------------------------------------------------------------
(* Steps that touch the queue, or what will be in it.                      *)

\* An action is signed when there is no room for doubt about what it follows.
LEMMA ExecuteKeepsQueue ==
  ASSUME SimulatorInv, NEW command \in Commands, NEW picked, execute(command, picked)
  PROVE  SimulatorInv'
<1> PICK last : last = IF queue = <<>> THEN [boot |-> 0, id |-> 0] ELSE Last(queue)
  OBVIOUS
<1> PICK item : item = [id |-> made + 1, seq |-> sequence + 1, boot |-> boot,
                        previous |-> IF last.boot = boot THEN last.id ELSE 0]
  OBVIOUS
<1> DEFINE sign == [type |-> "sign", item |-> item, command |-> command, picked |-> picked]
           send == [type |-> "action", number |-> made + 1, command |-> command,
                    picked |-> picked]
<1>1. /\ made' = made + 1 /\ sequence' = sequence + 1
      /\ UNCHANGED <<resolved, boot, queue, cache, stored, decided, turnedDown, entangled>>
      /\ UNCHANGED picker
      /\ calls' = calls \/ calls' = calls \union {send} \/ calls' = calls \union {sign}
  BY DEF execute, Begins, work, ghosts
<1>2. Faces' /\ Faces
  BY <1>1 DEF SimulatorInv, Faces
<1>3. /\ made \in Nat /\ sequence \in Nat /\ boot \in Nat \ {0} /\ stored \subseteq 1 .. made
      /\ made' \in Nat /\ made <= made' /\ sequence' \in Nat /\ sequence <= sequence'
  BY <1>1 DEF SimulatorInv, Counters
<1>4. CASE calls' = calls \/ calls' = calls \union {send}
  <2>1. Plain(send)
    BY DEF Plain
  <2> HIDE DEF send, sign
  <2> QED
    BY <1>1, <1>2, <1>3, <1>4, <2>1, QuietStep
<1>5. CASE calls' = calls \union {sign}
  <2>1. /\ queue \in Seq(Item) /\ Len(queue) \in Nat /\ DOMAIN queue = 1 .. Len(queue)
        /\ \A i \in DOMAIN queue : queue[i] \in Item /\ queue[i].id \in stored
                                   /\ Numbered(queue[i])
    BY DEF SimulatorInv, QueueOK
  <2>2. queue # <<>> => /\ Len(queue) \in DOMAIN queue
                        /\ last = queue[Len(queue)]
    BY <2>1 DEF Last
  <2>3. last.id \in Nat /\ last.boot \in Nat
    BY <2>1, <2>2 DEF Item
  <2>4. /\ item \in Item /\ item.boot = boot /\ item.seq = sequence + 1 /\ item.id = made + 1
        /\ item.previous = IF last.boot = boot THEN last.id ELSE 0
    BY <1>3, <2>3 DEF Item
  <2>5. sign.type = "sign" /\ sign.command = command /\ sign.item = item
    OBVIOUS
  <2> HIDE DEF send, sign
  <2>6. queue # <<>> => Follows(queue[Len(queue)], item)
    <3>1. SUFFICES ASSUME queue # <<>> PROVE Follows(queue[Len(queue)], item)
      OBVIOUS
    <3>2. last = queue[Len(queue)] /\ last \in Item /\ Numbered(last)
      BY <2>1, <2>2, <3>1
    <3>3. last.boot = boot => last.seq \in Nat /\ last.seq < sequence + 1
      BY <1>3, <3>2 DEF Numbered, Item
    <3> QED
      BY <2>4, <3>2, <3>3 DEF Follows
  <2>7. \A x \in Item : Numbered(x) => Numbered(x)'
    BY <1>1, <1>3 DEF Numbered, Item
  <2>8. QueueOK'
    <3>1. \A i \in DOMAIN queue : Numbered(queue[i])'
      BY <1>1, <1>3, <2>1 DEF Numbered, Item
    <3> QED
      BY <1>1, <3>1 DEF SimulatorInv, QueueOK, Ids
  <2>9. ChainOK'
    BY <1>1, <1>5, <2>5, <2>6 DEF SimulatorInv, ChainOK, Chain, Follows
  <2>10. \A c \in calls : c.type = "sign" => c.item.id # item.id
    BY <1>3, <2>4 DEF SimulatorInv, CallOK, Signs
  <2>11. ASSUME NEW c \in calls
         PROVE  CallOK(c)'
    <3>1. CallOK(c)
      BY DEF SimulatorInv
    <3>2. c.type = "sign" => Signs(c)'
      <4>1. SUFFICES ASSUME c.type = "sign" PROVE Signs(c)'
        OBVIOUS
      <4>2. Signs(c)
        BY <3>1, <4>1 DEF CallOK
      <4>3. c.item.id \in 1 .. made' /\ Numbered(c.item)'
        BY <1>3, <2>7, <4>2 DEF Signs
      <4>4. \A d \in calls' : d.type = "sign" /\ d.item.id = c.item.id => d = c
        BY <1>5, <2>5, <2>10, <4>1, <4>2 DEF Signs
      <4> QED
        BY <1>1, <4>2, <4>3, <4>4 DEF Signs
    <3>3. c.type = "sync" => Sends(c)'
      BY <1>1, <3>1 DEF CallOK, Sends, Ids
    <3> QED
      BY <3>1, <3>2, <3>3 DEF CallOK
  <2>12. CallOK(sign)'
    <3>1. Numbered(item)'
      BY <1>1, <2>4, <1>3 DEF Numbered
    <3>2. item.id \in 1 .. made' /\ item.id \notin stored
      BY <1>1, <1>3, <2>4
    <3>3. \A d \in calls' : d.type = "sign" /\ d.item.id = item.id => d = sign
      BY <1>5, <2>10
    <3>4. Signs(sign)'
      BY <1>1, <2>4, <2>5, <3>1, <3>2, <3>3 DEF Signs
    <3> QED
      BY <2>5, <3>4 DEF CallOK
  <2>13. Counters'
    BY <1>1, <1>3 DEF Counters
  <2> QED
    BY <1>2, <1>5, <2>8, <2>9, <2>11, <2>12, <2>13 DEF SimulatorInv
<1> QED
  BY <1>1, <1>4, <1>5

LEMMA ButtonsKeepQueue ==
  ASSUME SimulatorInv,
         confirmSelectedTime \/ confirmClose \/ \E b \in Buttons : press(b)
  PROVE  SimulatorInv'
<1>1. CASE confirmSelectedTime
  <2>1. picker \in Commands
    BY DEF SimulatorInv, Faces, Commands
  <2> QED
    BY <1>1, <2>1, ExecuteKeepsQueue DEF confirmSelectedTime
<1>2. CASE confirmClose
  BY <1>2, ExecuteKeepsQueue DEF confirmClose, Commands
<1>3. ASSUME NEW b \in Buttons, press(b)
      PROVE  SimulatorInv'
  <2>1. PICK c \in pressAction(resolved, b) :
          IF c # "pick" THEN execute(c, FALSE)
          ELSE openTimePicker(IF resolved = "on_break" THEN "break_end" ELSE "clock_out")
    BY <1>3 DEF press
  <2>2. CASE c # "pick"
    <3>1. c \in Commands
      BY <2>1, <2>2 DEF pressAction, Commands
    <3> QED
      BY <2>1, <2>2, <3>1, ExecuteKeepsQueue
  <2>3. CASE c = "pick"
    <3>1. /\ UNCHANGED <<boot, queue, stored, decided, turnedDown, entangled, made, sequence>>
          /\ UNCHANGED <<resolved, cache, calls>>
          /\ picker' \in {"clock_out", "break_end"}
      BY <2>1, <2>3 DEF openTimePicker, person, memory, bounds, ghosts, work
    <3>2. Faces'
      BY <3>1 DEF SimulatorInv, Faces
    <3>3. made' \in Nat /\ made <= made' /\ sequence' \in Nat /\ sequence <= sequence'
      BY <3>1 DEF SimulatorInv, Counters
    <3> QED
      BY <3>1, <3>2, <3>3, QuietStep
  <2> QED
    BY <2>2, <2>3
<1> QED
  BY <1>1, <1>2, <1>3

\* What is stored goes to the end of the queue; it was signed after the last
\* one stored, unless it was signed beside another.
LEMMA StoreKeepsQueue ==
  ASSUME SimulatorInv, NEW call \in calls, StoreAction(call)
  PROVE  SimulatorInv'
<1> DEFINE item == call.item
           n    == Len(queue)
<1>1. /\ call.type = "sign" /\ calls' = calls \ {call}
      /\ queue' = Append(queue, item) /\ stored' = stored \union {item.id}
      /\ entangled' = (entangled \/ \E c \in calls \ {call} : c.type = "sign")
      /\ UNCHANGED <<boot, sequence, decided, turnedDown, made>>
  BY DEF StoreAction, Ended, bounds
<1>2. CallOK(call) /\ Signs(call) /\ call.command \in Commands
  BY <1>1 DEF SimulatorInv, CallOK
<1>3. /\ queue \in Seq(Item) /\ n \in Nat /\ DOMAIN queue = 1 .. n
      /\ \A i \in DOMAIN queue : queue[i] \in Item /\ queue[i].id \in stored
                                 /\ Numbered(queue[i])
  BY DEF SimulatorInv, QueueOK
<1>4. /\ queue' \in Seq(Item) /\ Len(queue') = n + 1 /\ DOMAIN queue' = 1 .. n + 1
      /\ \A i \in 1 .. n : queue'[i] = queue[i]
      /\ queue'[n + 1] = item
  <2>1. item \in Item
    BY <1>2 DEF Signs
  <2> HIDE DEF item
  <2> QED
    BY <1>1, <1>3, <2>1
<1>5. Faces'
  <2>1. advanceLocalState(call.command) \in Kinds
    BY <1>2 DEF advanceLocalState, Commands, Kinds
  <2>2. /\ cache' \in {"none", advanceLocalState(call.command)} /\ picker' = picker
        /\ resolved' \in {resolved, advanceLocalState(call.command)}
    BY DEF StoreAction, Takes
  <2>3. Faces
    BY DEF SimulatorInv
  <2> QED
    BY <2>1, <2>2, <2>3 DEF Faces
<1>6. Counters'
  BY <1>1, <1>2 DEF SimulatorInv, Counters, Signs
<1>7. Ids(queue') = Ids(queue) \union {item.id}
  <2>1. \A i \in DOMAIN queue' : i \in 1 .. n \/ i = n + 1
    BY <1>3, <1>4
  <2>2. 1 .. n \subseteq DOMAIN queue' /\ n + 1 \in DOMAIN queue'
    BY <1>3, <1>4
  <2> HIDE DEF item, n
  <2>3. Ids(queue') \subseteq Ids(queue) \union {item.id}
    BY <1>3, <1>4, <2>1 DEF Ids
  <2>4. Ids(queue) \union {item.id} \subseteq Ids(queue')
    BY <1>3, <1>4, <2>2 DEF Ids
  <2> QED
    BY <2>3, <2>4
<1>8. QueueOK'
  <2>1. Numbered(item)
    BY <1>2 DEF Signs
  <2>2. ASSUME NEW i \in DOMAIN queue'
        PROVE  queue'[i].id \in stored' /\ Numbered(queue'[i])
    <3>1. CASE i \in 1 .. n
      BY <1>1, <1>3, <1>4, <3>1
    <3>2. CASE i = n + 1
      BY <1>1, <1>4, <2>1, <3>2
    <3> QED
      BY <1>3, <1>4, <3>1, <3>2
  <2>3. \A id \in stored' : id \in decided' \/ id \in Ids(queue')
    <3>1. \A id \in stored : id \in decided \/ id \in Ids(queue)
      BY DEF SimulatorInv, QueueOK
    <3> HIDE DEF item, n
    <3> QED
      BY <1>1, <1>7, <3>1
  <2>4. Ids(queue') = Ids(queue)'
    BY DEF Ids
  <2>5. \A i \in DOMAIN queue' :
          /\ queue'[i].id \in stored' /\ queue'[i].boot <= boot'
          /\ queue'[i].boot = boot' => queue'[i].seq <= sequence'
    BY <1>1, <2>2 DEF Numbered
  <2> QED
    BY <1>4, <2>3, <2>4, <2>5 DEF QueueOK, Numbered
<1>9. ChainOK'
  <2>1. SUFFICES ASSUME ~turnedDown', ~entangled'
                 PROVE  /\ Chain(queue')
                        /\ \A c \in calls' : c.type # "sign"
    BY DEF ChainOK, Chain, Follows
  <2>2. \A c \in calls' : c.type # "sign"
    BY <1>1, <2>1
  <2>3. ~turnedDown /\ ~entangled
    BY <1>1, <2>1
  <2>4. Chain(queue) /\ (queue # <<>> => Follows(queue[n], item))
    BY <1>1, <2>3 DEF SimulatorInv, ChainOK
  <2>5. ASSUME NEW i \in 2 .. n + 1
        PROVE  Follows(queue'[i - 1], queue'[i])
    <3>1. CASE i \in 2 .. n
      <4>1. i \in 1 .. n /\ i - 1 \in 1 .. n
        BY <1>3, <3>1
      <4> QED
        BY <1>4, <2>4, <3>1, <4>1 DEF Chain
    <3>2. CASE i = n + 1
      <4>1. i - 1 = n /\ n \in 1 .. n
        BY <1>3, <3>2
      <4>2. queue # <<>>
        BY <1>3, <4>1
      <4>3. queue'[i - 1] = queue[n] /\ queue'[i] = item
        BY <1>4, <3>2, <4>1
      <4> HIDE DEF n, item
      <4> QED
        BY <2>4, <4>2, <4>3
    <3> QED
      BY <1>3, <3>1, <3>2
  <2> QED
    BY <1>4, <2>2, <2>5 DEF Chain
<1>10. ASSUME NEW c \in calls'
       PROVE  CallOK(c)'
  <2>1. c \in calls /\ c # call /\ CallOK(c)
    BY <1>1 DEF SimulatorInv
  <2>2. c.type = "sign" => Signs(c)'
    <3>1. SUFFICES ASSUME c.type = "sign" PROVE Signs(c)'
      OBVIOUS
    <3>2. Signs(c)
      BY <2>1, <3>1 DEF CallOK
    <3>3. c.item.id # item.id
      BY <1>1, <2>1, <3>1, <1>2 DEF Signs
    <3> HIDE DEF item
    <3> QED
      BY <1>1, <3>2, <3>3 DEF Signs, Numbered
  <2>3. c.type = "sync" => Sends(c)'
    <3>1. SUFFICES ASSUME c.type = "sync" PROVE Sends(c)'
      OBVIOUS
    <3>2. Sends(c)
      BY <2>1, <3>1 DEF CallOK
    <3>3. item.id \notin Ids(c.batch)
      BY <1>2, <3>2 DEF Signs, Sends
    <3>4. ASSUME NEW i \in DOMAIN queue', NEW j \in DOMAIN queue', i < j,
                 queue'[j].id \in Ids(c.batch)
          PROVE  queue'[i].id \in Ids(c.batch)
      <4>1. j # n + 1
        BY <1>4, <3>3, <3>4
      <4>2. i \in 1 .. n /\ j \in 1 .. n
        BY <1>3, <1>4, <3>4, <4>1
      <4> QED
        BY <1>3, <1>4, <3>2, <3>4, <4>2 DEF Sends
    <3>5. Ids(c.batch) \subseteq stored'
      BY <1>1, <3>2 DEF Sends
    <3>6. c.at = "taken" => c.final \subseteq decided' /\ (~turnedDown' => c.final = Ids(c.batch))
      BY <1>1, <3>2 DEF Sends
    <3> QED
      BY <3>4, <3>5, <3>6 DEF Sends, Ids
  <2> QED
    BY <2>1, <2>2, <2>3 DEF CallOK
<1> QED
  BY <1>5, <1>6, <1>8, <1>9, <1>10 DEF SimulatorInv

-----------------------------------------------------------------------------
(* Delivery, and the reboot.                                               *)

\* What the calls and the queue are when one sync call is replaced by another
\* of the same batch, or begins with the queue as its batch.
LEMMA SendingStep ==
  ASSUME SimulatorInv,
         UNCHANGED <<boot, sequence, queue, made, stored, entangled, resolved, picker, cache>>,
         decided \subseteq decided', turnedDown => turnedDown',
         NEW new, new.type = "sync",
         \A c \in calls' : c \in calls \/ c = new,
         \A c \in calls' : c # new /\ c.type = "sync" /\ c.at = "taken" /\ ~turnedDown' =>
           ~turnedDown,
         Ids(new.batch) \subseteq stored,
         \A i, j \in DOMAIN queue :
           i < j /\ queue[j].id \in Ids(new.batch) => queue[i].id \in Ids(new.batch),
         new.at = "taken" => /\ new.final \subseteq decided'
                             /\ ~turnedDown' => new.final = Ids(new.batch)
  PROVE  SimulatorInv'
<1>1. \A c \in calls' : c.type = "sign" => c \in calls
  OBVIOUS
<1>2. Counters' /\ Faces'
  BY DEF SimulatorInv, Counters, Faces
<1>3. QueueOK'
  BY DEF SimulatorInv, QueueOK, Numbered, Ids
<1>4. ChainOK'
  BY <1>1 DEF SimulatorInv, ChainOK, Chain, Follows
<1>5. ASSUME NEW c \in calls'
      PROVE  CallOK(c)'
  <2>1. CASE c = new
    <3>1. Sends(new)'
      BY DEF Sends, Ids
    <3> QED
      BY <2>1, <3>1 DEF CallOK
  <2>2. CASE c # new
    <3>1. c \in calls /\ CallOK(c)
      BY <2>2 DEF SimulatorInv
    <3>2. c.type = "sign" => Signs(c)'
      BY <1>1, <3>1 DEF CallOK, Signs, Numbered
    <3>3. c.type = "sync" => Sends(c)'
      <4>1. SUFFICES ASSUME c.type = "sync" PROVE Sends(c)'
        OBVIOUS
      <4>2. Sends(c)
        BY <3>1, <4>1 DEF CallOK
      <4> QED
        BY <4>1, <4>2 DEF Sends, Ids
    <3> QED
      BY <3>1, <3>2, <3>3 DEF CallOK
  <2> QED
    BY <2>1, <2>2
<1> QED
  BY <1>2, <1>3, <1>4, <1>5 DEF SimulatorInv

LEMMA SynchronizeKeepsQueue ==
  ASSUME SimulatorInv, Synchronize
  PROVE  SimulatorInv'
<1> PICK new : new = [type |-> "sync", number |-> syncs + 1, batch |-> queue, at |-> "sent"]
  OBVIOUS
<1>1. /\ calls' = calls \union {new}
      /\ UNCHANGED <<boot, sequence, queue, made, stored, entangled, resolved, picker, cache,
                     decided, turnedDown>>
  BY DEF Synchronize, Begins, person, memory, ghosts
<1>2. new.type = "sync" /\ new.at # "taken" /\ new.batch = queue
  OBVIOUS
<1>3. Ids(queue) \subseteq stored
  BY DEF SimulatorInv, QueueOK, Ids
<1>4. \A i \in DOMAIN queue : queue[i].id \in Ids(queue)
  BY DEF Ids
<1> QED
  BY <1>1, <1>2, <1>3, <1>4, SendingStep

\* The server decides what it does not miss.
LEMMA TakingKeepsQueue ==
  ASSUME SimulatorInv, NEW call \in calls, NEW missed, ServerTakes(call, missed)
  PROVE  SimulatorInv'
<1> PICK new : new = [type |-> "sync", number |-> call.number, at |-> "taken",
                      batch |-> call.batch, final |-> Ids(call.batch) \ missed]
  OBVIOUS
<1>1. /\ call.type = "sync" /\ calls' = (calls \ {call}) \union {new}
      /\ decided' = decided \union (Ids(call.batch) \ missed)
      /\ turnedDown' = (turnedDown \/ missed # {})
      /\ UNCHANGED <<boot, sequence, queue, made, stored, entangled, resolved, picker, cache>>
  BY DEF ServerTakes, Ids, person, memory, bounds
<1>2. /\ new.type = "sync" /\ new.batch = call.batch
      /\ new.final = Ids(call.batch) \ missed
  OBVIOUS
<1>3. Sends(call)
  BY <1>1 DEF SimulatorInv, CallOK
<1>4. /\ new.final \subseteq decided'
      /\ ~turnedDown' => new.final = Ids(new.batch)
  BY <1>1, <1>2
<1>5. /\ Ids(new.batch) \subseteq stored
      /\ \A i, j \in DOMAIN queue :
           i < j /\ queue[j].id \in Ids(new.batch) => queue[i].id \in Ids(new.batch)
  BY <1>2, <1>3 DEF Sends
<1> QED
  BY <1>1, <1>2, <1>4, <1>5, SendingStep

\* The answer takes out of the queue what the server decided: as long as
\* nothing was turned down these come first, and the rest still is a chain.
LEMMA AnswerKeepsQueue ==
  ASSUME SimulatorInv, NEW call \in calls, NEW state \in Kinds \union {"none"},
         SyncEnds(call, state)
  PROVE  SimulatorInv'
<1> DEFINE final == call.final
           n     == Len(queue)
           m     == Len(queue')
<1>1. /\ call.type = "sync" /\ call.at = "taken" /\ calls' = calls \ {call}
      /\ queue' = Without(queue, final)
      /\ cache' = state
      /\ UNCHANGED <<resolved, picker, boot, sequence, made, stored, decided, turnedDown,
                     entangled>>
  BY DEF SyncEnds, Ended, person, bounds, ghosts
<1>2. Sends(call)
  BY <1>1 DEF SimulatorInv, CallOK
<1>3. /\ queue \in Seq(Item) /\ n \in Nat /\ DOMAIN queue = 1 .. n
      /\ \A i \in DOMAIN queue : queue[i] \in Item /\ queue[i].id \in stored
                                 /\ Numbered(queue[i])
      /\ \A id \in stored : id \in decided \/ id \in Ids(queue)
  BY DEF SimulatorInv, QueueOK
<1>4. queue' \in Seq(Item) /\ m \in Nat /\ DOMAIN queue' = 1 .. m
  <2>1. queue' \in Seq(Item)
    BY <1>1, <1>3, WithoutKeepsOrder
  <2> QED
    BY <2>1
<1>5. PICK e : Places(e, queue', n, queue, final)
  BY <1>1, <1>3, WithoutKeepsOrder
<1>6. /\ \A k \in 1 .. m : /\ e[k] \in 1 .. n /\ queue'[k] = queue[e[k]]
                           /\ queue[e[k]].id \notin final
      /\ \A j, k \in 1 .. m : j < k => e[j] < e[k]
      /\ \A i \in 1 .. n : queue[i].id \notin final => \E k \in 1 .. m : e[k] = i
  BY <1>4, <1>5 DEF Places
<1> HIDE DEF final, n, m
<1>7. Counters' /\ Faces'
  BY <1>1 DEF SimulatorInv, Counters, Faces
<1>8. QueueOK'
  <2>1. \A k \in DOMAIN queue' : queue'[k].id \in stored /\ Numbered(queue'[k])
    BY <1>3, <1>4, <1>6
  <2>2. ASSUME NEW id \in stored, id \notin decided
        PROVE  \E k \in DOMAIN queue' : queue'[k].id = id
    <3>1. PICK i \in 1 .. n : queue[i].id = id
      BY <1>3, <2>2 DEF Ids
    <3>2. id \notin final
      BY <1>1, <1>2, <2>2 DEF Sends, final
    <3>3. PICK k \in 1 .. m : e[k] = i
      BY <1>6, <3>1, <3>2
    <3> QED
      BY <1>4, <1>6, <3>1, <3>3
  <2>3. \A id \in stored : id \in decided \/ id \in {queue'[k].id : k \in DOMAIN queue'}
    BY <2>2
  <2> QED
    BY <1>1, <1>4, <2>1, <2>3 DEF QueueOK, Numbered, Ids
<1>9. ChainOK'
  <2>1. SUFFICES ASSUME ~turnedDown', ~entangled'
                 PROVE  /\ Chain(queue')
                        /\ queue' # <<>> =>
                             \A c \in calls' : c.type = "sign" => Follows(queue'[m], c.item)
    BY DEF ChainOK, Chain, Follows, m
  <2>2. /\ Chain(queue)
        /\ queue # <<>> => \A c \in calls : c.type = "sign" => Follows(queue[n], c.item)
    BY <1>1, <2>1 DEF SimulatorInv, ChainOK, n
  <2>3. final = Ids(call.batch)
    BY <1>1, <1>2, <2>1 DEF Sends, final
  <2>4. \A i, j \in 1 .. n : i < j /\ queue[i].id \notin final => queue[j].id \notin final
    BY <1>2, <1>3, <2>3 DEF Sends
  <2>5. ASSUME NEW k \in 2 .. m
        PROVE  Follows(queue'[k - 1], queue'[k])
    <3>1. k - 1 \in 1 .. m /\ k \in 1 .. m /\ k - 1 < k
      BY <1>4
    <3>2. /\ e[k - 1] \in 1 .. n /\ e[k] \in 1 .. n /\ e[k - 1] < e[k]
          /\ queue'[k - 1] = queue[e[k - 1]] /\ queue'[k] = queue[e[k]]
          /\ queue[e[k - 1]].id \notin final
      BY <1>6, <3>1
    <3>3. e[k] = e[k - 1] + 1
      <4>1. SUFFICES ASSUME e[k] # e[k - 1] + 1 PROVE FALSE
        OBVIOUS
      <4>2. e[k - 1] + 1 \in 1 .. n /\ e[k - 1] < e[k - 1] + 1 /\ e[k - 1] + 1 < e[k]
        BY <1>3, <3>2, <4>1
      <4>3. queue[e[k - 1] + 1].id \notin final
        BY <2>4, <3>2, <4>2
      <4>4. PICK l \in 1 .. m : e[l] = e[k - 1] + 1
        BY <1>6, <4>2, <4>3
      <4>5. ~ (l <= k - 1)
        <5>1. CASE l = k - 1
          BY <3>2, <4>2, <4>4, <5>1
        <5>2. CASE l < k - 1
          <6>1. e[l] < e[k - 1]
            BY <1>6, <3>1, <4>4, <5>2
          <6> QED
            BY <3>2, <4>4, <6>1
        <5> QED
          BY <1>4, <3>1, <5>1, <5>2
      <4>6. ~ (k <= l)
        <5>1. CASE l = k
          BY <3>2, <4>2, <4>4, <5>1
        <5>2. CASE k < l
          <6>1. e[k] < e[l]
            BY <1>6, <3>1, <4>4, <5>2
          <6> QED
            BY <3>2, <4>2, <4>4, <6>1
        <5> QED
          BY <1>4, <3>1, <5>1, <5>2
      <4> QED
        BY <1>4, <3>1, <4>5, <4>6
    <3>4. e[k] \in 2 .. n /\ e[k - 1] = e[k] - 1
      BY <1>3, <3>2, <3>3
    <3>5. Follows(queue[e[k] - 1], queue[e[k]])
      BY <2>2, <3>4 DEF Chain, n
    <3> QED
      BY <3>2, <3>4, <3>5
  <2>6. ASSUME queue' # <<>>
        PROVE  queue # <<>> /\ queue'[m] = queue[n]
    <3>1. m \in 1 .. m
      BY <1>4, <2>6 DEF m
    <3>2. e[m] \in 1 .. n /\ queue'[m] = queue[e[m]] /\ queue[e[m]].id \notin final
      BY <1>6, <3>1
    <3>3. n \in 1 .. n /\ queue # <<>>
      BY <1>3, <3>2
    <3>4. queue[n].id \notin final
      <4>1. CASE e[m] = n
        BY <3>2, <4>1
      <4>2. CASE e[m] < n
        BY <2>4, <3>2, <3>3, <4>2
      <4> QED
        BY <1>3, <3>2, <4>1, <4>2
    <3>5. PICK l \in 1 .. m : e[l] = n
      BY <1>6, <3>3, <3>4
    <3>6. e[m] = n
      <4>1. CASE l = m
        BY <3>5, <4>1
      <4>2. CASE l < m
        <5>1. e[l] < e[m]
          BY <1>6, <3>1, <4>2
        <5> QED
          BY <1>3, <3>2, <3>5, <5>1
      <4> QED
        BY <1>4, <4>1, <4>2
    <3> QED
      BY <3>2, <3>3, <3>6
  <2>7. Chain(queue')
    BY <2>5 DEF Chain, m
  <2> QED
    BY <1>1, <2>2, <2>6, <2>7
<1>10. ASSUME NEW c \in calls'
       PROVE  CallOK(c)'
  <2>1. c \in calls /\ CallOK(c)
    BY <1>1 DEF SimulatorInv
  <2>2. c.type = "sign" => Signs(c)'
    BY <1>1, <2>1 DEF CallOK, Signs, Numbered
  <2>3. c.type = "sync" => Sends(c)'
    <3>1. SUFFICES ASSUME c.type = "sync" PROVE Sends(c)'
      OBVIOUS
    <3>2. Sends(c)
      BY <2>1, <3>1 DEF CallOK
    <3>3. ASSUME NEW i \in DOMAIN queue', NEW j \in DOMAIN queue', i < j,
                 queue'[j].id \in Ids(c.batch)
          PROVE  queue'[i].id \in Ids(c.batch)
      <4>1. /\ e[i] \in 1 .. n /\ e[j] \in 1 .. n /\ e[i] < e[j]
            /\ queue'[i] = queue[e[i]] /\ queue'[j] = queue[e[j]]
        BY <1>4, <1>6, <3>3
      <4> QED
        BY <1>3, <3>2, <3>3, <4>1 DEF Sends
    <3> QED
      BY <1>1, <3>2, <3>3 DEF Sends, Ids
  <2> QED
    BY <2>1, <2>2, <2>3 DEF CallOK
<1> QED
  BY <1>7, <1>8, <1>9, <1>10 DEF SimulatorInv

\* A reboot begins the numbers again, under a name of its own.
LEMMA RebootKeepsQueue ==
  ASSUME SimulatorInv, reboot
  PROVE  SimulatorInv'
<1>1. /\ boot' = boot + 1 /\ sequence' = 0 /\ resolved' = "none"
      /\ UNCHANGED <<queue, cache, picker, made, stored, decided, turnedDown, entangled>>
      /\ calls' = calls \/ calls' = calls \union {Connecting}
  BY DEF reboot, Begins, work, bounds, ghosts
<1>2. /\ boot \in Nat \ {0} /\ made \in Nat /\ stored \subseteq 1 .. made
  BY DEF SimulatorInv, Counters
<1>3. Counters' /\ Faces'
  BY <1>1, <1>2 DEF SimulatorInv, Counters, Faces
<1>4. \A x \in Item : Numbered(x) => Numbered(x)'
  BY <1>1, <1>2 DEF Numbered, Item
<1>5. QueueOK'
  <2>1. \A i \in DOMAIN queue : queue[i] \in Item /\ Numbered(queue[i])
    BY DEF SimulatorInv, QueueOK
  <2>2. \A i \in DOMAIN queue : Numbered(queue[i])'
    BY <1>1, <1>2, <2>1 DEF Numbered, Item
  <2> QED
    BY <1>1, <2>2 DEF SimulatorInv, QueueOK, Ids
<1>6. \A c \in calls' : c.type \in {"sign", "sync", "action"} => c \in calls
  BY <1>1 DEF Connecting
<1>7. ChainOK'
  BY <1>1, <1>6 DEF SimulatorInv, ChainOK, Chain, Follows
<1>8. ASSUME NEW c \in calls', c.type \in {"sign", "sync", "action"}
      PROVE  CallOK(c)'
  <2>1. c \in calls /\ CallOK(c)
    BY <1>6, <1>8 DEF SimulatorInv
  <2>2. c.type = "sign" => Signs(c)'
    <3>1. SUFFICES ASSUME c.type = "sign" PROVE Signs(c)'
      OBVIOUS
    <3>2. Signs(c)
      BY <2>1, <3>1 DEF CallOK
    <3>3. Numbered(c.item)'
      BY <1>4, <3>2 DEF Signs
    <3> QED
      BY <1>1, <1>6, <3>2, <3>3 DEF Signs
  <2>3. c.type = "sync" => Sends(c)'
    BY <1>1, <2>1 DEF CallOK, Sends, Ids
  <2> QED
    BY <2>1, <2>2, <2>3 DEF CallOK
<1>9. \A c \in calls' : CallOK(c)'
  BY <1>8 DEF CallOK
<1> QED
  BY <1>3, <1>5, <1>7, <1>9 DEF SimulatorInv

-----------------------------------------------------------------------------

LEMMA SimulatorStep ==
  SimulatorInv /\ [SimulatorNext(Kinds, Kinds)]_simVars => SimulatorInv'
<1> SUFFICES ASSUME SimulatorInv, [SimulatorNext(Kinds, Kinds)]_simVars
             PROVE  SimulatorInv'
  OBVIOUS
<1>1. CASE \/ Connect \/ Scan \/ declineClose \/ ActionTimer \/ MessageTimer \/ toggleOnline
           \/ advance
           \/ \E a \in {"nothing", "bootstrap", "all"}, k \in Kinds : ConnectEnds(a, k)
           \/ \E k \in Kinds \union {"none"} : ScanEnds(k)
           \/ \E c \in calls : ActionEnds(c) \/ CallFails(c)
  BY <1>1, QuietActions
<1>2. CASE confirmSelectedTime \/ confirmClose \/ \E b \in Buttons : press(b)
  BY <1>2, ButtonsKeepQueue
<1>3. CASE Synchronize
  BY <1>3, SynchronizeKeepsQueue
<1>4. CASE reboot
  BY <1>4, RebootKeepsQueue
<1>5. ASSUME NEW call \in calls, StoreAction(call)
      PROVE  SimulatorInv'
  BY <1>5, StoreKeepsQueue
<1>6. ASSUME NEW call \in calls, NEW missed \in SUBSET stored, ServerTakes(call, missed)
      PROVE  SimulatorInv'
  BY <1>6, TakingKeepsQueue
<1>7. ASSUME NEW call \in calls, NEW state \in Kinds \union {cache}, SyncEnds(call, state)
      PROVE  SimulatorInv'
  <2>1. state \in Kinds \union {"none"}
    BY DEF SimulatorInv, Faces
  <2> QED
    BY <1>7, <2>1, AnswerKeepsQueue
<1>8. CASE UNCHANGED simVars
  <2>1. /\ UNCHANGED <<boot, queue, stored, decided, turnedDown, entangled, made, sequence>>
        /\ UNCHANGED <<resolved, picker, cache, calls>>
    BY <1>8 DEF simVars
  <2>2. Faces' /\ made \in Nat /\ sequence \in Nat
    BY <2>1 DEF SimulatorInv, Faces, Counters
  <2>3. made' \in Nat /\ made <= made' /\ sequence' \in Nat /\ sequence <= sequence'
    BY <2>1, <2>2
  <2> QED
    BY <2>1, <2>2, <2>3, QuietStep
<1>9. CASE SimulatorNext(Kinds, Kinds)
  BY <1>1, <1>2, <1>3, <1>4, <1>5, <1>6, <1>7, <1>9 DEF SimulatorNext
<1> QED
  BY <1>8, <1>9

\* An action once stored is in the queue until the server has decided it,
\* whatever calls overlap, fail or lose their answer, and through a reboot.
\* Unless one was turned down or two were signed at once, the server takes
\* the queue whole, up to a batch (terminal-simulator.component.ts, events.go).
THEOREM WhatIsStoredIsDelivered == SimulatorSpec => []StoredActionsCanBeDelivered
<1>1. SimulatorInv => StoredActionsCanBeDelivered
  <2> SUFFICES ASSUME SimulatorInv PROVE StoredActionsCanBeDelivered
    OBVIOUS
  <2>1. \A id \in stored : id \in decided \/ \E i \in DOMAIN queue : queue[i].id = id
    BY DEF SimulatorInv, QueueOK, Ids
  <2>2. (~turnedDown /\ ~entangled /\ Len(queue) <= MaxBatch) => BatchAccepted(queue)
    BY DEF SimulatorInv, ChainOK, Chain, Follows, BatchAccepted
  <2> QED
    BY <2>1, <2>2 DEF StoredActionsCanBeDelivered
<1> QED
  BY <1>1, SimulatorInvInit, SimulatorStep, PTL DEF SimulatorSpec

-----------------------------------------------------------------------------
(* The caches.                                                             *)

\* What the caches rest on: no label is newer than the company's revision.
CacheInv ==
  /\ revision \in Nat
  /\ downloads \in [Devices -> {NoDownload} \union 0 .. revision]
  /\ caches = [d \in Devices |-> caches[d]] /\ moved = [d \in Devices |-> moved[d]]
  /\ \A d \in Devices : caches[d].revision \in 0 .. revision
  /\ CachesAreTrue

LEMMA CacheInvInit == TerminalsInit => CacheInv
<1> SUFFICES ASSUME TerminalsInit PROVE CacheInv
  OBVIOUS
<1>1. /\ active = Staff /\ tags = [p \in Staff |-> NoTag] /\ revision = 0
      /\ moved = [d \in Devices |-> {}]
      /\ caches = [d \in Devices |-> [revision |-> 0, items |-> {}]]
      /\ downloads = [d \in Devices |-> NoDownload]
  BY DEF TerminalsInit
<1>2. \A d \in Devices : caches[d].revision = 0 /\ caches[d].items = {}
  BY <1>1
<1>3. CacheItems = {}
  BY <1>1 DEF CacheItems, Tagged
<1>4. CachesAreTrue
  BY <1>2, <1>3 DEF CachesAreTrue
<1>5. /\ caches = [d \in Devices |-> caches[d]]
      /\ moved = [d \in Devices |-> moved[d]]
  BY <1>1
<1>6. downloads \in [Devices -> {NoDownload} \union 0 .. revision]
  BY <1>1
<1>7. revision \in Nat /\ 0 \in 0 .. revision
  <2>1. revision = 0
    BY <1>1
  <2> QED
    BY <2>1
<1>8. \A d \in Devices : caches[d].revision \in 0 .. revision
  BY <1>2, <1>7
<1> QED
  BY <1>4, <1>5, <1>6, <1>7, <1>8 DEF CacheInv

\* A change of a tag raises the revision above every label.
LEMMA TagChangeKeepsCaches ==
  ASSUME CacheInv, revision' = revision + 1, UNCHANGED <<caches, downloads, moved>>
  PROVE  CacheInv'
<1>1. /\ revision \in Nat /\ revision' \in Nat
      /\ \A d \in Devices : caches[d].revision \in 0 .. revision
  BY DEF CacheInv
<1>2. \A d \in Devices : /\ caches'[d].revision # revision'
                         /\ caches'[d].revision \in 0 .. revision'
  BY <1>1
<1>3. CachesAreTrue'
  BY <1>2 DEF CachesAreTrue
<1>4. downloads' \in [Devices -> {NoDownload} \union 0 .. revision']
  <2>1. 0 .. revision \subseteq 0 .. revision'
    BY <1>1
  <2> QED
    BY <2>1 DEF CacheInv
<1> QED
  BY <1>1, <1>2, <1>3, <1>4 DEF CacheInv

\* The person who was activated or deactivated is set aside; the others'
\* tags are sent as before.
LEMMA ActivateKeepsCaches ==
  ASSUME CacheInv, NEW p \in Staff, NEW on \in BOOLEAN, Activate(p, on)
  PROVE  CacheInv'
<1>1. /\ active' = IF on THEN active \union {p} ELSE active \ {p}
      /\ moved' = [d \in Devices |-> moved[d] \union {p}]
      /\ UNCHANGED <<tags, revision, caches, downloads>>
  BY DEF Activate
<1>2. /\ CacheItems' = {<<tags[q], q>> : q \in {q \in active' : tags[q] # NoTag}}
      /\ CacheItems = {<<tags[q], q>> : q \in {q \in active : tags[q] # NoTag}}
  BY <1>1 DEF CacheItems, Tagged
<1>3. ASSUME NEW i, i[2] # p
      PROVE  i \in CacheItems' <=> i \in CacheItems
  <2>1. ASSUME i \in CacheItems' PROVE i \in CacheItems
    <3>1. PICK q \in active' : tags[q] # NoTag /\ i = <<tags[q], q>>
      BY <1>2, <2>1
    <3>2. q \in active
      BY <1>1, <1>3, <3>1
    <3> QED
      BY <1>2, <3>1, <3>2
  <2>2. ASSUME i \in CacheItems PROVE i \in CacheItems'
    <3>1. PICK q \in active : tags[q] # NoTag /\ i = <<tags[q], q>>
      BY <1>2, <2>2
    <3>2. q \in active'
      BY <1>1, <1>3, <3>1
    <3> QED
      BY <1>2, <3>1, <3>2
  <2> QED
    BY <2>1, <2>2
<1>4. ASSUME NEW d \in Devices, caches'[d].revision = revision'
      PROVE  {i \in caches'[d].items : i[2] \notin moved'[d]}
               = {i \in CacheItems' : i[2] \notin moved'[d]}
  <2>1. {i \in caches[d].items : i[2] \notin moved[d]}
          = {i \in CacheItems : i[2] \notin moved[d]}
    BY <1>1, <1>4 DEF CacheInv, CachesAreTrue
  <2>2. moved'[d] = moved[d] \union {p} /\ caches'[d].items = caches[d].items
    BY <1>1
  <2> QED
    BY <1>3, <2>1, <2>2
<1>5. CachesAreTrue'
  BY <1>4 DEF CachesAreTrue
<1> QED
  BY <1>1, <1>5 DEF CacheInv

\* An answer holds the people as they are when they are read, under the
\* revision that was read before.
LEMMA AnswerKeepsCaches ==
  ASSUME CacheInv, NEW d \in Devices, NEW arrives \in BOOLEAN, CacheAnswer(d, arrives)
  PROVE  CacheInv'
<1>1. /\ downloads[d] # NoDownload
      /\ downloads' = [downloads EXCEPT ![d] = NoDownload]
      /\ UNCHANGED <<active, tags, revision>>
  BY DEF CacheAnswer
<1>2. CacheItems' = CacheItems
  BY <1>1 DEF CacheItems, Tagged
<1>3. downloads' \in [Devices -> {NoDownload} \union 0 .. revision']
  BY <1>1 DEF CacheInv
<1>4. CASE ~arrives
  <2>1. UNCHANGED <<caches, moved>>
    BY <1>4 DEF CacheAnswer
  <2>2. CachesAreTrue'
    BY <1>1, <1>2, <2>1 DEF CacheInv, CachesAreTrue
  <2> QED
    BY <1>1, <1>3, <2>1, <2>2 DEF CacheInv
<1>5. CASE arrives
  <2> DEFINE new == [revision |-> downloads[d], items |-> CacheItems]
  <2>1. /\ caches' = [caches EXCEPT ![d] = new]
        /\ moved' = [moved EXCEPT ![d] = {}]
    BY <1>5 DEF CacheAnswer
  <2>2. new.revision \in 0 .. revision /\ new.items = CacheItems
    BY <1>1 DEF CacheInv
  <2> HIDE DEF new
  <2>3. caches' = [e \in Devices |-> IF e = d THEN new ELSE caches[e]]
    BY <2>1 DEF CacheInv
  <2>4. moved' = [e \in Devices |-> IF e = d THEN {} ELSE moved[e]]
    BY <2>1 DEF CacheInv
  <2>5. \A e \in Devices : caches'[e].revision \in 0 .. revision'
    BY <1>1, <2>2, <2>3 DEF CacheInv
  <2>6. ASSUME NEW e \in Devices, caches'[e].revision = revision'
        PROVE  {i \in caches'[e].items : i[2] \notin moved'[e]}
                 = {i \in CacheItems' : i[2] \notin moved'[e]}
    <3>1. CASE e = d
      <4>1. caches'[e].items = CacheItems
        BY <2>2, <2>3, <3>1
      <4> QED
        BY <1>2, <4>1
    <3>2. CASE e # d
      <4>1. caches'[e] = caches[e] /\ moved'[e] = moved[e]
        BY <2>3, <2>4, <3>2
      <4> QED
        BY <1>1, <1>2, <2>6, <4>1 DEF CacheInv, CachesAreTrue
    <3> QED
      BY <3>1, <3>2
  <2>7. CachesAreTrue'
    BY <2>6 DEF CachesAreTrue
  <2>8. /\ caches' = [e \in Devices |-> caches'[e]]
        /\ moved' = [e \in Devices |-> moved'[e]]
    BY <2>3, <2>4
  <2> QED
    BY <2>8, <1>1, <1>3, <2>5, <2>7 DEF CacheInv
<1> QED
  BY <1>4, <1>5

\* The requests about the PIN leave the tags alone.
LEMMA PinKeepsTags == PinNext => UNCHANGED tagVars
<1> SUFFICES ASSUME PinNext PROVE UNCHANGED tagVars
  OBVIOUS
<1>1. ASSUME NEW a \in Attempts, NEW d \in Devices, NEW typed \in Pins,
             SessionRequest(a, d, typed)
      PROVE  UNCHANGED tagVars
  BY <1>1 DEF SessionRequest
<1>2. ASSUME NEW a \in Attempts,
             PinFailureRead(a) \/ recordPINFailure(a) \/ SessionCreated(a)
      PROVE  UNCHANGED tagVars
  BY <1>2 DEF PinFailureRead, recordPINFailure, SessionCreated
<1>3. ASSUME NEW new \in Pins, UpdateAdminPIN(new)
      PROVE  UNCHANGED tagVars
  BY <1>3 DEF UpdateAdminPIN
<1>4. ASSUME NEW s \in sessions, RequireDeviceAdmin(s) \/ CloseAdminSession(s)
      PROVE  UNCHANGED tagVars
  BY <1>4 DEF RequireDeviceAdmin, CloseAdminSession
<1>5. ASSUME TimePasses
      PROVE  UNCHANGED tagVars
  BY <1>5 DEF TimePasses
<1> QED
  BY <1>1, <1>2, <1>3, <1>4, <1>5 DEF PinNext

LEMMA CacheInvNext == CacheInv /\ [TagNext \/ PinNext]_terminalVars => CacheInv'
<1> SUFFICES ASSUME CacheInv, [TagNext \/ PinNext]_terminalVars PROVE CacheInv'
  OBVIOUS
<1>1. ASSUME NEW p \in Staff, RevokeRFID(p)
      PROVE  CacheInv'
  BY <1>1, TagChangeKeepsCaches DEF RevokeRFID
<1>2. ASSUME NEW p \in Staff, NEW t \in Tags, NEW replace \in BOOLEAN, AssignRFID(p, t, replace)
      PROVE  CacheInv'
  BY <1>2, TagChangeKeepsCaches DEF AssignRFID
<1>3. ASSUME NEW d \in Devices, CacheRead(d)
      PROVE  CacheInv'
  <2>1. /\ downloads' = [downloads EXCEPT ![d] = revision]
        /\ UNCHANGED <<active, tags, revision, caches, moved>>
    BY <1>3 DEF CacheRead
  <2>2. revision \in 0 .. revision
    <3>1. revision \in Nat
      BY DEF CacheInv
    <3> QED
      BY <3>1
  <2>3. downloads' \in [Devices -> {NoDownload} \union 0 .. revision']
    BY <2>1, <2>2 DEF CacheInv
  <2>4. CacheItems' = CacheItems
    BY <2>1 DEF CacheItems, Tagged
  <2>5. CachesAreTrue
    BY DEF CacheInv
  <2>6. CachesAreTrue'
    BY <2>1, <2>4, <2>5 DEF CachesAreTrue
  <2> QED
    BY <2>1, <2>3, <2>6 DEF CacheInv
<1>4. CASE UNCHANGED tagVars
  <2>1. CacheItems' = CacheItems
    BY <1>4 DEF tagVars, CacheItems, Tagged
  <2>2. CachesAreTrue
    BY DEF CacheInv
  <2>3. CachesAreTrue'
    BY <1>4, <2>1, <2>2 DEF tagVars, CachesAreTrue
  <2> QED
    BY <1>4, <2>3 DEF tagVars, CacheInv
<1>5. ASSUME PinNext
      PROVE  UNCHANGED tagVars
  BY <1>5, PinKeepsTags
<1> QED
  BY <1>1, <1>2, <1>3, <1>4, <1>5, ActivateKeepsCaches, AnswerKeepsCaches
     DEF TagNext, terminalVars

\* A device that is told that nothing changed holds the tags as they are,
\* however downloads, changes of tags and of people interleave (deviceCache,
\* assignRFID and revokeRFID).
THEOREM CachesStayTrue == TerminalSpec => []CachesAreTrue
<1>1. CacheInv => CachesAreTrue
  BY DEF CacheInv
<1> QED
  BY <1>1, CacheInvInit, CacheInvNext, PTL DEF TerminalSpec

-----------------------------------------------------------------------------
(* The sessions.                                                           *)

\* Without overlapping requests one is in hand at most, and one whose PIN was
\* right has the PIN in force.
SessionInv ==
  /\ attempts = [a \in Attempts |-> attempts[a]]
  /\ overlapped \in BOOLEAN
  /\ ~overlapped =>
       /\ \A a, b \in InHandNow : a = b
       /\ \A a \in Attempts : attempts[a].step = "right" => attempts[a].typed = pin
  /\ SessionsHaveThePin

LEMMA SessionInvInit == TerminalsInit => SessionInv
<1> SUFFICES ASSUME TerminalsInit PROVE SessionInv
  OBVIOUS
<1>1. attempts = [a \in Attempts |-> NoAttempt] /\ sessions = {} /\ overlapped = FALSE
  BY DEF TerminalsInit
<1>2. InHandNow = {}
  BY <1>1 DEF InHandNow
<1>3. \A a \in Attempts : attempts[a].step # "right"
  BY <1>1 DEF NoAttempt
<1>4. attempts = [a \in Attempts |-> attempts[a]]
  BY <1>1
<1>5. SessionsHaveThePin
  BY <1>1 DEF SessionsHaveThePin
<1> QED
  BY <1>1, <1>2, <1>3, <1>4, <1>5 DEF SessionInv

\* A request that begins is alone, or requests overlap from now on.
LEMMA RequestKeepsSessions ==
  ASSUME SessionInv, NEW a \in Attempts, NEW d \in Devices, NEW typed \in Pins,
         SessionRequest(a, d, typed)
  PROVE  SessionInv'
<1> DEFINE new == [step |-> IF typed = pin THEN "right" ELSE "wrong", device |-> d,
                   typed |-> typed]
<1>1. /\ attempts' = [attempts EXCEPT ![a] = new]
      /\ overlapped' = (overlapped \/ InHandNow # {})
      /\ UNCHANGED <<pin, sessions>>
  BY DEF SessionRequest
<1>2. attempts' = [b \in Attempts |-> IF b = a THEN new ELSE attempts[b]]
  BY <1>1 DEF SessionInv
<1>3. new.step = "right" => new.typed = pin
  OBVIOUS
<1> HIDE DEF new
<1>4. ASSUME ~overlapped'
      PROVE  /\ \A b, c \in InHandNow' : b = c
             /\ \A b \in Attempts : attempts'[b].step = "right" => attempts'[b].typed = pin'
  <2>1. InHandNow = {} /\ ~overlapped
    BY <1>1, <1>4 DEF SessionInv
  <2>2. InHandNow' \subseteq {a}
    BY <1>2, <2>1 DEF InHandNow
  <2>3. ASSUME NEW b \in Attempts, attempts'[b].step = "right"
        PROVE  attempts'[b].typed = pin'
    BY <1>1, <1>2, <1>3, <2>1, <2>3 DEF SessionInv
  <2> QED
    BY <2>2, <2>3
<1>5. attempts' = [b \in Attempts |-> attempts'[b]]
  BY <1>2
<1>6. SessionsHaveThePin'
  BY <1>1 DEF SessionInv, SessionsHaveThePin
<1> QED
  BY <1>1, <1>4, <1>5, <1>6 DEF SessionInv

\* A request that goes on or ends without a session leaves none with another
\* PIN behind.
LEMMA StepKeepsSessions ==
  ASSUME SessionInv, NEW a \in Attempts, NEW r, attempts[a] # NoAttempt, r.step # "right",
         attempts' = [attempts EXCEPT ![a] = r],
         UNCHANGED <<pin, overlapped>>,
         SessionsHaveThePin'
  PROVE  SessionInv'
<1>1. attempts' = [b \in Attempts |-> IF b = a THEN r ELSE attempts[b]]
  BY DEF SessionInv
<1>2. attempts' = [b \in Attempts |-> attempts'[b]]
  BY <1>1
<1>3. InHandNow' \subseteq InHandNow
  BY <1>1 DEF InHandNow
<1>4. \A b \in Attempts : attempts'[b].step = "right" => attempts'[b] = attempts[b]
  BY <1>1
<1> QED
  BY <1>2, <1>3, <1>4 DEF SessionInv

\* The requests about tags leave the PIN alone.
LEMMA TagsKeepPin == TagNext => UNCHANGED pinVars
<1> SUFFICES ASSUME TagNext PROVE UNCHANGED pinVars
  OBVIOUS
<1>1. ASSUME NEW p \in Staff, RevokeRFID(p)
      PROVE  UNCHANGED pinVars
  BY <1>1 DEF RevokeRFID
<1>2. ASSUME NEW p \in Staff, NEW t \in Tags, NEW replace \in BOOLEAN,
             AssignRFID(p, t, replace)
      PROVE  UNCHANGED pinVars
  BY <1>2 DEF AssignRFID
<1>3. ASSUME NEW p \in Staff, NEW on \in BOOLEAN, Activate(p, on)
      PROVE  UNCHANGED pinVars
  BY <1>3 DEF Activate
<1>4. ASSUME NEW d \in Devices, CacheRead(d)
      PROVE  UNCHANGED pinVars
  BY <1>4 DEF CacheRead
<1>5. ASSUME NEW d \in Devices, NEW arrives \in BOOLEAN, CacheAnswer(d, arrives)
      PROVE  UNCHANGED pinVars
  BY <1>5 DEF CacheAnswer
<1> QED
  BY <1>1, <1>2, <1>3, <1>4, <1>5 DEF TagNext

LEMMA SessionInvNext == SessionInv /\ [TagNext \/ PinNext]_terminalVars => SessionInv'
<1> SUFFICES ASSUME SessionInv, [TagNext \/ PinNext]_terminalVars PROVE SessionInv'
  OBVIOUS
<1>1. ASSUME NEW a \in Attempts, PinFailureRead(a)
      PROVE  SessionInv'
  <2> DEFINE r == [step |-> "counted",
                   counts |-> [s \in {attempts[a].device, "organization"} |-> failures[s] + 1]]
  <2>1. attempts' = [attempts EXCEPT ![a] = r] /\ attempts[a].step = "wrong"
    BY <1>1 DEF PinFailureRead
  <2>2. r.step # "right" /\ attempts[a] # NoAttempt
    BY <2>1 DEF NoAttempt
  <2>3. UNCHANGED <<pin, sessions, overlapped>>
    BY <1>1 DEF PinFailureRead
  <2>4. SessionsHaveThePin'
    BY <2>3 DEF SessionInv, SessionsHaveThePin
  <2> HIDE DEF r
  <2> QED
    BY <2>1, <2>2, <2>3, <2>4, StepKeepsSessions
<1>2. ASSUME NEW a \in Attempts, recordPINFailure(a)
      PROVE  SessionInv'
  <2>1. attempts' = [attempts EXCEPT ![a] = NoAttempt] /\ attempts[a].step = "counted"
    BY <1>2 DEF recordPINFailure
  <2>2. NoAttempt.step # "right" /\ attempts[a] # NoAttempt
    BY <2>1 DEF NoAttempt
  <2>3. UNCHANGED <<pin, sessions, overlapped>>
    BY <1>2 DEF recordPINFailure
  <2>4. SessionsHaveThePin'
    BY <2>3 DEF SessionInv, SessionsHaveThePin
  <2> QED
    BY <2>1, <2>2, <2>3, <2>4, StepKeepsSessions
<1>3. ASSUME NEW a \in Attempts, SessionCreated(a)
      PROVE  SessionInv'
  <2>1. attempts' = [attempts EXCEPT ![a] = NoAttempt] /\ attempts[a].step = "right"
    BY <1>3 DEF SessionCreated
  <2>2. NoAttempt.step # "right" /\ attempts[a] # NoAttempt
    BY <2>1 DEF NoAttempt
  <2>3. /\ UNCHANGED <<pin, overlapped>>
        /\ sessions' = sessions \union
             {[device |-> attempts[a].device, pin |-> attempts[a].typed, used |-> ticks]}
    BY <1>3 DEF SessionCreated
  <2>4. ~overlapped => attempts[a].typed = pin
    BY <2>1 DEF SessionInv
  <2>5. SessionsHaveThePin'
    BY <2>3, <2>4 DEF SessionInv, SessionsHaveThePin
  <2> QED
    BY <2>1, <2>2, <2>3, <2>5, StepKeepsSessions
<1>4. ASSUME NEW new \in Pins, UpdateAdminPIN(new)
      PROVE  SessionInv'
  <2>1. /\ sessions' = {} /\ UNCHANGED attempts
        /\ overlapped' = (overlapped \/ InHandNow # {})
    BY <1>4 DEF UpdateAdminPIN
  <2>2. SessionsHaveThePin'
    BY <2>1 DEF SessionsHaveThePin
  <2>3. ASSUME InHandNow = {}, NEW a \in Attempts
        PROVE  attempts[a].step # "right"
    BY <2>3 DEF InHandNow, NoAttempt
  <2>4. InHandNow' = InHandNow
    BY <2>1 DEF InHandNow
  <2> QED
    BY <2>1, <2>2, <2>3, <2>4 DEF SessionInv
<1>5. ASSUME UNCHANGED <<attempts, pin, overlapped>>, SessionsHaveThePin'
      PROVE  SessionInv'
  <2>1. InHandNow' = InHandNow
    BY <1>5 DEF InHandNow
  <2> QED
    BY <1>5, <2>1 DEF SessionInv
<1>6. ASSUME NEW s \in sessions, RequireDeviceAdmin(s) \/ CloseAdminSession(s)
      PROVE  SessionInv'
  <2>1. UNCHANGED <<attempts, pin, overlapped>>
    BY <1>6 DEF RequireDeviceAdmin, CloseAdminSession
  <2>2. \A t \in sessions' : t \in sessions \/ t.pin = s.pin
    BY <1>6 DEF RequireDeviceAdmin, CloseAdminSession
  <2>3. SessionsHaveThePin'
    BY <2>1, <2>2 DEF SessionInv, SessionsHaveThePin
  <2> QED
    BY <1>5, <2>1, <2>3
<1>7. ASSUME UNCHANGED <<attempts, pin, overlapped, sessions>>
      PROVE  SessionInv'
  <2>1. SessionsHaveThePin'
    BY <1>7 DEF SessionInv, SessionsHaveThePin
  <2> QED
    BY <1>5, <1>7, <2>1
<1>8. ASSUME TagNext \/ TimePasses \/ UNCHANGED terminalVars
      PROVE  UNCHANGED <<attempts, pin, overlapped, sessions>>
  <2>1. TagNext => UNCHANGED pinVars
    BY TagsKeepPin
  <2>2. CASE TimePasses
    BY <2>2 DEF TimePasses
  <2>3. CASE TagNext \/ UNCHANGED terminalVars
    BY <2>1, <2>3 DEF pinVars, terminalVars
  <2> QED
    BY <1>8, <2>2, <2>3
<1> QED
  BY <1>1, <1>2, <1>3, <1>4, <1>6, <1>7, <1>8, RequestKeepsSessions DEF PinNext

\* While no two requests about the PIN are handled at once, every session
\* that is open was opened with the PIN in force (createAdminSession and
\* updateAdminPIN).
THEOREM SessionsKeepThePin == TerminalSpec => []SessionsHaveThePin
<1>1. SessionInv => SessionsHaveThePin
  BY DEF SessionInv
<1> QED
  BY <1>1, SessionInvInit, SessionInvNext, PTL DEF TerminalSpec
-----------------------------------------------------------------------------
(* The capacity.                                                           *)

\* What the capacity rests on: the active people are some of the staff.
CapacityInv ==
  /\ active \subseteq Staff
  /\ tags = [p \in Staff |-> tags[p]]
  /\ recalled \in BOOLEAN
  /\ CapacityIsKept

\* Fewer people with a tag are within the capacity too.
LEMMA FewerTagged ==
  ASSUME IsFiniteSet(Staff), Capacity \in Nat, active \subseteq Staff, NEW T, NEW U,
         T \subseteq U, U \subseteq active, Cardinality(U) <= Capacity
  PROVE  Cardinality(T) <= Capacity
<1>1. IsFiniteSet(U)
  BY FS_Subset
<1>2. IsFiniteSet(T) /\ Cardinality(T) <= Cardinality(U)
  BY <1>1, FS_Subset
<1>3. Cardinality(T) \in Nat /\ Cardinality(U) \in Nat
  BY <1>1, <1>2, FS_CardinalityType
<1> QED
  BY <1>2, <1>3

LEMMA CapacityInvNext ==
  ASSUME IsFiniteSet(Staff), Capacity \in Nat, CapacityInv, [TagNext \/ PinNext]_terminalVars
  PROVE  CapacityInv'
<1> DEFINE T == {p \in active : Tagged(p)}
<1>1. active \subseteq Staff /\ tags = [p \in Staff |-> tags[p]] /\ recalled \in BOOLEAN
  BY DEF CapacityInv
<1>2. ~recalled => Cardinality(T) <= Capacity
  BY DEF CapacityInv, CapacityIsKept
<1>3. T \subseteq active /\ IsFiniteSet(T)
  <2>1. T \subseteq Staff
    BY <1>1
  <2> HIDE DEF T
  <2>2. IsFiniteSet(T)
    BY <2>1, FS_Subset
  <2> QED
    BY <2>2 DEF T
<1>4. ASSUME T' \subseteq T, ~recalled' => ~recalled, recalled' \in BOOLEAN,
             active' \subseteq Staff, tags' = [p \in Staff |-> tags'[p]]
      PROVE  CapacityInv'
  <2>1. ~recalled => Cardinality(T') <= Capacity
    <3> HIDE DEF T
    <3> QED
      BY <1>1, <1>2, <1>3, <1>4, FewerTagged
  <2> QED
    BY <1>4, <2>1 DEF CapacityInv, CapacityIsKept
<1>5. ASSUME NEW p \in Staff, RevokeRFID(p)
      PROVE  CapacityInv'
  <2>1. tags' = [tags EXCEPT ![p] = NoTag] /\ UNCHANGED <<active, recalled>>
    BY <1>5 DEF RevokeRFID
  <2>2. tags' = [q \in Staff |-> IF q = p THEN NoTag ELSE tags[q]]
    BY <1>1, <2>1
  <2>3. T' \subseteq T
    BY <1>1, <2>1, <2>2 DEF Tagged
  <2>4. tags' = [q \in Staff |-> tags'[q]]
    BY <2>2
  <2> HIDE DEF T
  <2> QED
    BY <1>1, <1>4, <2>1, <2>3, <2>4
<1>6. ASSUME NEW p \in Staff, NEW t \in Tags, NEW replace \in BOOLEAN, AssignRFID(p, t, replace)
      PROVE  CapacityInv'
  <2>1. tags' = [tags EXCEPT ![p] = t] /\ p \in active /\ UNCHANGED <<active, recalled>>
    BY <1>6 DEF AssignRFID
  <2>2. tags' = [q \in Staff |-> IF q = p THEN t ELSE tags[q]]
    BY <1>1, <2>1
  <2>3. tags' = [q \in Staff |-> tags'[q]]
    BY <2>2
  <2>4. T' \subseteq T \union {p}
    BY <1>1, <2>1, <2>2 DEF Tagged
  <2>5. CASE Tagged(p)
    <3>1. T' \subseteq T
      BY <2>1, <2>4, <2>5
    <3> HIDE DEF T
    <3> QED
      BY <1>1, <1>4, <2>1, <2>3, <3>1
  <2>6. CASE ~Tagged(p)
    <3>1. Cardinality(T) < Capacity
      BY <1>6, <2>6 DEF AssignRFID
    <3>2. p \notin T /\ T \union {p} \subseteq active
      BY <2>1, <2>6
    <3> HIDE DEF T
    <3>3. Cardinality(T \union {p}) = Cardinality(T) + 1
      BY <1>3, <3>2, FS_AddElement
    <3>4. Cardinality(T) \in Nat
      BY <1>3, FS_CardinalityType
    <3>5. Cardinality(T \union {p}) <= Capacity
      BY <3>1, <3>3, <3>4
    <3>6. Cardinality(T') <= Capacity
      BY <1>1, <2>4, <3>2, <3>5, FewerTagged
    <3> QED
      BY <1>1, <2>1, <2>3, <3>6 DEF CapacityInv, CapacityIsKept, T
  <2> QED
    BY <2>5, <2>6
<1>7. ASSUME NEW p \in Staff, NEW on \in BOOLEAN, Activate(p, on)
      PROVE  CapacityInv'
  <2>1. /\ active' = IF on THEN active \union {p} ELSE active \ {p}
        /\ recalled' = (recalled \/ (on /\ Tagged(p)))
        /\ tags' = tags
    BY <1>7 DEF Activate
  <2>2. active' \subseteq Staff /\ tags' = [q \in Staff |-> tags'[q]] /\ recalled' \in BOOLEAN
    BY <1>1, <2>1
  <2>3. ~recalled' => ~recalled
    BY <1>1, <2>1
  <2>4. CASE recalled'
    BY <2>2, <2>4 DEF CapacityInv, CapacityIsKept
  <2>5. CASE ~recalled'
    <3>1. T' \subseteq T
      BY <1>1, <2>1, <2>5 DEF Tagged
    <3> HIDE DEF T
    <3> QED
      BY <1>4, <2>2, <2>3, <3>1
  <2> QED
    BY <2>4, <2>5
<1>8. ASSUME UNCHANGED <<active, tags, recalled>>
      PROVE  CapacityInv'
  <2>1. T' = T
    BY <1>8 DEF Tagged
  <2> HIDE DEF T
  <2> QED
    BY <1>1, <1>4, <1>8, <2>1
<1>9. ASSUME NEW d \in Devices, CacheRead(d) \/ \E arrives \in BOOLEAN : CacheAnswer(d, arrives)
      PROVE  CapacityInv'
  BY <1>8, <1>9 DEF CacheRead, CacheAnswer
<1>10. CASE PinNext \/ UNCHANGED terminalVars
  <2>1. PinNext => UNCHANGED tagVars
    BY PinKeepsTags
  <2>2. UNCHANGED tagVars
    BY <1>10, <2>1 DEF terminalVars
  <2> QED
    BY <1>8, <2>2 DEF tagVars
<1> QED
  BY <1>5, <1>6, <1>7, <1>9, <1>10 DEF TagNext

LEMMA CapacityInvInit ==
  ASSUME Capacity \in Nat, TerminalsInit
  PROVE  CapacityInv
<1>1. active = Staff /\ tags = [p \in Staff |-> NoTag] /\ recalled = FALSE
  BY DEF TerminalsInit
<1>2. {p \in active : Tagged(p)} = {}
  BY <1>1 DEF Tagged
<1>3. CapacityIsKept
  BY <1>2, FS_EmptySet DEF CapacityIsKept
<1> QED
  BY <1>1, <1>3 DEF CapacityInv

-----------------------------------------------------------------------------
(* The sum over the devices.                                               *)

LEMMA DeviceSumIsCount ==
  ASSUME IsFiniteSet(Devices), NEW f, \A d \in Devices : f[d] \in Nat
  PROVE  DeviceSum(f) = Cardinality(Units(f, Devices))
BY SumIsCount DEF DeviceSum

\* One more at one device is one more in all.
LEMMA SumGrows ==
  ASSUME IsFiniteSet(Devices), NEW f, NEW g, NEW x \in Devices,
         \A d \in Devices : f[d] \in Nat,
         \A d \in Devices : g[d] = IF d = x THEN f[d] + 1 ELSE f[d]
  PROVE  DeviceSum(g) = DeviceSum(f) + 1
<1> DEFINE A == Units(f, Devices)
<1>1. IsFiniteSet(A)
  BY UnitsAreFinite
<1>2. <<x, f[x] + 1>> \notin A
  BY DEF Units
<1>3. Units(g, Devices) = A \union {<<x, f[x] + 1>>}
  <2>1. \A d \in Devices, n \in Nat :
          n \in 1 .. g[d] <=> n \in 1 .. f[d] \/ <<d, n>> = <<x, f[x] + 1>>
    OBVIOUS
  <2>2. f[x] + 1 \in Nat
    OBVIOUS
  <2> QED
    BY <2>1, <2>2 DEF Units
<1> HIDE DEF A
<1>4. Cardinality(A \union {<<x, f[x] + 1>>}) = Cardinality(A) + 1
  BY <1>1, <1>2, FS_AddElement
<1>5. \A d \in Devices : g[d] \in Nat
  OBVIOUS
<1>6. DeviceSum(g) = Cardinality(Units(g, Devices)) /\ DeviceSum(f) = Cardinality(A)
  BY <1>5, DeviceSumIsCount DEF A
<1> QED
  BY <1>3, <1>4, <1>6

\* What one device counts is within the sum.
LEMMA PartOfSum ==
  ASSUME IsFiniteSet(Devices), NEW f, NEW x \in Devices, \A d \in Devices : f[d] \in Nat
  PROVE  f[x] <= DeviceSum(f)
<1>1. IsFiniteSet(Units(f, Devices \ {x}))
  BY UnitsAreFinite
<1>2. Cardinality(Units(f, Devices)) = f[x] + Cardinality(Units(f, Devices \ {x}))
  BY <1>1, UnitsStep
<1>3. Cardinality(Units(f, Devices \ {x})) \in Nat
  BY <1>1, FS_CardinalityType
<1>4. DeviceSum(f) = Cardinality(Units(f, Devices))
  BY DeviceSumIsCount
<1> QED
  BY <1>2, <1>3, <1>4

\* Nothing counted adds up to nothing.
LEMMA SumOfNothing ==
  ASSUME IsFiniteSet(Devices), NEW f, \A d \in Devices : f[d] = 0
  PROVE  DeviceSum(f) = 0
<1>1. Units(f, Devices) = {}
  BY DEF Units
<1>2. DeviceSum(f) = Cardinality(Units(f, Devices))
  BY DeviceSumIsCount
<1> QED
  BY <1>1, <1>2, FS_EmptySet

\* Equal counts have equal sums.
LEMMA SameSum ==
  ASSUME IsFiniteSet(Devices), NEW f, NEW g, \A d \in Devices : f[d] \in Nat /\ g[d] = f[d]
  PROVE  DeviceSum(g) = DeviceSum(f)
<1>1. Units(g, Devices) = Units(f, Devices)
  BY DEF Units
<1>2. \A d \in Devices : g[d] \in Nat
  OBVIOUS
<1>3. /\ DeviceSum(f) = Cardinality(Units(f, Devices))
      /\ DeviceSum(g) = Cardinality(Units(g, Devices))
  BY <1>2, DeviceSumIsCount
<1> QED
  BY <1>1, <1>3

-----------------------------------------------------------------------------
(* The counters.                                                           *)

\* A request that is to be counted holds what it read for its device and for
\* the company.
Counting(r) ==
  \E d \in Devices : /\ r.counts = [s \in {d, "organization"} |-> r.counts[s]]
                     /\ \A s \in {d, "organization"} : r.counts[s] \in Nat

\* What the counters rest on: without overlap, a request in hand was let in
\* when the company had waited long enough, and holds the counters plus one.
CountInv ==
  /\ ticks \in Nat /\ failures \in [Scopes -> Nat] /\ blocked \in [Scopes -> Nat]
  /\ \A a \in Attempts : attempts[a].step \in {"right", "wrong"} => attempts[a].device \in Devices
  /\ \A a \in Attempts : attempts[a].step = "counted" => Counting(attempts[a])
  /\ ~overlapped => \A a \in InHandNow :
       /\ blocked["organization"] <= ticks
       /\ attempts[a].step = "counted" =>
            \A s \in DOMAIN attempts[a].counts : attempts[a].counts[s] = failures[s] + 1
  /\ CountersAgree

LEMMA DelayGrows ==
  ASSUME NEW m \in Nat, NEW n \in Nat, m <= n
  PROVE  pinDelay(m) \in Nat /\ pinDelay(m) <= pinDelay(n)
BY DEF pinDelay

\* Counters that are deleted agree, whatever else happens.
LEMMA DeletedCountersAgree ==
  ASSUME IsFiniteSet(Devices),
         failures = [s \in Scopes |-> 0], blocked = [s \in Scopes |-> 0]
  PROVE  CountersAgree
<1>1. \A d \in Devices : failures[d] = 0 /\ blocked[d] = 0
  BY DEF Scopes
<1>2. failures["organization"] = 0 /\ blocked["organization"] = 0
  BY DEF Scopes
<1>3. DeviceSum(failures) = 0
  BY <1>1, SumOfNothing
<1> QED
  BY <1>1, <1>2, <1>3 DEF CountersAgree

LEMMA CountInvInit ==
  ASSUME IsFiniteSet(Devices), TerminalsInit
  PROVE  CountInv
<1>1. /\ ticks = 0 /\ failures = [s \in Scopes |-> 0] /\ blocked = [s \in Scopes |-> 0]
      /\ attempts = [a \in Attempts |-> NoAttempt]
  BY DEF TerminalsInit
<1>2. CountersAgree
  BY <1>1, DeletedCountersAgree
<1>3. InHandNow = {} /\ \A a \in Attempts : attempts[a].step = "none"
  BY <1>1 DEF InHandNow, NoAttempt
<1>4. failures \in [Scopes -> Nat] /\ blocked \in [Scopes -> Nat] /\ ticks \in Nat
  BY <1>1
<1> QED
  BY <1>2, <1>3, <1>4 DEF CountInv

\* A request that is let in.
LEMMA RequestKeepsCounts ==
  ASSUME SessionInv, CountInv,
         NEW a \in Attempts, NEW d \in Devices, NEW typed \in Pins, SessionRequest(a, d, typed)
  PROVE  CountInv'
<1> DEFINE r == [step |-> IF typed = pin THEN "right" ELSE "wrong", device |-> d, typed |-> typed]
<1>1. /\ attempts' = [attempts EXCEPT ![a] = r]
      /\ blocked["organization"] <= ticks
      /\ overlapped' = (overlapped \/ InHandNow # {})
      /\ UNCHANGED <<failures, blocked, ticks>>
  BY DEF SessionRequest
<1>2. attempts' = [b \in Attempts |-> IF b = a THEN r ELSE attempts[b]]
  BY <1>1 DEF SessionInv
<1>3. r.step \in {"right", "wrong"} /\ r.device = d
  OBVIOUS
<1> HIDE DEF r
<1>4. ~overlapped' => ~overlapped
  BY <1>1 DEF SessionInv
<1>5. ~overlapped' => InHandNow' \subseteq {a}
  BY <1>1, <1>2 DEF InHandNow, SessionInv
<1>6. attempts'[a].step # "counted"
  BY <1>2, <1>3
<1>7. CountersAgree'
  BY <1>1, <1>4 DEF CountInv, CountersAgree
<1>8. \A b \in Attempts : attempts'[b] = attempts[b] \/ attempts'[b] = r
  BY <1>2
<1>9. /\ \A b \in Attempts :
           attempts'[b].step \in {"right", "wrong"} => attempts'[b].device \in Devices
      /\ \A b \in Attempts : attempts'[b].step = "counted" => Counting(attempts'[b])
  BY <1>3, <1>8 DEF CountInv
<1>10. ASSUME ~overlapped', NEW b \in InHandNow'
       PROVE  /\ blocked'["organization"] <= ticks'
              /\ attempts'[b].step # "counted"
  <2>1. b = a
    BY <1>5, <1>10
  <2> QED
    BY <1>1, <1>6, <2>1
<1>11. ticks' \in Nat /\ failures' \in [Scopes -> Nat] /\ blocked' \in [Scopes -> Nat]
  BY <1>1 DEF CountInv
<1> QED
  BY <1>7, <1>9, <1>10, <1>11 DEF CountInv

\* The counters are read.
LEMMA ReadKeepsCounts ==
  ASSUME SessionInv, CountInv, NEW a \in Attempts, PinFailureRead(a)
  PROVE  CountInv'
<1> DEFINE d == attempts[a].device
           c == [s \in {d, "organization"} |-> failures[s] + 1]
           r == [step |-> "counted", counts |-> c]
<1>1. /\ attempts' = [attempts EXCEPT ![a] = r] /\ attempts[a].step = "wrong"
      /\ UNCHANGED <<failures, blocked, ticks, overlapped>>
  BY DEF PinFailureRead
<1>2. d \in Devices
  BY <1>1 DEF CountInv
<1>3. r.step = "counted" /\ r.counts = c
  OBVIOUS
<1> HIDE DEF r
<1>4. attempts' = [b \in Attempts |-> IF b = a THEN r ELSE attempts[b]]
  BY <1>1 DEF SessionInv
<1>5. DOMAIN c = {d, "organization"} /\ \A s \in {d, "organization"} : c[s] = failures[s] + 1
  OBVIOUS
<1>6. c = [s \in {d, "organization"} |-> c[s]]
  OBVIOUS
<1>7. \A s \in {d, "organization"} : failures[s] \in Nat
  BY <1>2 DEF CountInv, Scopes
<1> HIDE DEF d, c
<1>8. Counting(r)
  BY <1>2, <1>3, <1>5, <1>6, <1>7 DEF Counting
<1>9. a \in InHandNow
  BY <1>1 DEF InHandNow, NoAttempt
<1>10. \A b \in Attempts : attempts'[b] = IF b = a THEN r ELSE attempts[b]
  BY <1>4
<1>11. CountersAgree'
  BY <1>1 DEF CountInv, CountersAgree
<1>12. InHandNow' \subseteq InHandNow
  BY <1>9, <1>10 DEF InHandNow
<1>13. /\ \A b \in Attempts :
            attempts'[b].step \in {"right", "wrong"} => attempts'[b].device \in Devices
       /\ \A b \in Attempts : attempts'[b].step = "counted" => Counting(attempts'[b])
  BY <1>3, <1>8, <1>10 DEF CountInv
<1>14. ASSUME ~overlapped', NEW b \in InHandNow'
       PROVE  /\ blocked'["organization"] <= ticks'
              /\ attempts'[b].step = "counted" =>
                   \A s \in DOMAIN attempts'[b].counts : attempts'[b].counts[s] = failures'[s] + 1
  <2>1. b \in InHandNow /\ b = a
    BY <1>1, <1>9, <1>12, <1>14 DEF SessionInv
  <2>2. attempts'[b] = r
    BY <1>10, <1>14, <2>1
  <2>3. blocked["organization"] <= ticks
    BY <1>1, <1>14, <2>1 DEF CountInv
  <2> QED
    BY <1>1, <1>3, <1>5, <2>2, <2>3
<1>15. ticks' \in Nat /\ failures' \in [Scopes -> Nat] /\ blocked' \in [Scopes -> Nat]
  BY <1>1 DEF CountInv
<1> QED
  BY <1>11, <1>13, <1>14, <1>15 DEF CountInv

\* They are saved, and the waiting times with them.
LEMMA RecordKeepsCounts ==
  ASSUME IsFiniteSet(Devices), "organization" \notin Devices,
         SessionInv, CountInv, NEW a \in Attempts, recordPINFailure(a)
  PROVE  CountInv'
<1> DEFINE c == attempts[a].counts
           late == {s \in DOMAIN c : pinDelay(c[s]) > 0}
           o == "organization"
<1>1. /\ attempts[a].step = "counted"
      /\ failures' = [s \in Scopes |-> IF s \in DOMAIN c THEN c[s] ELSE failures[s]]
      /\ blocked' = [s \in Scopes |-> IF s \in late THEN ticks + pinDelay(c[s]) ELSE blocked[s]]
      /\ attempts' = [attempts EXCEPT ![a] = NoAttempt]
      /\ UNCHANGED <<ticks, overlapped>>
  BY DEF recordPINFailure
<1>2. PICK d \in Devices : /\ c = [s \in {d, o} |-> c[s]]
                           /\ \A s \in {d, o} : c[s] \in Nat
  BY <1>1 DEF CountInv, Counting
<1>3. DOMAIN c = {d, o}
  BY <1>2
<1>4. \A s \in Scopes : failures[s] \in Nat /\ blocked[s] \in Nat
  BY DEF CountInv
<1>5. \A s \in {d, o} : pinDelay(c[s]) \in Nat
  BY <1>2, DelayGrows
<1>6. o \in Scopes /\ Devices \subseteq Scopes
  BY DEF Scopes
<1>7. ticks \in Nat
  BY DEF CountInv
<1>8. late \subseteq {d, o}
  BY <1>3
<1>9. /\ \A s \in Scopes : failures'[s] = IF s \in {d, o} THEN c[s] ELSE failures[s]
      /\ \A s \in Scopes : blocked'[s] = IF s \in late THEN ticks + pinDelay(c[s]) ELSE blocked[s]
      /\ DOMAIN failures' = Scopes /\ DOMAIN blocked' = Scopes
      /\ failures' = [s \in Scopes |-> failures'[s]]
      /\ blocked' = [s \in Scopes |-> blocked'[s]]
  BY <1>1, <1>3
<1>10. \A s \in {d, o} : s \in late <=> pinDelay(c[s]) > 0
  BY <1>3
<1>11. a \in InHandNow
  BY <1>1 DEF InHandNow, NoAttempt
<1>12. ~overlapped => /\ blocked[o] <= ticks
                      /\ \A s \in {d, o} : c[s] = failures[s] + 1
  BY <1>1, <1>3, <1>11 DEF CountInv
<1> HIDE DEF c, late
<1>13. failures' \in [Scopes -> Nat]
  BY <1>2, <1>4, <1>9
<1>14. blocked' \in [Scopes -> Nat]
  <2>1. \A s \in Scopes : blocked'[s] \in Nat
    BY <1>4, <1>5, <1>7, <1>8, <1>9
  <2> QED
    BY <1>9, <2>1
<1>15. \A b \in Attempts : attempts'[b] = IF b = a THEN NoAttempt ELSE attempts[b]
  BY <1>1 DEF SessionInv
<1>16. NoAttempt.step = "none"
  BY DEF NoAttempt
<1>17. /\ \A b \in Attempts :
            attempts'[b].step \in {"right", "wrong"} => attempts'[b].device \in Devices
       /\ \A b \in Attempts : attempts'[b].step = "counted" => Counting(attempts'[b])
  BY <1>15, <1>16 DEF CountInv
<1>18. ~overlapped' => InHandNow' = {}
  BY <1>1, <1>11, <1>15 DEF InHandNow, SessionInv
<1>19. ASSUME ~overlapped'
       PROVE  failures'[o] = DeviceSum(failures')
  <2>1. \A e \in Devices : failures'[e] = IF e = d THEN failures[e] + 1 ELSE failures[e]
    BY <1>1, <1>6, <1>9, <1>12, <1>19
  <2>2. \A e \in Devices : failures[e] \in Nat
    BY <1>4, <1>6
  <2>3. DeviceSum(failures') = DeviceSum(failures) + 1
    BY <2>1, <2>2, SumGrows
  <2>4. failures'[o] = failures[o] + 1
    BY <1>1, <1>6, <1>9, <1>12, <1>19
  <2> QED
    BY <1>1, <1>19, <2>3, <2>4 DEF CountInv, CountersAgree
<1>20. ASSUME ~overlapped', NEW e \in Devices
       PROVE  blocked'[e] <= blocked'[o]
  <2>1. blocked[e] <= blocked[o] /\ blocked[d] <= blocked[o] /\ blocked[o] <= ticks
    BY <1>1, <1>12, <1>20 DEF CountInv, CountersAgree
  <2>2. c[d] <= c[o]
    <3>1. \A f \in Devices : failures[f] \in Nat
      BY <1>4, <1>6
    <3>2. failures[d] <= DeviceSum(failures)
      BY <3>1, PartOfSum
    <3>3. failures[d] <= failures[o]
      BY <1>1, <1>20, <3>2 DEF CountInv, CountersAgree
    <3> QED
      BY <1>1, <1>4, <1>6, <1>12, <1>20, <3>3
  <2>3. pinDelay(c[d]) <= pinDelay(c[o]) /\ pinDelay(c[d]) \in Nat /\ pinDelay(c[o]) \in Nat
    BY <1>2, <1>5, <2>2, DelayGrows
  <2>4. blocked'[o] = IF pinDelay(c[o]) > 0 THEN ticks + pinDelay(c[o]) ELSE blocked[o]
    BY <1>6, <1>9, <1>10
  <2>5. blocked[e] \in Nat /\ blocked[o] \in Nat
    BY <1>4, <1>6
  <2>6. CASE e # d
    <3>1. blocked'[e] = blocked[e]
      BY <1>6, <1>8, <1>9, <2>6
    <3> QED
      BY <1>7, <2>1, <2>3, <2>4, <2>5, <3>1
  <2>7. CASE e = d
    <3>1. blocked'[e] = IF pinDelay(c[d]) > 0 THEN ticks + pinDelay(c[d]) ELSE blocked[d]
      BY <1>6, <1>9, <1>10, <2>7
    <3> QED
      BY <1>7, <2>1, <2>3, <2>4, <2>5, <2>7, <3>1
  <2> QED
    BY <2>6, <2>7
<1>21. CountersAgree'
  BY <1>19, <1>20 DEF CountersAgree
<1>22. ticks' \in Nat
  BY <1>1, <1>7
<1> QED
  BY <1>13, <1>14, <1>17, <1>18, <1>21, <1>22 DEF CountInv

\* A step that deletes the counters and goes on with fewer requests.
LEMMA DeletionKeepsCounts ==
  ASSUME IsFiniteSet(Devices), CountInv,
         failures' = [s \in Scopes |-> 0], blocked' = [s \in Scopes |-> 0], UNCHANGED ticks,
         \A b \in Attempts : attempts'[b] \in {attempts[b], NoAttempt},
         ~overlapped' => InHandNow' = {}
  PROVE  CountInv'
<1>1. CountersAgree'
  BY DeletedCountersAgree, SumOfNothing DEF CountersAgree, Scopes
<1>2. failures' \in [Scopes -> Nat] /\ blocked' \in [Scopes -> Nat] /\ ticks' \in Nat
  BY DEF CountInv
<1>3. NoAttempt.step = "none"
  BY DEF NoAttempt
<1>4. /\ \A b \in Attempts :
           attempts'[b].step \in {"right", "wrong"} => attempts'[b].device \in Devices
      /\ \A b \in Attempts : attempts'[b].step = "counted" => Counting(attempts'[b])
  BY <1>3 DEF CountInv
<1> QED
  BY <1>1, <1>2, <1>4 DEF CountInv

LEMMA CountInvNext ==
  ASSUME IsFiniteSet(Devices), "organization" \notin Devices,
         SessionInv, CountInv, [TagNext \/ PinNext]_terminalVars
  PROVE  CountInv'
<1>1. ASSUME NEW a \in Attempts, SessionCreated(a)
      PROVE  CountInv'
  <2>1. /\ attempts[a].step = "right" /\ attempts' = [attempts EXCEPT ![a] = NoAttempt]
        /\ failures' = [s \in Scopes |-> 0] /\ blocked' = [s \in Scopes |-> 0]
        /\ UNCHANGED <<ticks, overlapped>>
    BY <1>1 DEF SessionCreated
  <2>2. a \in InHandNow
    BY <2>1 DEF InHandNow, NoAttempt
  <2>3. \A b \in Attempts : attempts'[b] = IF b = a THEN NoAttempt ELSE attempts[b]
    BY <2>1 DEF SessionInv
  <2>4. ~overlapped' => InHandNow' = {}
    BY <2>1, <2>2, <2>3 DEF InHandNow, SessionInv
  <2> QED
    BY <2>1, <2>3, <2>4, DeletionKeepsCounts
<1>2. ASSUME NEW new \in Pins, UpdateAdminPIN(new)
      PROVE  CountInv'
  <2>1. /\ UNCHANGED <<attempts, ticks>>
        /\ failures' = [s \in Scopes |-> 0] /\ blocked' = [s \in Scopes |-> 0]
        /\ overlapped' = (overlapped \/ InHandNow # {})
    BY <1>2 DEF UpdateAdminPIN
  <2>2. ~overlapped' => InHandNow' = {}
    BY <2>1 DEF InHandNow, SessionInv
  <2> QED
    BY <2>1, <2>2, DeletionKeepsCounts
<1>3. ASSUME UNCHANGED <<failures, blocked, attempts, overlapped>>, ticks' \in Nat, ticks <= ticks'
      PROVE  CountInv'
  <2>1. InHandNow' = InHandNow
    BY <1>3 DEF InHandNow
  <2>2. CountersAgree'
    BY <1>3 DEF CountInv, CountersAgree
  <2>3. blocked["organization"] \in Nat /\ ticks \in Nat
    BY DEF CountInv, Scopes
  <2>4. blocked["organization"] <= ticks => blocked'["organization"] <= ticks'
    BY <1>3, <2>3
  <2> QED
    BY <1>3, <2>1, <2>2, <2>4 DEF CountInv
<1>4. ticks \in Nat
  BY DEF CountInv
<1>5. CASE TimePasses
  BY <1>3, <1>4, <1>5 DEF TimePasses
<1>6. ASSUME NEW s \in sessions, RequireDeviceAdmin(s) \/ CloseAdminSession(s)
      PROVE  CountInv'
  BY <1>3, <1>4, <1>6 DEF RequireDeviceAdmin, CloseAdminSession
<1>7. CASE TagNext \/ UNCHANGED terminalVars
  <2>1. TagNext => UNCHANGED pinVars
    BY TagsKeepPin
  <2>2. UNCHANGED pinVars
    BY <1>7, <2>1 DEF terminalVars
  <2> QED
    BY <1>3, <1>4, <2>2 DEF pinVars
<1> QED
  BY <1>1, <1>2, <1>5, <1>6, <1>7, RequestKeepsCounts, ReadKeepsCounts, RecordKeepsCounts
     DEF PinNext

\* The devices stay in step with the company, for every number of people,
\* tags, devices and requests at once: the tags they hold are those in force,
\* the active people with a tag stay within the capacity, the failures of the
\* company are the sum of the devices' and it waits as long as any of them,
\* and no session survives its PIN (admin.go, device.go).
THEOREM DevicesStayInStep ==
  ASSUME IsFiniteSet(Staff), IsFiniteSet(Devices), "organization" \notin Devices,
         Capacity \in Nat
  PROVE  TerminalSpec => []TerminalsStayInStep
<1> DEFINE Inv == CacheInv /\ SessionInv /\ CapacityInv /\ CountInv
<1>1. TerminalsInit => Inv
  BY CacheInvInit, SessionInvInit, CapacityInvInit, CountInvInit
<1>2. Inv /\ [TagNext \/ PinNext]_terminalVars => Inv'
  BY CacheInvNext, SessionInvNext, CapacityInvNext, CountInvNext
<1>3. Inv => TerminalsStayInStep
  BY DEF CacheInv, SessionInv, CapacityInv, CountInv, TerminalsStayInStep
<1> QED
  BY <1>1, <1>2, <1>3, PTL DEF TerminalSpec
=============================================================================
