----------------------------- MODULE Simulator -----------------------------
(***************************************************************************)
(* The terminal simulator of the web application with one person's card:   *)
(* its screens, the actions it stores while offline, and their delivery.   *)
(* Every call to the server, and every signature, is asynchronous: its end *)
(* is a step of its own, in any order with the others. One flag, busy, is  *)
(* set by all of them. A signature stands for what it signs, here the      *)
(* number of the action; actions are captured in the order of their        *)
(* numbers. The server's part is the check of a batch and what it decides. *)
(***************************************************************************)
EXTENDS Integers, Sequences, FiniteSets, SequencesExt

CONSTANTS
  ClockIsReread, \* external: whether Angular reads the clock anew for clockTrusted
  MaxQueue,      \* actions the simulator stores at most
  MaxBatch,      \* actions the server takes in a batch
  MaxActions,    \* bound: actions performed
  MaxCalls,      \* bound: calls and signatures under way at once
  MaxSyncs,      \* bound: calls of sync
  MaxBoots       \* bound: starts of the simulator

VARIABLES
  screen,                \* what is shown; a message counts as "idle"
  resolved, holding,     \* the person's state as scanned, "none" without a scan; the calls
                         \* that will set it
  picker,                \* the command the time picker was opened for last
  online, connected, busy,
  ntp, rebooted,         \* "none", "fresh" or older than a day
  boot, sequence, queue, \* what is stored, oldest first
  cache,                 \* the person's state in the cache, "none" without one
  calls,                 \* calls and signatures under way
  made, syncs,           \* actions and sync calls so far
  decided,               \* ghost: actions the server decided
  stored,                \* ghost: actions that were stored
  turnedDown,            \* ghost: some action was answered "rejected"
  entangled              \* ghost: two signatures were under way at once

simVars == <<screen, resolved, holding, picker, online, connected, busy, ntp, rebooted, boot,
             sequence, queue, cache, calls, made, syncs, decided, stored, turnedDown, entangled>>

person == <<resolved, holding>>
link == <<online, connected>>
time == <<ntp, rebooted>>
memory == <<boot, sequence, queue, cache>>
work == <<busy, calls>>
bounds == <<made, syncs>>
ghosts == <<decided, stored, turnedDown, entangled>>

Kinds == {"idle", "working", "long", "on_break"}
Buttons == {"A", "B", "C"}

offlineClockTrusted == ntp = "fresh" /\ ~rebooted

\* What reads no signal is computed once, before the first answer of a server,
\* unless the framework computes it again.
clockTrusted == ClockIsReread /\ offlineClockTrusted

\* A shift of four hours or more is "long": it may be closed earlier.
pressAction(kind, button) ==
  {c \in {"clock_in", "break_start", "break_end", "clock_out", "pick"} :
     \/ kind = "idle" /\ button = "B" /\ c = "clock_in"
     \/ kind \in {"working", "long"} /\ button = "A" /\ c = "break_start"
     \/ kind = "working" /\ button = "C" /\ c = "clock_out"
     \/ kind = "long" /\ button = "B" /\ c = "clock_out"
     \/ kind = "long" /\ button = "C" /\ c = "pick"
     \/ kind = "on_break" /\ button = "A" /\ c = "break_end"
     \/ kind = "on_break" /\ button = "C" /\ c = "pick"}

\* A shift may have become long by now.
refreshedLocalState(kind) == IF kind = "working" THEN {"working", "long"} ELSE {kind}

advanceLocalState(command) ==
  CASE command \in {"clock_in", "break_end"} -> "working"
    [] command = "break_start" -> "on_break"
    [] command = "clock_out" -> "idle"

\* The server refuses a batch that is too long or whose actions of one boot
\* do not follow one another.
BatchAccepted(batch) ==
  /\ Len(batch) <= MaxBatch
  /\ \A i \in 2 .. Len(batch) :
       IF batch[i].boot = batch[i - 1].boot
       THEN batch[i].previous = batch[i - 1].id /\ batch[i - 1].seq < batch[i].seq
       ELSE batch[i].previous = 0

-----------------------------------------------------------------------------
(* Connecting and scanning.                                                *)

Begins(call) ==
  Cardinality(calls) < MaxCalls /\ busy' = TRUE /\ calls' = calls \union {call}
Ended(call) == busy' = FALSE /\ calls' = calls \ {call}
Connecting == [type |-> "connect"]
Scanning == [type |-> "scan"]

\* A message gives way to the idle screen, and takes no button either.
showMessage == screen' = "idle"

\* A scan makes a new object; what is under way keeps the one it began with.
ShowActions(state) == screen' = "actions" /\ resolved' = state /\ holding' = {}

Connect ==
  /\ ~busy /\ Begins(Connecting)
  /\ UNCHANGED <<screen, person, picker, link, time, memory, bounds, ghosts>>

\* The bootstrap answers, then the cache, which holds any state by then; the
\* second may fail, or both.
ConnectEnds(answered, state) ==
  /\ Connecting \in calls /\ Ended(Connecting) /\ showMessage
  /\ connected' = (connected \/ answered # "nothing")
  /\ ntp' = IF answered = "nothing" THEN ntp ELSE "fresh"
  /\ rebooted' = (rebooted /\ answered = "nothing")
  /\ cache' = IF answered = "all" THEN state ELSE cache
  /\ UNCHANGED <<person, picker, online, boot, sequence, queue, bounds, ghosts>>

\* Offline the state in the cache is brought up to date, then shown.
Scan ==
  /\ connected /\ ~busy
  /\ \/ online /\ Begins(Scanning) /\ UNCHANGED <<screen, person, cache>>
     \/ /\ ~online /\ clockTrusted /\ cache # "none"
        /\ \E state \in refreshedLocalState(cache) : cache' = state /\ ShowActions(state)
        /\ UNCHANGED work
     \/ /\ ~online /\ ~(clockTrusted /\ cache # "none")
        /\ showMessage /\ UNCHANGED <<person, cache, work>>
  /\ UNCHANGED <<picker, link, time, boot, sequence, queue, bounds, ghosts>>

ScanEnds(state) ==
  /\ Scanning \in calls /\ Ended(Scanning)
  /\ IF state = "none" THEN showMessage /\ UNCHANGED person ELSE ShowActions(state)
  /\ UNCHANGED <<picker, link, time, memory, bounds, ghosts>>

-----------------------------------------------------------------------------
(* Actions.                                                                *)

\* Online the action is sent; offline it is stored when the clock is trusted
\* and there is room, once it is signed. It follows the last one stored.
execute(command, picked) ==
  LET last == IF queue = <<>> THEN [boot |-> 0, id |-> 0] ELSE Last(queue)
      item == [id |-> made + 1, seq |-> sequence + 1, boot |-> boot,
               previous |-> IF last.boot = boot THEN last.id ELSE 0]
      send == [type |-> "action", number |-> made + 1, command |-> command, picked |-> picked]
      sign == [type |-> "sign", item |-> item, command |-> command, picked |-> picked]
  IN /\ made < MaxActions /\ made' = made + 1 /\ sequence' = sequence + 1
     /\ IF online
        THEN Begins(send) /\ holding' = holding \union {send} /\ UNCHANGED screen
        ELSE IF clockTrusted /\ Len(queue) < MaxQueue
        THEN Begins(sign) /\ holding' = holding \union {sign} /\ UNCHANGED screen
        ELSE showMessage /\ UNCHANGED <<holding, work>>
     /\ UNCHANGED <<resolved, picker, boot, queue, cache, syncs, link, time, ghosts>>

\* The picker keeps what it was opened for, and waits without a limit.
openTimePicker(command) ==
  /\ picker' = command /\ screen' = "time-picker"
  /\ UNCHANGED <<person, link, time, memory, bounds, ghosts, work>>

press(button) ==
  /\ ~busy /\ screen = "actions" /\ resolved # "none"
  /\ \E c \in pressAction(resolved, button) :
       IF c # "pick" THEN execute(c, FALSE)
       ELSE openTimePicker(IF resolved = "on_break" THEN "break_end" ELSE "clock_out")

confirmSelectedTime ==
  ~busy /\ screen = "time-picker" /\ resolved # "none" /\ execute(picker, TRUE)

confirmClose ==
  ~busy /\ screen = "close-confirm" /\ resolved # "none" /\ execute("clock_out", FALSE)

\* What is shown after an action that succeeded. A picked time shows no
\* message: the end of a break asks whether the shift ends too, and the end of
\* a shift leaves the picker where it is.
AfterAction(call) ==
  IF ~call.picked THEN showMessage
  ELSE screen' = IF picker = "break_end" THEN "close-confirm" ELSE screen

\* The object the call holds takes the state; another may be shown by then.
Takes(call, state) ==
  /\ resolved' = IF resolved # "none" /\ call \in holding THEN state ELSE resolved
  /\ holding' = holding \ {call}

StoreAction(call) ==
  /\ call \in calls /\ call.type = "sign" /\ Ended(call)
  /\ queue' = Append(queue, call.item)
  /\ stored' = stored \union {call.item.id}
  /\ Takes(call, advanceLocalState(call.command)) /\ AfterAction(call)
  /\ cache' = IF cache = "none" THEN "none" ELSE advanceLocalState(call.command)
  /\ entangled' = (entangled \/ \E c \in calls \ {call} : c.type = "sign")
  /\ UNCHANGED <<picker, boot, sequence, decided, turnedDown, link, time, bounds>>

\* After a break the server counts the time worked before it.
ActionEnds(call) ==
  /\ call \in calls /\ call.type = "action" /\ Ended(call)
  /\ \E state \in IF call.command = "break_end" THEN {"working", "long"}
                  ELSE {advanceLocalState(call.command)} : Takes(call, state)
  /\ AfterAction(call)
  /\ UNCHANGED <<picker, link, time, memory, bounds, ghosts>>

\* The server refuses, the answer is lost, or nothing is signed.
CallFails(call) ==
  /\ call \in calls /\ call.type \in {"sign", "action", "sync"} /\ Ended(call)
  /\ showMessage /\ holding' = holding \ {call}
  /\ UNCHANGED <<resolved, picker, link, time, memory, bounds, ghosts>>

returnToIdle ==
  /\ screen' = "idle" /\ resolved' = "none" /\ holding' = {}
  /\ UNCHANGED <<picker, link, time, memory, bounds, ghosts, work>>

declineClose == ~busy /\ screen = "close-confirm" /\ returnToIdle

\* A scan starts it, the picker and every message stop it; it still runs when
\* the timer of a message ends the actions.
ActionTimer == screen \in {"actions", "idle"} /\ resolved # "none" /\ returnToIdle

\* Nothing but another message stops the timer of a message: it may end
\* whatever is shown after it.
MessageTimer ==
  /\ screen # "idle" /\ screen' = "idle"
  /\ UNCHANGED <<person, picker, link, time, memory, bounds, ghosts, work>>

-----------------------------------------------------------------------------
(* Delivery.                                                               *)

Synchronize ==
  /\ online /\ queue # <<>> /\ syncs < MaxSyncs
  /\ syncs' = syncs + 1
  /\ Begins([type |-> "sync", number |-> syncs + 1, batch |-> queue, at |-> "sent"])
  /\ UNCHANGED <<made, screen, person, picker, link, time, memory, ghosts>>

\* The server takes the batch, as a whole or not at all, and decides all of it
\* but the actions in missed, whose incident it fails to record.
ServerTakes(call, missed) ==
  LET ids == {call.batch[i].id : i \in DOMAIN call.batch}
  IN /\ call \in calls /\ call.type = "sync" /\ call.at = "sent"
     /\ BatchAccepted(call.batch) /\ missed \subseteq ids \ decided
     /\ decided' = decided \union (ids \ missed)
     /\ turnedDown' = (turnedDown \/ missed # {})
     /\ calls' = (calls \ {call}) \union
                   {[type |-> "sync", number |-> call.number, at |-> "taken", batch |-> call.batch,
                     final |-> ids \ missed]}
     /\ UNCHANGED <<busy, stored, entangled, screen, person, picker, link, time, memory, bounds>>

\* Mistake: the queue is emptied when an answer arrives.
SyncEndsAll(call, state) ==
  /\ call \in calls /\ call.type = "sync" /\ call.at = "taken" /\ Ended(call) /\ showMessage
  /\ queue' = <<>> /\ ntp' = "fresh" /\ cache' = state
  /\ UNCHANGED <<person, picker, rebooted, boot, sequence, link, bounds, ghosts>>

\* What is left of s without the actions in ids, in its order. (SelectSeq, as
\* a function that can be reasoned about.)
Without(s, ids) ==
  LET rest[n \in 0 .. Len(s)] ==
        IF n = 0 THEN <<>>
        ELSE IF s[n].id \in ids THEN rest[n - 1] ELSE Append(rest[n - 1], s[n])
  IN rest[Len(s)]

\* The answer arrives: what was decided leaves the queue. The cache that is
\* downloaded next has a state, or stays as it is when that fails.
SyncEnds(call, state) ==
  /\ call \in calls /\ call.type = "sync" /\ call.at = "taken" /\ Ended(call) /\ showMessage
  /\ queue' = Without(queue, call.final)
  /\ ntp' = "fresh" /\ cache' = state
  /\ UNCHANGED <<person, picker, rebooted, boot, sequence, link, bounds, ghosts>>

-----------------------------------------------------------------------------
(* The surroundings.                                                       *)

toggleOnline ==
  /\ online' = ~online
  /\ IF online' /\ connected THEN Begins(Connecting) ELSE UNCHANGED work
  /\ UNCHANGED <<connected, screen, person, picker, time, memory, bounds, ghosts>>

\* The clock is moved on: the shift that is shown may become long, the last
\* time from the server a day old.
advance ==
  /\ resolved' \in refreshedLocalState(resolved)
  /\ ntp' \in IF ntp = "fresh" THEN {"fresh", "old"} ELSE {ntp}
  /\ UNCHANGED <<holding, rebooted, screen, picker, link, memory, bounds, ghosts, work>>

\* Only what the browser holds is reset; the calls under way go on.
reboot ==
  /\ boot < MaxBoots /\ boot' = boot + 1
  /\ rebooted' = TRUE /\ sequence' = 0
  /\ resolved' = "none" /\ holding' = {} /\ screen' = "idle"
  /\ IF online THEN Begins(Connecting) ELSE UNCHANGED work
  /\ UNCHANGED <<picker, ntp, queue, cache, link, bounds, ghosts>>

SimulatorInit ==
  /\ screen = "idle" /\ resolved = "none" /\ holding = {} /\ picker = "clock_out"
  /\ online = TRUE /\ connected = FALSE /\ busy = FALSE
  /\ ntp = "none" /\ rebooted = FALSE /\ boot = 1 /\ sequence = 0 /\ queue = <<>> /\ cache = "none"
  /\ calls = {} /\ made = 0 /\ syncs = 0
  /\ decided = {} /\ stored = {} /\ turnedDown = FALSE /\ entangled = FALSE

\* A scan finds the person in one of the states of Scanned, a download of the
\* cache in one of Cached.
SimulatorNext(Scanned, Cached) ==
  \/ Connect \/ Scan \/ confirmSelectedTime \/ confirmClose \/ declineClose
  \/ ActionTimer \/ MessageTimer \/ Synchronize \/ toggleOnline \/ advance \/ reboot
  \/ \E answered \in {"nothing", "bootstrap", "all"}, s \in Cached : ConnectEnds(answered, s)
  \/ \E s \in Scanned \union {"none"} : ScanEnds(s)
  \/ \E b \in Buttons : press(b)
  \/ \E call \in calls :
       \/ StoreAction(call) \/ ActionEnds(call) \/ CallFails(call)
       \/ \E missed \in SUBSET stored : ServerTakes(call, missed)
       \/ \E s \in Cached \union {cache} : SyncEnds(call, s)

SimulatorSpec == SimulatorInit /\ [][SimulatorNext(Kinds, Kinds)]_simVars

-----------------------------------------------------------------------------

SimulatorTypes ==
  /\ screen \in {"idle", "actions", "time-picker", "close-confirm"} /\ holding \subseteq calls
  /\ picker \in {"clock_out", "break_end"}
  /\ resolved \in Kinds \union {"none"} /\ cache \in Kinds \union {"none"}
  /\ \A i \in DOMAIN queue : queue[i].id \in 1 .. MaxActions
  /\ decided \subseteq stored /\ stored \subseteq 1 .. MaxActions

\* An action once stored is in the queue until the server has decided it,
\* whatever calls overlap, fail or lose their answer, and through a reboot;
\* and what is queued can be delivered: unless an action was turned down,
\* two were signed at once (any other call that ends frees the buttons while
\* a signature is under way) or there are more than a batch takes, the server
\* accepts the queue whole (the queue of the simulator, the chain of hashes
\* of a batch).
StoredActionsCanBeDelivered ==
  /\ \A id \in stored : id \in decided \/ \E i \in DOMAIN queue : queue[i].id = id
  /\ (~turnedDown /\ ~entangled /\ Len(queue) <= MaxBatch) => BatchAccepted(queue)
=============================================================================
