----------------------------- MODULE KeypadDxe -----------------------------
(***************************************************************************)
(* KeypadDxe: the text input protocols over a keypad device.  The timer    *)
(* polls the device at TPL_NOTIFY and puts its keys into two queues, one   *)
(* for the readers and one for KeyNotifyProcessHandler, which runs at      *)
(* TPL_CALLBACK when its event is signalled and calls the functions        *)
(* registered for a key.  A section at TPL_NOTIFY is one step; the handler *)
(* takes a step per key and per function, between which the timer fires.   *)
(* The driver binding starts and stops all this, a step per resource.      *)
(***************************************************************************)
EXTENDS Integers, Sequences, FiniteSets, SequencesExt

CONSTANTS
    Patterns,         \* the keys clients register: scan and shift, 0 for any
    Functions,        \* their notification functions
    Scans,            \* the scan codes the device returns, "NULL" a partial key
    Capacity,         \* KEYPAD_EFI_KEY_MAX_COUNT - 1
    MaxPoll,          \* bound on the keys of a poll
    MaxList           \* bound on the registrations

QueuesAssumption == Capacity \in Nat /\ MaxPoll \in Nat /\ MaxList \in Nat

KeyData == [scan : Scans, shift : {0}]          \* the device reports no shift state

VARIABLES
    life,         \* the driver on the controller
    have,         \* what it opened, allocated, created and installed
    armed,        \* the periodic timer runs
    EfiKeyQueue, EfiKeyQueueForNotify,
    signalled,    \* KeyNotifyProcessEvent
    hand,         \* the handler, its key and its place in the list
    NotifyList,
    partial,      \* IsSupportPartialKey
    reading,      \* a client is in the loop of KeypadReadKeyStroke
    owed          \* notifications due: a queued key and a registration for it
lvars == <<life, have, armed>>
kvars == <<life, have, armed, EfiKeyQueue, EfiKeyQueueForNotify, signalled, hand, NotifyList,
           partial, reading, owed>>

Idle == [at |-> "idle", key |-> [scan |-> "NULL", shift |-> 0], i |-> 0]
Init ==
    /\ life = "stopped" /\ have = {} /\ armed = FALSE
    /\ EfiKeyQueue = <<>> /\ EfiKeyQueueForNotify = <<>> /\ signalled = FALSE
    /\ hand = Idle /\ NotifyList = <<>> /\ partial = FALSE /\ reading = FALSE /\ owed = {}

IsKeyRegistered(registered, input) ==
    registered.scan = input.scan /\ registered.shift \in {0, input.shift}

\* PushEfikeyBufTail for each: a full queue loses its oldest key.
Pushed(queue, keys) ==
    LET all == queue \o keys IN
    IF Len(all) > Capacity THEN SubSeq(all, Len(all) - Capacity + 1, Len(all)) ELSE all
IsNull(key) == key.scan = "NULL"

Matching(key) == {i \in 1..Len(NotifyList) : IsKeyRegistered(NotifyList[i].key, key)}

\* The handler has the key in hand and the registration before it.
InHand(o) == /\ hand.at = "walk" /\ hand.key = o[1]
             /\ \E i \in hand.i..Len(NotifyList) : NotifyList[i] = o[2]

Taken(key) == ~IsNull(key) \/ partial
Accepted(pushed) == SelectSeq(pushed, Taken)
PolledQueue(pushed) == Pushed(EfiKeyQueue, Accepted(pushed))

\* KeypadReturnApiPushEfikeyBufTail: a key goes to the handler once per
\* registration it matches.  What a full queue loses is no longer owed.
PushForNotify(pushed) ==
    LET for(key) == IF Taken(key) THEN Matching(key) ELSE {}
        copies == FlattenSeq([j \in 1..Len(pushed) |->
                                 [c \in 1..Cardinality(for(pushed[j])) |-> pushed[j]]])
        lost == Len(EfiKeyQueueForNotify) + Len(copies) > Capacity
        due == owed \cup UNION {{<<k, NotifyList[i]>> : i \in for(k)} : k \in ToSet(pushed)}
    IN
    /\ EfiKeyQueueForNotify' = Pushed(EfiKeyQueueForNotify, copies)
    /\ signalled' = (signalled \/ copies # <<>>)
    /\ owed' = {o \in due : lost => o[1] \in ToSet(EfiKeyQueueForNotify') \/ InHand(o)}

\* What the device returned at a poll.
Polls == UNION {[1..n -> KeyData] : n \in 0..MaxPoll}

KeypadTimerHandler ==
    /\ armed
    /\ \E pushed \in Polls : PushForNotify(pushed) /\ EfiKeyQueue' = PolledQueue(pushed)
    /\ UNCHANGED <<lvars, hand, NotifyList, partial, reading>>

(* The protocols; a notification function may call all of them but unregister *)

Serving == life = "running"
Calls == Serving /\ (reading => hand.at = "walk")

\* KeypadReadKeyStrokeWorker polls and takes a key.
KeypadReadKeyStrokeEx ==
    /\ Calls
    /\ \E pushed \in Polls :
          /\ PushForNotify(pushed)
          /\ EfiKeyQueue' = LET q == PolledQueue(pushed) IN IF q = <<>> THEN q ELSE Tail(q)
    /\ UNCHANGED <<lvars, hand, NotifyList, partial, reading>>

\* A turn of the loop, which goes on while it finds partial keys.
KeypadReadKeyStroke ==
    /\ Serving
    /\ \E pushed \in Polls :
          LET q == PolledQueue(pushed) IN
          /\ PushForNotify(pushed)
          /\ EfiKeyQueue' = IF q = <<>> THEN q ELSE Tail(q)
          /\ reading' = (q # <<>> /\ IsNull(q[1]))
    /\ UNCHANGED <<lvars, hand, NotifyList, partial>>

\* Takes the partial keys at the head of the queue.
KeypadWaitForKey ==
    /\ Serving
    /\ \E pushed \in Polls :
          LET q == PolledQueue(pushed)
              kept == {i \in 1..Len(q) : ~IsNull(q[i])}
          IN
          /\ PushForNotify(pushed)
          /\ EfiKeyQueue' = IF kept = {} THEN <<>>
                            ELSE SubSeq(q, CHOOSE i \in kept : \A j \in kept : i <= j, Len(q))
    /\ UNCHANGED <<lvars, hand, NotifyList, partial, reading>>

InitKeypad ==
    /\ EfiKeyQueue' = <<>> /\ EfiKeyQueueForNotify' = <<>> /\ partial' = FALSE
    /\ owed' = {o \in owed : InHand(o)}
KeypadEfiReset ==
    /\ Calls /\ InitKeypad
    /\ UNCHANGED <<lvars, signalled, hand, NotifyList, reading>>

\* Only the partial keys of the toggle state matter to the rest.
KeypadSetState ==
    /\ Calls /\ partial' \in BOOLEAN
    /\ UNCHANGED <<lvars, EfiKeyQueue, EfiKeyQueueForNotify, signalled, hand, NotifyList,
                   reading, owed>>

\* A registration that covers the key is taken for the one asked for.
KeypadRegisterKeyNotify ==
    /\ Calls
    /\ \E key \in Patterns, fn \in Functions :
          /\ \A i \in 1..Len(NotifyList) :
                ~(IsKeyRegistered(NotifyList[i].key, key) /\ NotifyList[i].fn = fn)
          /\ Len(NotifyList) < MaxList
          /\ NotifyList' = Append(NotifyList, [key |-> key, fn |-> fn])
    /\ UNCHANGED <<lvars, EfiKeyQueue, EfiKeyQueueForNotify, signalled, hand, partial, reading,
                   owed>>

KeypadUnregisterKeyNotify ==
    /\ Serving /\ ~reading /\ hand.at = "idle"
    /\ \E i \in 1..Len(NotifyList) :
          /\ NotifyList' = RemoveAt(NotifyList, i)
          /\ owed' = {o \in owed : o[2] # NotifyList[i]}
    /\ UNCHANGED <<lvars, EfiKeyQueue, EfiKeyQueueForNotify, signalled, hand, partial, reading>>

(* KeyNotifyProcessHandler *)

HandlerStarts ==
    /\ signalled /\ hand.at = "idle"
    /\ signalled' = FALSE /\ hand' = [hand EXCEPT !.at = "pop"]
    /\ UNCHANGED <<lvars, EfiKeyQueue, EfiKeyQueueForNotify, NotifyList, partial, reading, owed>>

\* It returns when the queue is empty.
HandlerPops ==
    /\ hand.at = "pop"
    /\ IF EfiKeyQueueForNotify = <<>> THEN hand' = Idle /\ UNCHANGED EfiKeyQueueForNotify
       ELSE /\ hand' = [at |-> "walk", key |-> Head(EfiKeyQueueForNotify), i |-> 1]
            /\ EfiKeyQueueForNotify' = Tail(EfiKeyQueueForNotify)
    /\ UNCHANGED <<lvars, EfiKeyQueue, signalled, NotifyList, partial, reading, owed>>

\* Mutant: one key for each signal.
OneKeyPerSignal == Idle
NextKey == [Idle EXCEPT !.at = "pop"]

\* The next registration, whose function is called if the key is its own.
HandlerWalks ==
    /\ hand.at = "walk"
    /\ IF hand.i > Len(NotifyList) THEN hand' = NextKey /\ UNCHANGED owed
       ELSE /\ hand' = [hand EXCEPT !.i = @ + 1]
            /\ owed' = IF IsKeyRegistered(NotifyList[hand.i].key, hand.key)
                       THEN owed \ {<<hand.key, NotifyList[hand.i]>>} ELSE owed
    /\ UNCHANGED <<lvars, EfiKeyQueue, EfiKeyQueueForNotify, signalled, NotifyList, partial,
                   reading>>
KeyNotifyProcessHandler == HandlerStarts \/ HandlerPops \/ HandlerWalks

(* The driver binding *)

\* What KeypadControllerDriverStart obtains, in order; SetTimer arms the
\* timer and Reset cannot fail.
StartSteps == <<"KeypadDevice", "ConsoleIn", "WaitForKey", "WaitForKeyEx", "TimerEvent",
                "SetTimer", "KeyNotifyProcessEvent", "Reset", "protocols">>
Obtained == {StartSteps[i] : i \in 1..Len(StartSteps)} \ {"SetTimer", "Reset"}

KeypadControllerDriverSupported == "KeypadDevice" \notin have
StartBegins ==
    /\ life = "stopped" /\ KeypadControllerDriverSupported
    /\ life' = "KeypadDevice"
    /\ UNCHANGED <<have, armed, EfiKeyQueue, EfiKeyQueueForNotify, signalled, hand, NotifyList,
                   partial, reading, owed>>

Starting(step) == life = step
After(step) == LET i == CHOOSE j \in 1..Len(StartSteps) : StartSteps[j] = step IN
               IF i = Len(StartSteps) THEN "running" ELSE StartSteps[i + 1]
StartProceeds(step) ==
    /\ Starting(step) /\ life' = After(step)
    /\ have' = have \cup ({step} \cap Obtained)
    /\ armed' = (armed \/ step = "SetTimer")
    /\ IF step = "Reset" THEN InitKeypad
       ELSE UNCHANGED <<EfiKeyQueue, EfiKeyQueueForNotify, partial, owed>>
    /\ UNCHANGED <<signalled, hand, NotifyList, reading>>

Freed == /\ EfiKeyQueue' = <<>> /\ EfiKeyQueueForNotify' = <<>> /\ signalled' = FALSE
         /\ hand' = Idle /\ NotifyList' = <<>> /\ partial' = FALSE /\ owed' = {}

\* Mutant: the event created last is left open.
ErrorExitButNotify == Obtained \ {"KeyNotifyProcessEvent"}
\* ErrorExit closes and frees what there is; the protocols were not installed.
ErrorExit == Obtained \ {"protocols"}

\* Without a context, ErrorExit takes the list of a null pointer.
StartFails(step) ==
    /\ Starting(step) /\ step # "Reset"
    /\ life' = IF step = "KeypadDevice" THEN "stopped"
               ELSE IF step = "ConsoleIn" THEN "faulted" ELSE "stopped"
    /\ have' = IF step = "ConsoleIn" THEN have ELSE have \ ErrorExit
    /\ armed' = (armed /\ "TimerEvent" \in have')
    /\ Freed /\ UNCHANGED reading

\* KeypadControllerDriverStop: the timer goes first, then the protocols,
\* which may be refused, and then the rest.
StopBegins ==
    /\ Serving /\ ~reading /\ hand.at = "idle"
    /\ life' = "stopping" /\ have' = have \ {"TimerEvent"} /\ armed' = FALSE
    /\ UNCHANGED <<EfiKeyQueue, EfiKeyQueueForNotify, signalled, hand, NotifyList, partial,
                   reading, owed>>
StopEnds ==
    /\ life = "stopping" /\ hand.at = "idle"
    /\ \/ /\ life' = "running"
          /\ UNCHANGED <<have, EfiKeyQueue, EfiKeyQueueForNotify, signalled, hand, NotifyList,
                         partial, owed>>
       \/ life' = "stopped" /\ have' = {} /\ Freed
    /\ UNCHANGED <<armed, reading>>

Binding ==
    \/ StartBegins \/ StopBegins \/ StopEnds
    \/ \E i \in 1..Len(StartSteps) : StartProceeds(StartSteps[i]) \/ StartFails(StartSteps[i])

KeypadStep ==
    \/ Binding \/ KeypadTimerHandler \/ KeyNotifyProcessHandler
    \/ KeypadReadKeyStrokeEx \/ KeypadReadKeyStroke \/ KeypadWaitForKey
    \/ KeypadEfiReset \/ KeypadSetState \/ KeypadRegisterKeyNotify \/ KeypadUnregisterKeyNotify

(* Properties *)

\* A function registered for a key that was pressed is still to be called
\* with it, unless a full queue or a reset dropped the key, and the handler
\* is on its way while there is a key for it (Keypad.c 159-201,
\* KeypadTextIn.c 660-699).
NotificationNotLost ==
    /\ \A o \in owed : o[1] \in ToSet(EfiKeyQueueForNotify) \/ InHand(o)
    /\ EfiKeyQueueForNotify # <<>> => signalled \/ hand.at # "idle"

\* A stopped driver, whether a start failed or a stop succeeded, has left
\* nothing open, armed, installed or registered, and one that runs lacks
\* nothing but the timer a refused stop took (Keypad.c 214-514).
NothingLeftBehind ==
    /\ life = "stopped" => have = {} /\ ~armed /\ NotifyList = <<>> /\ ~signalled
    /\ life = "running" => Obtained \ {"TimerEvent"} \subseteq have
    /\ armed => {"ConsoleIn", "TimerEvent"} \subseteq have
=============================================================================
