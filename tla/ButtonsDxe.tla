------------------------------ MODULE ButtonsDxe ------------------------------
(***************************************************************************)
(* The console input driver: src/Driver/ButtonsDxe/ButtonsDxe.c with the   *)
(* platform half in src/Library/ButtonsLib/ButtonsLib.c.                   *)
(*                                                                         *)
(* One CPU runs everything.  The application (console, boot manager) calls *)
(* the two text input protocols at TPL_APPLICATION; the driver's periodic  *)
(* timer runs PollForKeyCallback at TPL_CALLBACK and may preempt the       *)
(* application between any two of its steps, never the other way round.    *)
(* What the code does with the TPL raised (KeysDxeReadKeyStroke,           *)
(* WaitForKeyCallback, PollForKeyCallback) is one action; what it does     *)
(* with the TPL down (KeysDxeReset, KeysDxeReadKeyStrokeEx's notify loop,  *)
(* registration) is one action per step the timer can observe.             *)
(*                                                                         *)
(* Notification functions are assumed not to call back into the driver.    *)
(* made, unread, delivered, sessionKeys and calls are history variables:   *)
(* no action of the driver reads them.                                     *)
(***************************************************************************)
EXTENDS Integers, Sequences, FiniteSets

Lists == INSTANCE SequencesExt

CONSTANTS
    MAX_KEYS_TO_BUFFER,         \* slots of each key ring (32 in the code)
    MAX_KEYS_PRESSED_RELEASED,  \* slots of keysPressed (7 in the code)
    Pressable,                  \* the buttons the user can hold down
    Fns,                        \* notification functions
    RegCodes,                   \* key codes clients register for
    Nodes,                      \* notify records the pool can hand out
    AppOps,                     \* the protocol calls the application makes
    MaxKeys,                    \* bound: EFI keys generated in a behaviour
    MaxUnread,                  \* bound: keys the user types ahead of a reader
    MaxResets,                  \* bound: KeysDxeReset calls in a behaviour
    Reregister                  \* clients register again after the last one left

(* The 8x09 key map, in the order PollButtonArray fills the button array. *)
keyMap == <<"PWR", "VOL_UP", "VOL_DOWN">>
Buttons == {"PWR", "VOL_UP", "VOL_DOWN"}
NONE == "NONE"

EfiCodes == {"SCAN_UP", "SCAN_DOWN", "SCAN_HOME", "SCAN_DELETE", "CHAR_CARRIAGE_RETURN"}
SCAN_NULL == "SCAN_NULL"

FreeNode == [code |-> SCAN_NULL, fn |-> NONE]

Ops == {"Wait", "Read", "ReadEx", "Reset", "Register", "Unregister"}

ASSUME ConstantsAssumption ==
    /\ MAX_KEYS_TO_BUFFER \in Nat \ {0}
    /\ MAX_KEYS_PRESSED_RELEASED \in 3 .. 255   \* a slot for every button, counted in 8 bits
    /\ Pressable \subseteq Buttons
    /\ RegCodes \subseteq EfiCodes
    /\ AppOps \subseteq Ops
    /\ MaxKeys \in Nat
    /\ MaxUnread \in Nat
    /\ MaxResets \in Nat
    /\ Reregister \in BOOLEAN
    /\ "none" \notin Nodes

VARIABLES
    matrix,            \* [{"A","B"} -> SUBSET Buttons]: matrixA and matrixB
    curr,              \* which of them pCurrButtonArray points to
    keysPressed,       \* slot -> button or NONE
    numOfKeysPressed,  \* UINT8
    isEfiKeyDetected,  \* this press session already produced its key
    keyRing,           \* keyBuffer with its read and write cursors
    timerRing,         \* TimerEfiKeyBuffer with its cursors
    TimerRunning,
    CallbackTimer,     \* "idle", "armed" or "closed"
    NotifyList,        \* nodes in registration order
    registration,      \* node -> [code, fn] of an allocated node, else FreeNode
    numOfKeyRegistrations,
    handles,           \* nodes whose handle the application was given
    pc,                \* the application's place inside a multi-step call
    arg,               \* the key or the node that call works on
    resets,            \* KeysDxeReset calls so far
    made,              \* history: EFI keys generated so far
    unread,            \* history: keys put in keyBuffer, not read nor reset
    delivered,         \* history: the key the console read last
    sessionKeys,       \* history: EFI keys of the current press session
    calls              \* history: <<key, fn>> -> number of notifications

matrixVars == <<matrix, curr, keysPressed, numOfKeysPressed, isEfiKeyDetected>>
listVars == <<NotifyList, registration, numOfKeyRegistrations, handles>>
timerVars == <<TimerRunning, CallbackTimer>>
historyVars == <<made, unread, delivered, sessionKeys, calls>>
vars == <<matrixVars, keyRing, timerRing, timerVars, listVars, pc, arg, resets, historyVars>>

-----------------------------------------------------------------------------
(* Key rings. A key carries the ordinal of its generation to tell it apart. *)

Index == 0 .. MAX_KEYS_TO_BUFFER - 1
Key == [code : EfiCodes \cup {SCAN_NULL}, id : Nat]
NoKey == [code |-> SCAN_NULL, id |-> 0]
Ring == [buf : [Index -> Key], read : Index, write : Index]

EmptyRing == [buf |-> [i \in Index |-> NoKey], read |-> 0, write |-> 0]
(* Mutant: the cursor wraps one slot late. *)
StepWrapsLate(i) == IF i + 1 > MAX_KEYS_TO_BUFFER THEN 0 ELSE i + 1
Step(i) == IF i + 1 >= MAX_KEYS_TO_BUFFER THEN 0 ELSE i + 1
Pending(ring) == ring.read # ring.write
Waiting(ring) == (ring.write - ring.read) % MAX_KEYS_TO_BUFFER
Push(ring, key) == [ring EXCEPT !.buf[ring.write] = key, !.write = Step(ring.write)]
(* Mutant: the cursor moves before the key is read. *)
FrontAfterAdvance(ring) == ring.buf[Step(ring.read)]
Front(ring) == ring.buf[ring.read]
Pop(ring) == [ring EXCEPT !.read = Step(ring.read)]

-----------------------------------------------------------------------------
(* The array of pressed keys, and its unsigned 8-bit counter. *)

Slot == 1 .. MAX_KEYS_PRESSED_RELEASED
NoKeys == [i \in Slot |-> NONE]
Pressed(slots) == {i \in Slot : slots[i] # NONE}
FirstWith(slots, key) ==
    CHOOSE i \in Slot : slots[i] = key /\ \A j \in Slot : slots[j] = key => i <= j
Holds(slots, key) == \E i \in Slot : slots[i] = key
UINT8(n) == (n + 256) % 256

(* s is keysPressed with numOfKeysPressed. *)
StoreAKey(s, key) ==
    IF Holds(s.slots, NONE)
    THEN [slots |-> [s.slots EXCEPT ![FirstWith(s.slots, NONE)] = key], num |-> UINT8(s.num + 1)]
    ELSE s
(* Mutant: the counter is not taken down. *)
RemoveAKeyUncounted(s, key) ==
    IF Holds(s.slots, key) THEN [s EXCEPT !.slots[FirstWith(s.slots, key)] = NONE] ELSE s
RemoveAKey(s, key) ==
    IF Holds(s.slots, key)
    THEN [slots |-> [s.slots EXCEPT ![FirstWith(s.slots, key)] = NONE], num |-> UINT8(s.num - 1)]
    ELSE s

(* One turn of ProcessArray's loop: the key differs between the arrays. *)
ProcessKey(s, key, now, before) ==
    IF (key \in now) = (key \in before) THEN s
    ELSE IF key \in now THEN StoreAKey(s, key) ELSE RemoveAKey(s, key)
ProcessArray(s, now, before) ==
    ProcessKey(ProcessKey(ProcessKey(s, keyMap[1], now, before), keyMap[2], now, before),
               keyMap[3], now, before)

(* The 8x09 rows of ConvertEfiKeyCode's table: camera, focus, home and the  *)
(* rotate lock are not in the key map, so their tests are always false.     *)
EfiKeyOf(slots) ==
    LET pwr == Holds(slots, "PWR") IN
    IF Holds(slots, "VOL_UP") THEN IF pwr THEN "SCAN_HOME" ELSE "SCAN_UP"
    ELSE IF Holds(slots, "VOL_DOWN") THEN IF pwr THEN "SCAN_DELETE" ELSE "SCAN_DOWN"
    ELSE IF pwr THEN "CHAR_CARRIAGE_RETURN" ELSE SCAN_NULL

(* Mutant: a change that produces no key forgets the session's key. *)
ConvertForgets(s, detected) ==
    LET key == IF detected THEN SCAN_NULL ELSE EfiKeyOf(s.slots) IN
    [key |-> key, detected |-> key # SCAN_NULL]
(* The EFI key this change of the pressed keys produces, and the flag after. *)
ConvertEfiKeyCode(s, detected) ==
    LET key == IF detected THEN SCAN_NULL ELSE EfiKeyOf(s.slots) IN
    [key |-> key, detected |-> s.num # 0 /\ (detected \/ key # SCAN_NULL)]

-----------------------------------------------------------------------------
(* PollForKey, which every read goes through. The buttons in held are down; *)
(* good of the three reads of PollButtonArray succeed before one fails      *)
(* (3: none fails), and a failed poll leaves what it read in the array.     *)

prev == IF curr = "A" THEN "B" ELSE "A"
Scratch(held, good) ==
    {k \in Buttons : \E i \in 1 .. 3 : k = keyMap[i] /\ (IF i <= good THEN k \in held ELSE k \in matrix[curr])}
PressedNow(held) ==
    ProcessArray([slots |-> keysPressed, num |-> numOfKeysPressed], held, matrix[prev])
KeyFound(held, good) ==
    IF good = 3 /\ held # matrix[prev]
    THEN ConvertEfiKeyCode(PressedNow(held), isEfiKeyDetected).key
    ELSE SCAN_NULL

(* What a poll does to the matrix and to the history of generated keys. *)
Poll(held, good) ==
    LET s == PressedNow(held)
        code == KeyFound(held, good)
        changed == good = 3 /\ held # matrix[prev] IN
    /\ code # SCAN_NULL => made < MaxKeys /\ unread < MaxUnread /\ Waiting(timerRing) < MaxUnread
    /\ matrix' = [matrix EXCEPT ![curr] = Scratch(held, good)]
    /\ curr' = IF good = 3 THEN prev ELSE curr
    /\ keysPressed' = IF good = 3 THEN s.slots ELSE keysPressed
    /\ numOfKeysPressed' = IF good = 3 THEN s.num ELSE numOfKeysPressed
    /\ isEfiKeyDetected' = IF changed THEN ConvertEfiKeyCode(s, isEfiKeyDetected).detected
                                      ELSE isEfiKeyDetected
    /\ made' = IF code # SCAN_NULL THEN made + 1 ELSE made
    /\ sessionKeys' = IF good = 3 /\ held = {} THEN 0
                      ELSE IF code # SCAN_NULL THEN sessionKeys + 1 ELSE sessionKeys

(* The rings after that poll: a key found goes to the console ring, and to  *)
(* the timer ring as well while the timer runs.                             *)
NewKey(held, good) == [code |-> KeyFound(held, good), id |-> made + 1]
KeyRingAfter(held, good) ==
    IF KeyFound(held, good) = SCAN_NULL THEN keyRing ELSE Push(keyRing, NewKey(held, good))
TimerRingAfter(held, good) ==
    IF KeyFound(held, good) = SCAN_NULL \/ ~TimerRunning THEN timerRing
    ELSE Push(timerRing, NewKey(held, good))

(* KeysDxeReadKeyStroke's body with the TPL raised: the key it returns, and *)
(* what it leaves in keyRing when it advances the read cursor or not.       *)
KeyReady(held, good) == KeyFound(held, good) # SCAN_NULL \/ Pending(KeyRingAfter(held, good))
Unread(held, good) == unread + (IF KeyFound(held, good) # SCAN_NULL THEN 1 ELSE 0)

(* The notify loop: every listed registration of this key is called. *)
IsKeyRegistered(node, key) == registration[node].code = key.code
Matching(key) == {n \in {NotifyList[i] : i \in DOMAIN NotifyList} : IsKeyRegistered(n, key)}
Notified(key) ==
    [c \in (1 .. MaxKeys) \X Fns |->
        calls[c] + (IF c[1] = key.id
                    THEN Cardinality({n \in Matching(key) : registration[n].fn = c[2]})
                    ELSE 0)]

-----------------------------------------------------------------------------
Init ==
    /\ matrix = [m \in {"A", "B"} |-> {}] /\ curr = "A"
    /\ keysPressed = NoKeys /\ numOfKeysPressed = 0 /\ isEfiKeyDetected = FALSE
    /\ keyRing = EmptyRing /\ timerRing = EmptyRing
    /\ TimerRunning = FALSE /\ CallbackTimer = "idle"
    /\ NotifyList = <<>> /\ registration = [n \in Nodes |-> FreeNode]
    /\ numOfKeyRegistrations = 0 /\ handles = {}
    /\ pc = "idle" /\ arg = NONE /\ resets = 0
    /\ made = 0 /\ unread = 0 /\ delivered = NoKey /\ sessionKeys = 0
    /\ calls = [c \in (1 .. MaxKeys) \X Fns |-> 0]

(* The callback of the EVT_NOTIFY_WAIT event: polls, reads nothing. *)
WaitForKeyCallback(held, good) ==
    /\ pc = "idle" /\ "Wait" \in AppOps
    /\ Poll(held, good)
    /\ keyRing' = KeyRingAfter(held, good)
    /\ timerRing' = TimerRingAfter(held, good)
    /\ unread' = Unread(held, good)
    /\ UNCHANGED <<timerVars, listVars, pc, arg, resets, delivered, calls>>

(* The read both protocols share, called with TimerRKStroke FALSE. *)
ReadAndConsume(held, good) ==
    /\ Poll(held, good)
    /\ keyRing' = IF KeyReady(held, good) THEN Pop(KeyRingAfter(held, good)) ELSE keyRing
    /\ timerRing' = TimerRingAfter(held, good)
    /\ unread' = IF KeyReady(held, good) THEN Unread(held, good) - 1 ELSE unread
    /\ delivered' = IF KeyReady(held, good) THEN Front(KeyRingAfter(held, good)) ELSE delivered

KeysDxeReadKeyStroke(held, good) ==
    /\ pc = "idle" /\ "Read" \in AppOps
    /\ ReadAndConsume(held, good)
    /\ UNCHANGED <<timerVars, listVars, pc, arg, resets, calls>>

(* KeysDxeReadKeyStrokeEx from the application: the read, then, back at     *)
(* TPL_APPLICATION, the notify loop.                                        *)
KeysDxeReadKeyStrokeEx(held, good) ==
    /\ pc = "idle" /\ "ReadEx" \in AppOps
    /\ ReadAndConsume(held, good)
    /\ IF KeyReady(held, good)
       THEN pc' = "notify" /\ arg' = Front(KeyRingAfter(held, good))
       ELSE UNCHANGED <<pc, arg>>
    /\ UNCHANGED <<timerVars, listVars, resets, calls>>

ReadExNotify ==
    /\ pc = "notify"
    /\ calls' = Notified(arg)
    /\ pc' = "idle" /\ arg' = NONE
    /\ UNCHANGED <<matrixVars, keyRing, timerRing, timerVars, listVars, resets, made, unread, delivered, sessionKeys>>

(* Mutant: the tick reads the timer ring and leaves the key in it. *)
PollKeepsKey(held, good) ==
    LET ring == TimerRingAfter(held, good)
        ready == KeyFound(held, good) # SCAN_NULL \/ Pending(ring) IN
    /\ CallbackTimer = "armed"
    /\ Poll(held, good)
    /\ keyRing' = KeyRingAfter(held, good)
    /\ unread' = Unread(held, good)
    /\ timerRing' = ring
    /\ calls' = IF ready THEN Notified(Front(ring)) ELSE calls
    /\ UNCHANGED <<timerVars, listVars, pc, arg, resets, delivered>>
(* Mutant: the tick looks at the timer ring only when its poll found a key. *)
PollSeesNewOnly(held, good) ==
    LET ring == TimerRingAfter(held, good)
        ready == KeyFound(held, good) # SCAN_NULL IN
    /\ CallbackTimer = "armed"
    /\ Poll(held, good)
    /\ keyRing' = KeyRingAfter(held, good)
    /\ unread' = Unread(held, good)
    /\ timerRing' = IF ready THEN Pop(ring) ELSE ring
    /\ calls' = IF ready THEN Notified(Front(ring)) ELSE calls
    /\ UNCHANGED <<timerVars, listVars, pc, arg, resets, delivered>>
(* PollForKeyCallback: the timer's tick, which runs to completion at        *)
(* TPL_CALLBACK wherever the application is. It reads with TimerRKStroke    *)
(* TRUE: the console cursor stays, and the key comes from the timer ring.   *)
PollForKeyCallback(held, good) ==
    LET ring == TimerRingAfter(held, good)
        ready == KeyFound(held, good) # SCAN_NULL \/ Pending(ring) IN
    /\ CallbackTimer = "armed"
    /\ Poll(held, good)
    /\ keyRing' = KeyRingAfter(held, good)
    /\ unread' = Unread(held, good)
    /\ timerRing' = IF ready THEN Pop(ring) ELSE ring
    /\ calls' = IF ready THEN Notified(Front(ring)) ELSE calls
    /\ UNCHANGED <<timerVars, listVars, pc, arg, resets, delivered>>

(* KeysDxeResetCommon, one action per store the timer can fall between.     *)
ResetTo(from, to) ==
    /\ pc = from /\ pc' = to
    /\ UNCHANGED <<curr, timerVars, listVars, arg, made, delivered, sessionKeys, calls>>

ResetKeyWrite ==
    /\ "Reset" \in AppOps /\ resets < MaxResets
    /\ ResetTo("idle", "resetKeyRead")
    /\ keyRing' = [keyRing EXCEPT !.write = 0]
    /\ resets' = resets + 1
    /\ unread' = 0
    /\ UNCHANGED <<matrix, keysPressed, numOfKeysPressed, isEfiKeyDetected, timerRing>>
ResetKeyRead ==
    /\ ResetTo("resetKeyRead", "resetCount")
    /\ keyRing' = [keyRing EXCEPT !.read = 0]
    /\ UNCHANGED <<matrix, keysPressed, numOfKeysPressed, isEfiKeyDetected, timerRing, unread, resets>>
ResetCount ==
    /\ ResetTo("resetCount", "resetTimerWrite")
    /\ numOfKeysPressed' = 0
    /\ UNCHANGED <<matrix, keysPressed, isEfiKeyDetected, keyRing, timerRing, unread, resets>>
ResetTimerWrite ==
    /\ ResetTo("resetTimerWrite", "resetTimerRead")
    /\ timerRing' = [timerRing EXCEPT !.write = 0]
    /\ UNCHANGED <<matrix, keysPressed, numOfKeysPressed, isEfiKeyDetected, keyRing, unread, resets>>
ResetTimerRead ==
    /\ ResetTo("resetTimerRead", "resetMatrixA")
    /\ timerRing' = [timerRing EXCEPT !.read = 0]
    /\ UNCHANGED <<matrix, keysPressed, numOfKeysPressed, isEfiKeyDetected, keyRing, unread, resets>>
ResetMatrix(m, from, to) ==
    /\ ResetTo(from, to)
    /\ matrix' = [matrix EXCEPT ![m] = {}]
    /\ UNCHANGED <<keysPressed, numOfKeysPressed, isEfiKeyDetected, keyRing, timerRing, unread, resets>>
ResetKeysPressed ==
    /\ ResetTo("resetKeysPressed", "resetDetection")
    /\ keysPressed' = NoKeys
    /\ UNCHANGED <<matrix, numOfKeysPressed, isEfiKeyDetected, keyRing, timerRing, unread, resets>>
(* The history of the press session starts over with the driver's state. *)
ResetDetection ==
    /\ pc = "resetDetection" /\ pc' = "idle"
    /\ isEfiKeyDetected' = FALSE
    /\ sessionKeys' = 0
    /\ UNCHANGED <<matrix, curr, keysPressed, numOfKeysPressed, keyRing, timerRing, timerVars,
                   listVars, arg, resets, made, unread, delivered, calls>>

KeysDxeResetCommon ==
    \/ ResetKeyWrite \/ ResetKeyRead \/ ResetCount \/ ResetTimerWrite \/ ResetTimerRead
    \/ ResetMatrix("A", "resetMatrixA", "resetMatrixB")
    \/ ResetMatrix("B", "resetMatrixB", "resetKeysPressed")
    \/ ResetKeysPressed \/ ResetDetection

-----------------------------------------------------------------------------
(* Registration. A node is allocated, linked and counted; the first one     *)
(* then arms the timer, whose first expiry is a whole period away.          *)

Listed == {NotifyList[i] : i \in DOMAIN NotifyList}
Registered(code, fn) == {n \in Listed : registration[n] = [code |-> code, fn |-> fn]}

RegisterAgain(code, fn) ==
    /\ pc = "idle" /\ "Register" \in AppOps
    /\ \E n \in Registered(code, fn) : handles' = handles \cup {n}
    /\ UNCHANGED <<matrixVars, keyRing, timerRing, timerVars, NotifyList, registration,
                   numOfKeyRegistrations, pc, arg, resets, historyVars>>

KeysDxeRegisterKeyNotify(code, fn, n) ==
    /\ pc = "idle" /\ "Register" \in AppOps
    /\ CallbackTimer = "closed" => Reregister
    /\ Registered(code, fn) = {}
    /\ registration[n] = FreeNode
    /\ registration' = [registration EXCEPT ![n] = [code |-> code, fn |-> fn]]
    /\ NotifyList' = Append(NotifyList, n)
    /\ numOfKeyRegistrations' = UINT8(numOfKeyRegistrations + 1)
    /\ pc' = "register" /\ arg' = n
    /\ UNCHANGED <<matrixVars, keyRing, timerRing, timerVars, handles, resets, historyVars>>

(* SetTimer fails on an event that was closed: the handle is not returned.  *)
SetCallbackTimer ==
    /\ pc = "register"
    /\ pc' = "idle" /\ arg' = NONE
    /\ IF numOfKeyRegistrations # 1
       THEN handles' = handles \cup {arg} /\ UNCHANGED timerVars
       ELSE IF CallbackTimer = "closed"
       THEN UNCHANGED <<handles, timerVars>>
       ELSE handles' = handles \cup {arg} /\ CallbackTimer' = "armed" /\ TimerRunning' = TRUE
    /\ UNCHANGED <<matrixVars, keyRing, timerRing, NotifyList, registration,
                   numOfKeyRegistrations, resets, historyVars>>

(* Mutant: the node is freed before it is unlinked. *)
UnregisterFreesFirst(n) ==
    /\ pc = "idle" /\ "Unregister" \in AppOps
    /\ n \in handles \cap Listed
    /\ registration' = [registration EXCEPT ![n] = FreeNode]
    /\ handles' = handles \ {n}
    /\ pc' = "unregister" /\ arg' = n
    /\ UNCHANGED <<matrixVars, keyRing, timerRing, timerVars, NotifyList,
                   numOfKeyRegistrations, resets, historyVars>>
KeysDxeUnregisterKeyNotify(n) ==
    /\ pc = "idle" /\ "Unregister" \in AppOps
    /\ n \in handles \cap Listed
    /\ \E i \in DOMAIN NotifyList :
          NotifyList[i] = n /\ NotifyList' = Lists!RemoveAt(NotifyList, i)
    /\ handles' = handles \ {n}
    /\ pc' = "unregister" /\ arg' = n
    /\ UNCHANGED <<matrixVars, keyRing, timerRing, timerVars, registration,
                   numOfKeyRegistrations, resets, historyVars>>

(* Mutant: the timer is closed with one registration left. *)
FreeNotifyClosesEarly ==
    /\ pc = "unregister"
    /\ registration' = [registration EXCEPT ![arg] = FreeNode]
    /\ numOfKeyRegistrations' = UINT8(numOfKeyRegistrations - 1)
    /\ IF numOfKeyRegistrations <= 2
       THEN pc' = "closeTimer" /\ UNCHANGED arg
       ELSE pc' = "idle" /\ arg' = NONE
    /\ UNCHANGED <<matrixVars, keyRing, timerRing, timerVars, NotifyList, handles, resets, historyVars>>
FreeNotify ==
    /\ pc = "unregister"
    /\ registration' = [registration EXCEPT ![arg] = FreeNode]
    /\ numOfKeyRegistrations' = UINT8(numOfKeyRegistrations - 1)
    /\ IF numOfKeyRegistrations = 1
       THEN pc' = "closeTimer" /\ UNCHANGED arg
       ELSE pc' = "idle" /\ arg' = NONE
    /\ UNCHANGED <<matrixVars, keyRing, timerRing, timerVars, NotifyList, handles, resets, historyVars>>

(* The last registration is gone: once the event is closed nothing preempts *)
(* the rest, which forgets the keys the timer had not delivered.            *)
CloseCallbackTimer ==
    /\ pc = "closeTimer"
    /\ CallbackTimer' = "closed"
    /\ TimerRunning' = FALSE
    /\ timerRing' = [timerRing EXCEPT !.read = 0, !.write = 0]
    /\ pc' = "idle" /\ arg' = NONE
    /\ UNCHANGED <<matrixVars, keyRing, listVars, resets, historyVars>>

-----------------------------------------------------------------------------
Tick == \E held \in SUBSET Pressable, good \in 0 .. 3 : PollForKeyCallback(held, good)

AppCall ==
    \/ \E held \in SUBSET Pressable, good \in 0 .. 3 :
          WaitForKeyCallback(held, good) \/ KeysDxeReadKeyStroke(held, good)
          \/ KeysDxeReadKeyStrokeEx(held, good)
    \/ \E code \in RegCodes, fn \in Fns :
          RegisterAgain(code, fn) \/ \E n \in Nodes : KeysDxeRegisterKeyNotify(code, fn, n)
    \/ \E n \in Nodes : KeysDxeUnregisterKeyNotify(n)

AppStep == ReadExNotify \/ SetCallbackTimer \/ FreeNotify \/ CloseCallbackTimer

Next == Tick \/ AppCall \/ AppStep \/ KeysDxeResetCommon

Spec == Init /\ [][Next]_vars

(* The timer keeps expiring while it is armed, and a call that started is   *)
(* carried on: the CPU always has something to run.                         *)
Fairness == WF_vars(Tick) /\ WF_vars(AppStep)
FairSpec == Spec /\ Fairness

-----------------------------------------------------------------------------
(* Properties. *)

Node == [code : RegCodes, fn : Fns]
Place == {"idle", "notify", "register", "unregister", "closeTimer", "resetKeyRead", "resetCount",
          "resetTimerWrite", "resetTimerRead", "resetMatrixA", "resetMatrixB",
          "resetKeysPressed", "resetDetection"}

TypeOK ==
    /\ matrix \in [{"A", "B"} -> SUBSET Buttons] /\ curr \in {"A", "B"}
    /\ keysPressed \in [Slot -> Buttons \cup {NONE}]
    /\ numOfKeysPressed \in 0 .. 255 /\ isEfiKeyDetected \in BOOLEAN
    /\ keyRing \in Ring /\ timerRing \in Ring
    /\ TimerRunning \in BOOLEAN /\ CallbackTimer \in {"idle", "armed", "closed"}
    /\ NotifyList \in Seq(Nodes)
    /\ registration \in [Nodes -> Node \cup {FreeNode}]
    /\ numOfKeyRegistrations \in 0 .. 255 /\ handles \subseteq Nodes
    /\ pc \in Place
    /\ pc \in {"register", "unregister", "closeTimer"} => arg \in Nodes
    /\ pc = "notify" => arg \in Key
    /\ resets \in Nat
    /\ made \in Nat /\ unread \in Int /\ delivered \in Key /\ sessionKeys \in Nat
    /\ calls \in [(1 .. MaxKeys) \X Fns -> Nat]

(* numOfKeysPressed counts the keys stored in keysPressed whenever no reset *)
(* is under way: presses, releases, failed polls and ticks in between never *)
(* make the two drift apart (ProcessArray, StoreAKey, RemoveAKey).          *)
Resetting == pc \in {"resetTimerWrite", "resetTimerRead", "resetMatrixA",
                     "resetMatrixB", "resetKeysPressed"}
PressedCount == ~Resetting => numOfKeysPressed = Cardinality(Pressed(keysPressed))

(* A press session, from the first button down to no button down, produces  *)
(* one EFI key at most, whatever the order of presses, releases, failed     *)
(* polls and ticks (ConvertEfiKeyCode and isEfiKeyDetected).                *)
OneKeyPerSession == sessionKeys <= 1

(* The keys of the console ring, oldest first. Between the two stores that  *)
(* reset the cursors the ring is what the second store will make it.        *)
Contents(ring) ==
    [i \in 1 .. Waiting(ring) |->
        ring.buf[(ring.read + i - 1) % MAX_KEYS_TO_BUFFER]]
ConsoleRing == IF pc = "resetKeyRead" THEN [keyRing EXCEPT !.read = 0] ELSE keyRing

Fifo == INSTANCE KeyFifo WITH Codes <- EfiCodes, fifo <- Contents(ConsoleRing), typed <- made

(* The console's ring with its cursors, polled from three places and reset  *)
(* in two stores, is a key queue: nothing lost, repeated or reordered, as   *)
(* long as fewer keys than slots are waiting.                               *)
ImplementsKeyFifo == Fifo!Spec

(* A typed key reaches each notification function registered for it at most *)
(* once, however the timer preempts the edits of the list, as long as the   *)
(* timer alone notifies: a client that reads with KeysDxeReadKeyStrokeEx    *)
(* has what it read notified again (PollForKeyCallback 563-649).            *)
NotifiedAtMostOnce == \A c \in DOMAIN calls : calls[c] <= 1

(* Between calls, every listed registration is one the client holds the     *)
(* handle of, and the timer that serves it is armed.                        *)
RegistrationServed ==
    pc = "idle" /\ NotifyList # <<>> =>
        Listed \subseteq handles /\ CallbackTimer = "armed" /\ TimerRunning

(* Whatever the step of an unregistration the timer preempts, each node it  *)
(* walks is allocated, listed once, and the count is the list's length when *)
(* no call is between linking and counting.                                 *)
ListSound ==
    /\ \A i \in DOMAIN NotifyList : registration[NotifyList[i]] # FreeNode
    /\ \A i, j \in DOMAIN NotifyList : NotifyList[i] = NotifyList[j] => i = j
    /\ pc # "unregister" => numOfKeyRegistrations = Len(NotifyList)

(* A key waiting in the timer ring for a registered function reaches it,    *)
(* unless the function is unregistered first.                               *)
Due(id, code, fn) ==
    /\ \E i \in DOMAIN Contents(timerRing) : Contents(timerRing)[i] = [code |-> code, id |-> id]
    /\ Registered(code, fn) # {}
NotifiedEventually ==
    \A id \in 1 .. MaxKeys, code \in RegCodes, fn \in Fns :
        Due(id, code, fn) ~> (calls[<<id, fn>>] > 0 \/ Registered(code, fn) = {})
==============================================================================
