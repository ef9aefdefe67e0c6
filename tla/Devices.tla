------------------------------ MODULE Devices -------------------------------
(***************************************************************************)
(* Drivers that share no state with each other, checked together: clocks,  *)
(* a BAM pipe, the frame buffer console, and the keypad's device and       *)
(* driver.  A behaviour takes one of them (part) and the others rest.      *)
(***************************************************************************)
EXTENDS ClockTree, Sequences

CONSTANTS Sizes, Offsets, MaxRounds,                         \* BamPipe
          Screens, MaxBytes, MaxDepth, MaxDrawn,             \* FbConsole
          KeyList, Deltas, DEBOUNCE, REPEAT, LONGPRESS,      \* KeypadDevice
          Patterns, Functions, Scans, Capacity, MaxPoll, MaxList   \* KeypadDxe

VARIABLES part,
          fifo, slots, engine, client, told, processed, skipped,
          screen, con, irq, writes, drawn, glyphs, returned, torn,
          ctx, down, sent, muted,
          life, have, armed, EfiKeyQueue, EfiKeyQueueForNotify, signalled, hand, NotifyList,
          partial, reading, owed

Bp == INSTANCE BamPipe
Fb == INSTANCE FbConsole
Kd == INSTANCE KeypadDevice
Kp == INSTANCE KeypadDxe

ASSUME DevicesAssumption ==
    /\ Bp!SizesAssumption
    /\ Fb!ScreensAssumption
    /\ Kd!LimitsAssumption
    /\ Kp!QueuesAssumption

bvars == <<fifo, slots, engine, client, told, processed, skipped>>
fvars == <<screen, con, irq, writes, drawn, glyphs, returned, torn>>
dvars == <<ctx, down, sent, muted>>
kvars == <<life, have, armed, EfiKeyQueue, EfiKeyQueueForNotify, signalled, hand, NotifyList,
           partial, reading, owed>>
vars == <<part, tvars, bvars, fvars, dvars, kvars>>

Parts == {"clocks", "bam", "console", "keys", "keypad"}
DevicesInit ==
    /\ part \in Parts
    /\ Init /\ (part # "clocks" => names = CHOOSE g \in Groups : TRUE)
    /\ Bp!Init /\ (part # "bam" => fifo.size = CHOOSE n \in Sizes : TRUE)
    /\ Fb!Init /\ (part # "console" => screen = CHOOSE s \in Screens : TRUE)
    /\ Kd!Init /\ Kp!Init

ClocksNext == part = "clocks" /\ TreeStep /\ UNCHANGED <<part, bvars, fvars, dvars, kvars>>
BamNext == part = "bam" /\ Bp!BamStep /\ UNCHANGED <<part, tvars, fvars, dvars, kvars>>
ConsoleNext == part = "console" /\ Fb!FbStep /\ UNCHANGED <<part, tvars, bvars, dvars, kvars>>
KeysNext == part = "keys" /\ Kd!DeviceStep /\ UNCHANGED <<part, tvars, bvars, fvars, kvars>>
KeypadNext == part = "keypad" /\ Kp!KeypadStep /\ UNCHANGED <<part, tvars, bvars, fvars, dvars>>
DevicesNext == ClocksNext \/ BamNext \/ ConsoleNext \/ KeysNext \/ KeypadNext
DevicesSpec == DevicesInit /\ [][DevicesNext]_vars

(* Properties, with HeldIsOn *)

\* The engine works through what it was told of, in order (bam.c 67-451).
TransferredInOrder == Bp!TransferredInOrder

\* What a write has returned from is on the screen
\* (FrameBufferSerialPortLib.c 93-185, 352-397).
WrittenIsVisible == Fb!WrittenIsVisible

\* A press sends the keys its length and its company call for
\* (KeypadDeviceHelperLib.h 83-166).
PressSendsItsKeys == Kd!PressSendsItsKeys

\* A key that was pressed reaches the functions registered for it, unless a
\* full queue or a reset drops it (Keypad.c 159-201, KeypadTextIn.c 660-699).
NotificationNotLost == Kp!NotificationNotLost

\* A driver that did not start or was stopped leaves nothing (Keypad.c
\* 214-514).
NothingLeftBehind == Kp!NothingLeftBehind
=============================================================================
