--------------------------- MODULE KeypadDevice ----------------------------
(***************************************************************************)
(* The keypad device behind KeypadDxe: KeypadDeviceImplLib reads every key *)
(* at each poll, and LibKeyUpdateKeyStatus of KeypadDeviceHelperLib.h turns *)
(* the levels into keys: one at the release of a short press, repeated     *)
(* ones while a volume key is held, one for a long press of power, which   *)
(* one telling what volume key was held with it.  Time counts no further   *)
(* than a long press, in units in which the limits are small numbers.      *)
(***************************************************************************)
EXTENDS Integers, Sequences

CONSTANTS
    KeyList,          \* the keys in the order of a poll
    Deltas,           \* the times between polls
    DEBOUNCE, REPEAT, LONGPRESS     \* 10, 200 and 500 milliseconds

Keys == {KeyList[i] : i \in 1..Len(KeyList)}
ByGpio == {"VolumeUp", "Camera", "CameraFocus"}     \* reads that may fail

\* The key data of a key; the focus key has none.
KeyData == [Power |-> "RETURN", VolumeUp |-> "SCAN_UP", VolumeDown |-> "SCAN_DOWN",
            Camera |-> "SCAN_ESC", CameraFocus |-> "NULL"]

LimitsAssumption ==
    /\ KeyList \in Seq(DOMAIN KeyData) /\ Deltas \subseteq Nat
    /\ DEBOUNCE \in Nat /\ REPEAT \in Nat /\ LONGPRESS \in Nat

VARIABLES
    ctx,          \* per key: Time, State, Repeat, Longpress
    down,         \* the bitmaps: the keys whose bit is set
    sent,         \* per key: the keys its press sent, up to two
    muted         \* the presses that sent nothing on purpose
dvars == <<ctx, down, sent, muted>>

Released == [Time |-> 0, State |-> "RELEASED", Repeat |-> FALSE, Longpress |-> FALSE]

\* The driver resets the device before it offers its protocols.
Init ==
    /\ ctx = [k \in Keys |-> Released] /\ down = {}
    /\ sent = [k \in Keys |-> <<>>] /\ muted = {}

\* KeypadDeviceImplReset: the focus key is left in its state, and the bitmaps
\* keep what the last poll put there.
KeypadDeviceImplReset ==
    /\ ctx' = [k \in Keys |-> IF k = "CameraFocus" THEN ctx[k] ELSE Released]
    /\ sent' = [k \in Keys |-> IF k = "CameraFocus" THEN sent[k] ELSE <<>>]
    /\ muted' = muted \cap {"CameraFocus"}
    /\ UNCHANGED down

Elapse(t, delta) == IF t + delta > LONGPRESS THEN LONGPRESS ELSE t + delta

PowerCombo(keys) ==
    IF "VolumeDown" \in keys THEN "s" ELSE IF "VolumeUp" \in keys THEN "e" ELSE "SPACE"

\* Each returns the key's context and what it pushes, "none" if nothing.
Pressed(c) == <<[c EXCEPT !.Time = 0, !.State = "PRESSED"], "none">>
RepeatKey(c, k) == <<[c EXCEPT !.Time = 0], KeyData[k]>>
\* Mutant: the combination is sent and the press goes on as before.
LongPressForgets(c, k, keys) ==
    IF k = "Power" THEN <<[c EXCEPT !.Time = 0], PowerCombo(keys)>>
    ELSE <<[c EXCEPT !.Longpress = TRUE, !.Time = 0, !.Repeat = TRUE], KeyData[k]>>
LongPress(c, k, keys) ==
    IF k = "Power" THEN <<[c EXCEPT !.Longpress = TRUE], PowerCombo(keys)>>
    ELSE IF "Power" \in keys THEN <<[c EXCEPT !.Longpress = TRUE], "none">>
    ELSE <<[c EXCEPT !.Longpress = TRUE, !.Time = 0, !.Repeat = TRUE], KeyData[k]>>
ShortRelease(c, k) == <<[c EXCEPT !.State = "LONGPRESS_RELEASE"], KeyData[k]>>

StillPressed(c, k, keys) ==
    IF c.Repeat /\ c.Time >= REPEAT THEN RepeatKey(c, k)
    ELSE IF ~c.Longpress /\ c.Time >= LONGPRESS THEN LongPress(c, k, keys)
    ELSE <<c, "none">>
LetGo(c, k) ==
    IF ~c.Longpress THEN ShortRelease(c, k)
    ELSE IF c.Time >= DEBOUNCE THEN <<Released, "none">> ELSE <<c, "none">>

LibKeyUpdateKeyStatus(k, pressed, delta, keys) ==
    LET c == [ctx[k] EXCEPT !.Time = Elapse(@, delta)] IN
    CASE c.State = "RELEASED" -> IF pressed THEN Pressed(c) ELSE <<c, "none">>
      [] c.State = "PRESSED" -> IF pressed THEN StillPressed(c, k, keys) ELSE LetGo(c, k)
      [] c.State = "LONGPRESS_RELEASE" -> <<Released, "none">>

\* KeySetState: the bitmaps as a key's turn in the poll finds them, the keys
\* before it and itself as read in this poll, those after it as in the one
\* before.  The focus key has neither scan code nor character, so no bit.
SeenBy(i, read) ==
    LET turned == [k \in Keys |-> \E j \in 1..i : KeyList[j] = k] IN
    {k \in Keys \ {"CameraFocus"} :
        IF turned[k] /\ read[k] # "fails" THEN read[k] = "pressed" ELSE k \in down}

\* KeypadDeviceImplGetKeys: a key whose read fails is left out of the poll.
KeypadDeviceImplGetKeys(read, delta) ==
    LET index == [k \in Keys |-> CHOOSE i \in 1..Len(KeyList) : KeyList[i] = k]
        after == [k \in Keys |->
                     IF read[k] = "fails" THEN <<ctx[k], "none">>
                     ELSE LibKeyUpdateKeyStatus(k, read[k] = "pressed", delta,
                                                SeenBy(index[k], read))]
        Fresh(k) == ctx[k].State = "RELEASED"
    IN
    /\ \A k \in Keys \ ByGpio : read[k] # "fails"
    /\ ctx' = [k \in Keys |-> after[k][1]]
    /\ down' = SeenBy(Len(KeyList), read)
    /\ sent' = [k \in Keys |->
                   LET before == IF Fresh(k) THEN <<>> ELSE sent[k] IN
                   IF after[k][2] = "none" \/ Len(before) = 2 THEN before
                   ELSE Append(before, after[k][2])]
    /\ muted' = {k \in muted : ~Fresh(k)}
                \cup {k \in Keys \ {"Power"} : /\ ~ctx[k].Longpress /\ after[k][1].Longpress
                                               /\ "Power" \in SeenBy(index[k], read)}

DeviceStep ==
    \/ \E read \in [Keys -> {"pressed", "released", "fails"}], delta \in Deltas :
          KeypadDeviceImplGetKeys(read, delta)
    \/ KeypadDeviceImplReset

(* Properties *)

\* A press that is over has sent its keys: a short one its own, once; power's
\* long one a single combination key and never its own; a volume key's long
\* one at least its own, unless power was held with it; and a press sends
\* nothing before it is known which of them it is
\* (KeypadDeviceHelperLib.h 83-166).
PressSendsItsKeys ==
    \A k \in Keys :
        /\ ctx[k].State = "LONGPRESS_RELEASE" => sent[k] = <<KeyData[k]>>
        /\ ctx[k].State = "PRESSED" /\ ~ctx[k].Longpress => sent[k] = <<>>
        /\ ctx[k].Longpress => IF k = "Power" THEN Len(sent[k]) = 1 /\ sent[k] # <<KeyData[k]>>
                               ELSE sent[k] # <<>> \/ k \in muted
=============================================================================
