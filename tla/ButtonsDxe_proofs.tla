-------------------------- MODULE ButtonsDxe_proofs --------------------------
(***************************************************************************)
(* What holds of the console input driver for any size of its key rings,   *)
(* any buttons held, any registrations and any interleaving of the timer.  *)
(***************************************************************************)
EXTENDS ButtonsDxe, DataLemmas

(***************************************************************************)
(* The key rings.                                                          *)
(***************************************************************************)

LEMMA StepType == \A i \in Index : Step(i) \in Index
BY ConstantsAssumption DEF Step, Index

\* How many keys wait, without the remainder.
LEMMA WaitingIs ==
  ASSUME NEW ring \in Ring
  PROVE  /\ Waiting(ring) \in 0 .. MAX_KEYS_TO_BUFFER - 1
         /\ Waiting(ring) = IF ring.write >= ring.read THEN ring.write - ring.read
                            ELSE ring.write - ring.read + MAX_KEYS_TO_BUFFER
         /\ Pending(ring) <=> Waiting(ring) # 0
<1>1. ring.read \in Index /\ ring.write \in Index
  BY DEF Ring
<1> QED
  BY <1>1, ConstantsAssumption DEF Waiting, Pending, Index

\* The slot of the key that is i places behind the one to be read next.
SlotOf(ring, i) ==
  IF ring.read + i - 1 < MAX_KEYS_TO_BUFFER THEN ring.read + i - 1
  ELSE ring.read + i - 1 - MAX_KEYS_TO_BUFFER

LEMMA PlaceIs ==
  ASSUME NEW ring \in Ring, NEW i \in 1 .. MAX_KEYS_TO_BUFFER
  PROVE  /\ (ring.read + i - 1) % MAX_KEYS_TO_BUFFER = SlotOf(ring, i)
         /\ SlotOf(ring, i) \in Index
<1>1. ring.read \in Index
  BY DEF Ring
<1> QED
  BY <1>1, ConstantsAssumption DEF SlotOf, Index

LEMMA ContentsIs ==
  ASSUME NEW ring \in Ring
  PROVE  /\ Contents(ring) \in Seq(Key)
         /\ Len(Contents(ring)) = Waiting(ring)
         /\ \A i \in 1 .. Waiting(ring) : Contents(ring)[i] = ring.buf[SlotOf(ring, i)]
<1>1. \A i \in 1 .. Waiting(ring) :
        /\ (ring.read + i - 1) % MAX_KEYS_TO_BUFFER = SlotOf(ring, i)
        /\ ring.buf[(ring.read + i - 1) % MAX_KEYS_TO_BUFFER] \in Key
  BY WaitingIs, PlaceIs, ConstantsAssumption DEF Ring
<1>2. Waiting(ring) \in Nat
  BY WaitingIs, ConstantsAssumption
<1>3. Contents(ring) \in [1 .. Waiting(ring) -> Key]
  BY <1>1 DEF Contents
<1> QED
  BY <1>1, <1>2, <1>3 DEF Contents

\* A key put in comes last, as long as a slot stays free.
LEMMA PushAppends ==
  ASSUME NEW ring \in Ring, NEW key \in Key
  PROVE  /\ Push(ring, key) \in Ring
         /\ Waiting(ring) < MAX_KEYS_TO_BUFFER - 1 =>
              /\ Waiting(Push(ring, key)) = Waiting(ring) + 1
              /\ Contents(Push(ring, key)) = Append(Contents(ring), key)
<1> DEFINE after == Push(ring, key)
<1>1. after \in Ring
  BY StepType DEF Push, Ring
<1>2. /\ after.read = ring.read /\ after.write = Step(ring.write)
      /\ after.buf = [ring.buf EXCEPT ![ring.write] = key]
      /\ ring.read \in Index /\ ring.write \in Index /\ ring.buf \in [Index -> Key]
  BY DEF Push, Ring
<1> HIDE DEF after
<1> SUFFICES ASSUME Waiting(ring) < MAX_KEYS_TO_BUFFER - 1
             PROVE  /\ Waiting(after) = Waiting(ring) + 1
                    /\ Contents(after) = Append(Contents(ring), key)
  BY <1>1 DEF after
<1>3. Waiting(after) = Waiting(ring) + 1 /\ Waiting(ring) \in Nat
  <2>1. Waiting(after) = IF Step(ring.write) >= ring.read THEN Step(ring.write) - ring.read
                         ELSE Step(ring.write) - ring.read + MAX_KEYS_TO_BUFFER
    BY <1>1, <1>2, WaitingIs
  <2>2. /\ Waiting(ring) \in 0 .. MAX_KEYS_TO_BUFFER - 1
        /\ Waiting(ring) = IF ring.write >= ring.read THEN ring.write - ring.read
                           ELSE ring.write - ring.read + MAX_KEYS_TO_BUFFER
    BY WaitingIs
  <2> QED
    BY <2>1, <2>2, <1>2, ConstantsAssumption DEF Step, Index
<1>4. SlotOf(after, Waiting(ring) + 1) = ring.write
  BY <1>2, WaitingIs, ConstantsAssumption DEF SlotOf, Index
<1>5. \A i \in 1 .. Waiting(ring) : SlotOf(after, i) = SlotOf(ring, i) /\ SlotOf(ring, i) # ring.write
  BY <1>2, WaitingIs, ConstantsAssumption DEF SlotOf, Index
<1>6. Append(Contents(ring), key) \in Seq(Key) /\ Len(Append(Contents(ring), key)) = Waiting(ring) + 1
  BY ContentsIs, AppendProperties
<1>7. ASSUME NEW i \in 1 .. Waiting(ring) + 1
      PROVE  Contents(after)[i] = Append(Contents(ring), key)[i]
  <2>1. Contents(after)[i] = after.buf[SlotOf(after, i)]
    BY <1>1, <1>3, ContentsIs
  <2>2. CASE i = Waiting(ring) + 1
    BY <2>1, <2>2, <1>2, <1>4, ContentsIs, AppendProperties
  <2>3. CASE i \in 1 .. Waiting(ring)
    <3>1. Append(Contents(ring), key)[i] = Contents(ring)[i]
      BY <2>3, ContentsIs, AppendProperties
    <3>2. Contents(ring)[i] = ring.buf[SlotOf(ring, i)]
      BY <2>3, ContentsIs
    <3>3. after.buf[SlotOf(after, i)] = ring.buf[SlotOf(ring, i)]
      <4>1. SlotOf(ring, i) \in Index
        BY <2>3, WaitingIs, PlaceIs, ConstantsAssumption
      <4> QED
        BY <4>1, <1>2, <1>5, <2>3
    <3> QED
      BY <2>1, <3>1, <3>2, <3>3
  <2>4. i = Waiting(ring) + 1 \/ i \in 1 .. Waiting(ring)
    BY <1>3
  <2> QED
    BY <2>2, <2>3, <2>4
<1>8. Contents(after) \in Seq(Key) /\ Len(Contents(after)) = Waiting(ring) + 1
  BY <1>1, <1>3, ContentsIs
<1> QED
  BY <1>3, <1>6, <1>7, <1>8, SeqEqual

\* The key taken out is the first.
LEMMA PopTakesHead ==
  ASSUME NEW ring \in Ring
  PROVE  /\ Pop(ring) \in Ring /\ Front(ring) \in Key
         /\ Pending(ring) =>
              /\ Waiting(Pop(ring)) = Waiting(ring) - 1
              /\ Contents(ring) # <<>>
              /\ Front(ring) = Head(Contents(ring))
              /\ Contents(Pop(ring)) = Tail(Contents(ring))
<1> DEFINE after == Pop(ring)
<1>1. after \in Ring /\ Front(ring) \in Key
  BY StepType DEF Pop, Ring, Front
<1>2. /\ after.read = Step(ring.read) /\ after.write = ring.write /\ after.buf = ring.buf
      /\ ring.read \in Index /\ ring.write \in Index
  BY DEF Pop, Ring
<1> HIDE DEF after
<1> SUFFICES ASSUME Pending(ring)
             PROVE  /\ Waiting(after) = Waiting(ring) - 1
                    /\ Contents(ring) # <<>>
                    /\ Front(ring) = Head(Contents(ring))
                    /\ Contents(after) = Tail(Contents(ring))
  BY <1>1 DEF after
<1>3. Waiting(after) = Waiting(ring) - 1 /\ Waiting(ring) >= 1
  BY <1>1, <1>2, WaitingIs, ConstantsAssumption DEF Step, Index
<1>4. Contents(ring) \in Seq(Key) /\ Contents(ring) # <<>> /\ Len(Contents(ring)) = Waiting(ring)
  BY <1>3, ContentsIs, EmptySeq
<1>5. Front(ring) = Head(Contents(ring))
  <2>1. SlotOf(ring, 1) = ring.read
    BY <1>2, ConstantsAssumption DEF SlotOf, Index
  <2>2. Contents(ring)[1] = ring.buf[ring.read]
    BY <2>1, <1>3, WaitingIs, ContentsIs
  <2> QED
    BY <2>2, <1>4 DEF Front
<1>6. Tail(Contents(ring)) \in Seq(Key) /\ Len(Tail(Contents(ring))) = Waiting(ring) - 1
  BY <1>4, HeadTailProperties
<1>7. ASSUME NEW i \in 1 .. Waiting(ring) - 1
      PROVE  Contents(after)[i] = Tail(Contents(ring))[i]
  <2>1. Contents(after)[i] = after.buf[SlotOf(after, i)]
    BY <1>1, <1>3, ContentsIs
  <2>2. Tail(Contents(ring))[i] = Contents(ring)[i + 1]
    BY <1>4, <1>6, HeadTailProperties
  <2>3. Contents(ring)[i + 1] = ring.buf[SlotOf(ring, i + 1)]
    BY WaitingIs, ContentsIs
  <2>4. SlotOf(after, i) = SlotOf(ring, i + 1)
    BY <1>2, WaitingIs, ConstantsAssumption DEF SlotOf, Index, Step
  <2> QED
    BY <2>1, <2>2, <2>3, <2>4, <1>2
<1>8. Contents(after) \in Seq(Key) /\ Len(Contents(after)) = Waiting(ring) - 1
  BY <1>1, <1>3, ContentsIs
<1> QED
  BY <1>3, <1>4, <1>5, <1>6, <1>7, <1>8, SeqEqual

\* A ring whose cursors meet is empty.
LEMMA EmptyContents ==
  ASSUME NEW ring \in Ring, ring.read = ring.write
  PROVE  Waiting(ring) = 0 /\ Contents(ring) = <<>>
<1>1. Waiting(ring) = 0
  BY WaitingIs, ConstantsAssumption DEF Ring, Index
<1> QED
  BY <1>1, ContentsIs, EmptySeq

(***************************************************************************)
(* Types.                                                                  *)
(***************************************************************************)

KeyArrays == [slots : [Slot -> Buttons \cup {NONE}], num : 0 .. 255]

LEMMA FirstWithIs ==
  ASSUME NEW slots, NEW key, Holds(slots, key)
  PROVE  FirstWith(slots, key) \in Slot /\ slots[FirstWith(slots, key)] = key
<1> DEFINE at == {i \in Slot : slots[i] = key}
<1>1. at \in SUBSET Nat /\ at # {}
  BY DEF Holds, Slot
<1>2. PICK m \in at : \A j \in at : m <= j
  BY <1>1, LeastElement
<1>3. \E i \in Slot : slots[i] = key /\ \A j \in Slot : slots[j] = key => i <= j
  BY <1>2
<1> QED
  BY <1>3 DEF FirstWith

LEMMA ProcessKeyType ==
  ASSUME NEW s \in KeyArrays, NEW key \in Buttons, NEW now, NEW before
  PROVE  ProcessKey(s, key, now, before) \in KeyArrays
<1>1. StoreAKey(s, key) \in KeyArrays
  <2>1. CASE Holds(s.slots, NONE)
    <3>1. FirstWith(s.slots, NONE) \in Slot
      BY <2>1, FirstWithIs
    <3> QED
      BY <2>1, <3>1 DEF StoreAKey, KeyArrays, UINT8
  <2>2. CASE ~Holds(s.slots, NONE)
    BY <2>2 DEF StoreAKey
  <2> QED
    BY <2>1, <2>2
<1>2. RemoveAKey(s, key) \in KeyArrays
  <2>1. CASE Holds(s.slots, key)
    <3>1. FirstWith(s.slots, key) \in Slot
      BY <2>1, FirstWithIs
    <3> QED
      BY <2>1, <3>1 DEF RemoveAKey, KeyArrays, UINT8
  <2>2. CASE ~Holds(s.slots, key)
    BY <2>2 DEF RemoveAKey
  <2> QED
    BY <2>1, <2>2
<1> QED
  BY <1>1, <1>2 DEF ProcessKey

LEMMA KeyMapIs == /\ keyMap[1] = "PWR" /\ keyMap[2] = "VOL_UP" /\ keyMap[3] = "VOL_DOWN"
                  /\ \A i \in 1 .. 3 : keyMap[i] \in Buttons
BY DEF keyMap, Buttons

LEMMA PressedNowType ==
  ASSUME TypeOK, NEW held
  PROVE  PressedNow(held) \in KeyArrays
<1>1. [slots |-> keysPressed, num |-> numOfKeysPressed] \in KeyArrays
  BY DEF TypeOK, KeyArrays
<1> QED
  BY <1>1, ProcessKeyType, KeyMapIs DEF PressedNow, ProcessArray

LEMMA KeyFoundType ==
  ASSUME NEW held, NEW good
  PROVE  KeyFound(held, good) \in EfiCodes \cup {SCAN_NULL}
BY DEF KeyFound, ConvertEfiKeyCode, EfiKeyOf, EfiCodes, SCAN_NULL

\* What a poll makes of the buttons is a key array, and what it generates a key.
LEMMA PollType ==
  ASSUME TypeOK, NEW held \in SUBSET Pressable, NEW good \in 0 .. 3, Poll(held, good)
  PROVE  /\ matrix' \in [{"A", "B"} -> SUBSET Buttons] /\ curr' \in {"A", "B"}
         /\ keysPressed' \in [Slot -> Buttons \cup {NONE}] /\ numOfKeysPressed' \in 0 .. 255
         /\ isEfiKeyDetected' \in BOOLEAN
         /\ made' \in Nat /\ sessionKeys' \in Nat
         /\ NewKey(held, good) \in Key
         /\ KeyRingAfter(held, good) \in Ring /\ TimerRingAfter(held, good) \in Ring
<1>1. Scratch(held, good) \in SUBSET Buttons /\ prev \in {"A", "B"}
  BY DEF Scratch, prev
<1>2. PressedNow(held) \in KeyArrays
  BY PressedNowType
<1>3. NewKey(held, good) \in Key
  BY KeyFoundType DEF NewKey, Key, TypeOK
<1>4. KeyRingAfter(held, good) \in Ring /\ TimerRingAfter(held, good) \in Ring
  BY <1>3, PushAppends DEF KeyRingAfter, TimerRingAfter, TypeOK
<1>5. matrix' \in [{"A", "B"} -> SUBSET Buttons] /\ curr' \in {"A", "B"}
  BY <1>1 DEF Poll, TypeOK
<1>6. keysPressed' \in [Slot -> Buttons \cup {NONE}] /\ numOfKeysPressed' \in 0 .. 255
  BY <1>2 DEF Poll, TypeOK, KeyArrays
<1>7. isEfiKeyDetected' \in BOOLEAN
  <2>1. ConvertEfiKeyCode(PressedNow(held), isEfiKeyDetected).detected \in BOOLEAN
    BY DEF ConvertEfiKeyCode
  <2> QED
    BY <2>1 DEF Poll, TypeOK
<1>8. made' \in Nat /\ sessionKeys' \in Nat
  BY DEF Poll, TypeOK
<1> QED
  BY <1>3, <1>4, <1>5, <1>6, <1>7, <1>8

\* The list holds finitely many registrations.
LEMMA ListedFinite ==
  ASSUME NotifyList \in Seq(Nodes)
  PROVE  IsFiniteSet(Listed) /\ Cardinality(Listed) \in Nat /\ Listed \subseteq Nodes
         /\ Cardinality(Listed) <= Len(NotifyList)
<1>1. NotifyList \in [1 .. Len(NotifyList) -> Nodes] /\ Len(NotifyList) \in Nat
  BY LenProperties
<1>2. Listed = {NotifyList[i] : i \in 1 .. Len(NotifyList)} /\ Listed \subseteq Nodes
  BY <1>1 DEF Listed
<1>3. NotifyList \in Surjection(1 .. Len(NotifyList), Listed)
  BY <1>1, <1>2 DEF Surjection
<1>4. IsFiniteSet(1 .. Len(NotifyList)) /\ Cardinality(1 .. Len(NotifyList)) = Len(NotifyList)
  <2>1. /\ IsFiniteSet(1 .. Len(NotifyList))
        /\ Cardinality(1 .. Len(NotifyList)) = IF 1 > Len(NotifyList) THEN 0
                                               ELSE Len(NotifyList) - 1 + 1
    BY <1>1, FS_Interval
  <2> QED
    BY <1>1, <2>1
<1> QED
  BY <1>2, <1>3, <1>4, FS_Surjection, FS_CardinalityType

LEMMA NotifiedType ==
  ASSUME TypeOK, NEW key
  PROVE  Notified(key) \in [(1 .. MaxKeys) \X Fns -> Nat]
<1>1. ASSUME NEW fn
      PROVE  Cardinality({n \in Matching(key) : registration[n].fn = fn}) \in Nat
  <2>1. IsFiniteSet(Listed) /\ {n \in Matching(key) : registration[n].fn = fn} \in SUBSET Listed
    BY ListedFinite DEF TypeOK, Matching, Listed
  <2> QED
    BY <2>1, FS_Subset, FS_CardinalityType
<1>2. ASSUME NEW c \in (1 .. MaxKeys) \X Fns
      PROVE  (IF c[1] = key.id
              THEN Cardinality({n \in Matching(key) : registration[n].fn = c[2]}) ELSE 0) \in Nat
  BY <1>1
<1>3. \A c \in (1 .. MaxKeys) \X Fns : calls[c] \in Nat
  BY DEF TypeOK
<1> QED
  BY <1>2, <1>3 DEF Notified

\* What a read consumes.
LEMMA ConsumeType ==
  ASSUME TypeOK, NEW held \in SUBSET Pressable, NEW good \in 0 .. 3, ReadAndConsume(held, good)
  PROVE  /\ keyRing' \in Ring /\ timerRing' \in Ring /\ unread' \in Int /\ delivered' \in Key
         /\ Front(KeyRingAfter(held, good)) \in Key
<1>1. KeyRingAfter(held, good) \in Ring /\ TimerRingAfter(held, good) \in Ring
  BY PollType DEF ReadAndConsume
<1> QED
  BY <1>1, PopTakesHead DEF ReadAndConsume, Unread, TypeOK

LEMMA PollingTypes ==
  ASSUME TypeOK, NEW held \in SUBSET Pressable, NEW good \in 0 .. 3
  PROVE  /\ WaitForKeyCallback(held, good) => TypeOK'
         /\ KeysDxeReadKeyStroke(held, good) => TypeOK'
         /\ KeysDxeReadKeyStrokeEx(held, good) => TypeOK'
         /\ PollForKeyCallback(held, good) => TypeOK'
<1>1. ASSUME WaitForKeyCallback(held, good) PROVE TypeOK'
  <2>1. Poll(held, good)
    BY <1>1 DEF WaitForKeyCallback
  <2> QED
    BY <1>1, <2>1, PollType DEF WaitForKeyCallback, TypeOK, Unread, timerVars, listVars
<1>2. ASSUME KeysDxeReadKeyStroke(held, good) PROVE TypeOK'
  <2>1. Poll(held, good) /\ ReadAndConsume(held, good)
    BY <1>2 DEF KeysDxeReadKeyStroke, ReadAndConsume
  <2> QED
    BY <1>2, <2>1, PollType, ConsumeType DEF KeysDxeReadKeyStroke, TypeOK, timerVars, listVars
<1>3. ASSUME KeysDxeReadKeyStrokeEx(held, good) PROVE TypeOK'
  <2>1. Poll(held, good) /\ ReadAndConsume(held, good)
    BY <1>3 DEF KeysDxeReadKeyStrokeEx, ReadAndConsume
  <2> QED
    BY <1>3, <2>1, PollType, ConsumeType DEF KeysDxeReadKeyStrokeEx, TypeOK, Place, timerVars, listVars
<1>4. ASSUME PollForKeyCallback(held, good) PROVE TypeOK'
  <2>1. Poll(held, good)
    BY <1>4 DEF PollForKeyCallback
  <2>2. calls' \in [(1 .. MaxKeys) \X Fns -> Nat]
    BY <1>4, NotifiedType DEF PollForKeyCallback, TypeOK
  <2>3. timerRing' \in Ring
    BY <1>4, <2>1, PollType, PopTakesHead DEF PollForKeyCallback
  <2>4. /\ unread' \in Int /\ keyRing' \in Ring
        /\ UNCHANGED <<timerVars, listVars, pc, arg, resets, delivered>>
    BY <1>4, <2>1, PollType DEF PollForKeyCallback, TypeOK, Unread
  <2> QED
    BY <2>1, <2>2, <2>3, <2>4, PollType DEF TypeOK, timerVars, listVars
<1> QED
  BY <1>1, <1>2, <1>3, <1>4

\* A cursor may be set back at any time.
LEMMA CursorReset ==
  ASSUME NEW ring \in Ring
  PROVE  /\ [ring EXCEPT !.write = 0] \in Ring /\ [ring EXCEPT !.read = 0] \in Ring
         /\ [ring EXCEPT !.read = 0, !.write = 0] \in Ring
<1>1. 0 \in Index
  BY ConstantsAssumption DEF Index
<1> QED
  BY <1>1 DEF Ring

LEMMA ResetTypes == TypeOK /\ KeysDxeResetCommon => TypeOK'
<1> SUFFICES ASSUME TypeOK, KeysDxeResetCommon PROVE TypeOK'
  OBVIOUS
<1> USE DEF TypeOK, Place, ResetTo, timerVars, listVars
<1>2. CASE ResetKeyWrite
  <2>1. keyRing' \in Ring
    BY CursorReset, <1>2 DEF ResetKeyWrite
  <2>2. resets' \in Nat /\ unread' \in Int
    BY <1>2 DEF ResetKeyWrite
  <2> QED
    BY <2>1, <2>2, <1>2 DEF ResetKeyWrite
<1>3. CASE ResetKeyRead
  BY CursorReset, <1>3 DEF ResetKeyRead
<1>4. CASE ResetCount
  BY <1>4 DEF ResetCount
<1>5. CASE ResetTimerWrite
  BY CursorReset, <1>5 DEF ResetTimerWrite
<1>6. CASE ResetTimerRead
  BY CursorReset, <1>6 DEF ResetTimerRead
<1>7. CASE ResetMatrix("A", "resetMatrixA", "resetMatrixB")
  BY <1>7 DEF ResetMatrix
<1>8. CASE ResetMatrix("B", "resetMatrixB", "resetKeysPressed")
  BY <1>8 DEF ResetMatrix
<1>9. CASE ResetKeysPressed
  BY <1>9 DEF ResetKeysPressed, NoKeys
<1>10. CASE ResetDetection
  BY <1>10 DEF ResetDetection
<1> QED
  BY <1>2, <1>3, <1>4, <1>5, <1>6, <1>7, <1>8, <1>9, <1>10 DEF KeysDxeResetCommon

LEMMA RegistrationTypes ==
  ASSUME TypeOK
  PROVE  /\ \A code \in RegCodes, fn \in Fns :
              /\ RegisterAgain(code, fn) => TypeOK'
              /\ \A n \in Nodes : KeysDxeRegisterKeyNotify(code, fn, n) => TypeOK'
         /\ \A n \in Nodes : KeysDxeUnregisterKeyNotify(n) => TypeOK'
<1> USE DEF TypeOK, Place, matrixVars, timerVars, listVars, historyVars
<1>1. ASSUME NEW code \in RegCodes, NEW fn \in Fns, RegisterAgain(code, fn) PROVE TypeOK'
  <2>1. handles' \subseteq Nodes
    BY <1>1, ListedFinite DEF RegisterAgain, Registered
  <2> QED
    BY <1>1, <2>1 DEF RegisterAgain
<1>2. ASSUME NEW code \in RegCodes, NEW fn \in Fns, NEW n \in Nodes,
             KeysDxeRegisterKeyNotify(code, fn, n)
      PROVE  TypeOK'
  <2>1. NotifyList' \in Seq(Nodes)
    BY <1>2, AppendProperties DEF KeysDxeRegisterKeyNotify
  <2>2. registration' \in [Nodes -> Node \cup {FreeNode}]
    BY <1>2 DEF KeysDxeRegisterKeyNotify, Node
  <2> QED
    BY <1>2, <2>1, <2>2 DEF KeysDxeRegisterKeyNotify, UINT8
<1>3. ASSUME NEW n \in Nodes, KeysDxeUnregisterKeyNotify(n) PROVE TypeOK'
  <2>1. NotifyList' \in Seq(Nodes)
    <3>1. PICK i \in DOMAIN NotifyList : NotifyList' = Lists!RemoveAt(NotifyList, i)
      BY <1>3 DEF KeysDxeUnregisterKeyNotify
    <3>2. i \in 1 .. Len(NotifyList)
      BY LenProperties
    <3> QED
      BY <3>1, <3>2, RemoveAtProperties DEF Lists!RemoveAt
  <2> QED
    BY <1>3, <2>1 DEF KeysDxeUnregisterKeyNotify
<1> QED
  BY <1>1, <1>2, <1>3

LEMMA AppStepTypes == TypeOK /\ AppStep => TypeOK'
<1> SUFFICES ASSUME TypeOK, AppStep PROVE TypeOK'
  OBVIOUS
<1>1. CASE ReadExNotify
  BY <1>1, NotifiedType DEF ReadExNotify, TypeOK, Place, matrixVars, timerVars, listVars
<1> USE DEF TypeOK, Place, matrixVars, timerVars, listVars, historyVars
<1>2. CASE SetCallbackTimer
  BY <1>2 DEF SetCallbackTimer
<1>3. CASE FreeNotify
  BY <1>3 DEF FreeNotify, UINT8
<1>4. CASE CloseCallbackTimer
  <2>1. timerRing' \in Ring
    BY <1>4, CursorReset DEF CloseCallbackTimer
  <2> QED
    BY <1>4, <2>1 DEF CloseCallbackTimer
<1> QED
  BY <1>1, <1>2, <1>3, <1>4 DEF AppStep

LEMMA InitTypes == Init => TypeOK
<1> SUFFICES ASSUME Init PROVE TypeOK
  OBVIOUS
<1>1. NoKey \in Key /\ EmptyRing \in Ring
  BY ConstantsAssumption DEF NoKey, Key, EmptyRing, Ring, Index
<1>2. NotifyList \in Seq(Nodes)
  BY EmptySeq DEF Init
<1>3. calls \in [(1 .. MaxKeys) \X Fns -> Nat]
  BY DEF Init
<1>4. keysPressed \in [Slot -> Buttons \cup {NONE}]
  BY DEF Init, NoKeys
<1>5. matrix \in [{"A", "B"} -> SUBSET Buttons] /\ registration \in [Nodes -> Node \cup {FreeNode}]
  BY DEF Init
<1>6. keyRing \in Ring /\ timerRing \in Ring /\ delivered \in Key
  BY <1>1 DEF Init
<1>7. /\ numOfKeysPressed \in 0 .. 255 /\ numOfKeyRegistrations \in 0 .. 255
      /\ resets \in Nat /\ made \in Nat /\ unread \in Int /\ sessionKeys \in Nat
  BY DEF Init
<1>8. /\ curr \in {"A", "B"} /\ CallbackTimer = "idle" /\ pc = "idle" /\ handles \subseteq Nodes
      /\ isEfiKeyDetected \in BOOLEAN /\ TimerRunning \in BOOLEAN
  BY Zenon DEF Init
<1> QED
  BY <1>2, <1>3, <1>4, <1>5, <1>6, <1>7, <1>8 DEF TypeOK, Place

\* Every variable of the driver keeps its type, whatever the timer preempts.
THEOREM TypeCorrect == Spec => []TypeOK
<1>1. TypeOK /\ [Next]_vars => TypeOK'
  <2> SUFFICES ASSUME TypeOK, [Next]_vars PROVE TypeOK'
    OBVIOUS
  <2>1. CASE UNCHANGED vars
    BY <2>1 DEF vars, matrixVars, timerVars, listVars, historyVars, TypeOK
  <2>2. CASE Tick
    BY <2>2, PollingTypes DEF Tick
  <2>3. CASE AppCall
    BY <2>3, PollingTypes, RegistrationTypes DEF AppCall
  <2> QED
    BY <2>1, <2>2, <2>3, AppStepTypes, ResetTypes DEF Next
<1> QED
  BY <1>1, InitTypes, PTL DEF Spec

(***************************************************************************)
(* The console ring is a key queue.                                        *)
(***************************************************************************)

\* The keys waiting are those typed and neither read nor reset.
UnreadWait == unread = Waiting(ConsoleRing)

\* The console ring after a poll, as ConsoleRing sees it.
ConsoleAfter(held, good) ==
  IF pc = "resetKeyRead" THEN [KeyRingAfter(held, good) EXCEPT !.read = 0] ELSE KeyRingAfter(held, good)

LEMMA ConsoleRingType == TypeOK => ConsoleRing \in Ring
BY CursorReset DEF TypeOK, ConsoleRing

\* A key found joins the queue at its end, wherever a reset has got to.
LEMMA PollQueues ==
  ASSUME TypeOK, UnreadWait, MaxUnread < MAX_KEYS_TO_BUFFER,
         NEW held \in SUBSET Pressable, NEW good \in 0 .. 3, Poll(held, good)
  PROVE  /\ ConsoleAfter(held, good) \in Ring
         /\ Waiting(ConsoleAfter(held, good)) = Unread(held, good)
         /\ KeyFound(held, good) = SCAN_NULL =>
              /\ made' = made /\ ConsoleAfter(held, good) = ConsoleRing
         /\ KeyFound(held, good) # SCAN_NULL =>
              /\ made' = made + 1 /\ KeyFound(held, good) \in EfiCodes
              /\ Contents(ConsoleAfter(held, good)) = Fifo!Typed(KeyFound(held, good))
<1>1. ConsoleRing \in Ring /\ keyRing \in Ring
  BY ConsoleRingType DEF TypeOK
<1>2. CASE KeyFound(held, good) = SCAN_NULL
  BY <1>1, <1>2 DEF ConsoleAfter, ConsoleRing, KeyRingAfter, Unread, Poll, UnreadWait, TypeOK
<1>3. CASE KeyFound(held, good) # SCAN_NULL
  <2> DEFINE key == NewKey(held, good)
  <2>1. key \in Key
    BY PollType
  <2>2. ConsoleAfter(held, good) = Push(ConsoleRing, key)
    <3>1. CASE pc = "resetKeyRead"
      <4>1. [Push(keyRing, key) EXCEPT !.read = 0] = Push([keyRing EXCEPT !.read = 0], key)
        BY <1>1 DEF Push, Ring
      <4> QED
        BY <4>1, <3>1, <1>3 DEF ConsoleAfter, ConsoleRing, KeyRingAfter
    <3>2. CASE pc # "resetKeyRead"
      BY <3>2, <1>3 DEF ConsoleAfter, ConsoleRing, KeyRingAfter
    <3> QED
      BY <3>1, <3>2
  <2>3. unread < MaxUnread /\ made' = made + 1
    BY <1>3 DEF Poll
  <2>4. Waiting(ConsoleRing) < MAX_KEYS_TO_BUFFER - 1
    BY <2>3, <1>1, WaitingIs, ConstantsAssumption DEF UnreadWait
  <2>5. /\ Push(ConsoleRing, key) \in Ring
        /\ Waiting(Push(ConsoleRing, key)) = Waiting(ConsoleRing) + 1
        /\ Contents(Push(ConsoleRing, key)) = Append(Contents(ConsoleRing), key)
    BY <2>1, <2>4, <1>1, PushAppends
  <2>6. KeyFound(held, good) \in EfiCodes
    BY <1>3, KeyFoundType
  <2>7. Append(Contents(ConsoleRing), key) = Fifo!Typed(KeyFound(held, good))
    BY DEF Fifo!Typed, NewKey
  <2> QED
    BY <1>3, <2>2, <2>3, <2>5, <2>6, <2>7 DEF UnreadWait, Unread
<1> QED
  BY <1>2, <1>3

\* A poll that reads nothing is the typing of a key, or nothing.
LEMMA PollRefines ==
  ASSUME TypeOK, UnreadWait, MaxUnread < MAX_KEYS_TO_BUFFER,
         NEW held \in SUBSET Pressable, NEW good \in 0 .. 3,
         Poll(held, good), keyRing' = KeyRingAfter(held, good), unread' = Unread(held, good),
         UNCHANGED <<pc, delivered>>
  PROVE  UnreadWait' /\ [Fifo!Next]_(Fifo!fifoVars)
<1>1. ConsoleRing' = ConsoleAfter(held, good)
  BY DEF ConsoleRing, ConsoleAfter
<1>2. UnreadWait'
  BY <1>1, PollQueues DEF UnreadWait
<1>3. Contents(ConsoleRing)' = Contents(ConsoleAfter(held, good))
  BY <1>1 DEF Contents, Waiting
<1>4. CASE KeyFound(held, good) = SCAN_NULL
  BY <1>2, <1>3, <1>4, PollQueues DEF Fifo!fifoVars
<1>5. CASE KeyFound(held, good) # SCAN_NULL
  <2>1. Fifo!Type(KeyFound(held, good)) /\ KeyFound(held, good) \in EfiCodes
    BY <1>3, <1>5, PollQueues DEF Fifo!Type
  <2> QED
    BY <1>2, <2>1 DEF Fifo!Next
<1> QED
  BY <1>4, <1>5

\* A read takes the oldest key, the one its own poll found if no other waits.
LEMMA ReadRefines ==
  ASSUME TypeOK, UnreadWait, MaxUnread < MAX_KEYS_TO_BUFFER,
         NEW held \in SUBSET Pressable, NEW good \in 0 .. 3,
         ReadAndConsume(held, good), pc = "idle", pc' # "resetKeyRead"
  PROVE  UnreadWait' /\ [Fifo!Next]_(Fifo!fifoVars)
<1> DEFINE ring == KeyRingAfter(held, good)
<1>1. Poll(held, good)
  BY DEF ReadAndConsume
<1>2. ConsoleAfter(held, good) = ring /\ ConsoleRing = keyRing /\ ConsoleRing' = keyRing'
  BY DEF ConsoleAfter, ConsoleRing
<1>3. ring \in Ring /\ Waiting(ring) = Unread(held, good)
  BY <1>1, <1>2, PollQueues
<1>4. Contents(ConsoleRing)' = Contents(keyRing') /\ Waiting(ConsoleRing)' = Waiting(keyRing')
  BY <1>2 DEF Contents, Waiting
<1>5. KeyReady(held, good) <=> Pending(ring)
  <2>1. KeyFound(held, good) # SCAN_NULL => Waiting(ring) >= 1
    <3>1. unread \in 0 .. MAX_KEYS_TO_BUFFER - 1
      BY <1>2, WaitingIs, ConsoleRingType DEF UnreadWait
    <3> QED
      BY <1>3, <3>1, ConstantsAssumption DEF Unread
  <2> QED
    BY <2>1, <1>3, WaitingIs DEF KeyReady
<1>6. CASE ~Pending(ring)
  <2>1. KeyFound(held, good) = SCAN_NULL /\ keyRing' = keyRing /\ unread' = unread /\ delivered' = delivered
    BY <1>5, <1>6 DEF ReadAndConsume, KeyReady
  <2>2. made' = made
    BY <2>1, <1>1, PollQueues
  <2> QED
    BY <2>1, <2>2, <1>2, <1>4 DEF UnreadWait, Fifo!fifoVars
<1>7. CASE Pending(ring)
  <2>1. /\ keyRing' = Pop(ring) /\ unread' = Unread(held, good) - 1
        /\ delivered' = Front(ring)
    BY <1>5, <1>7 DEF ReadAndConsume
  <2>2. /\ Waiting(Pop(ring)) = Waiting(ring) - 1 /\ Contents(ring) # <<>>
        /\ Front(ring) = Head(Contents(ring)) /\ Contents(Pop(ring)) = Tail(Contents(ring))
    BY <1>3, <1>7, PopTakesHead
  <2>3. UnreadWait'
    BY <2>1, <2>2, <1>3, <1>4 DEF UnreadWait
  <2>4. CASE KeyFound(held, good) = SCAN_NULL
    <3>1. made' = made /\ ring = ConsoleRing
      BY <2>4, <1>1, <1>2, PollQueues
    <3>2. Fifo!Read
      BY <3>1, <2>1, <2>2, <1>4 DEF Fifo!Read
    <3> QED
      BY <2>3, <3>2 DEF Fifo!Next
  <2>5. CASE KeyFound(held, good) # SCAN_NULL
    <3>1. /\ made' = made + 1 /\ KeyFound(held, good) \in EfiCodes
          /\ Contents(ring) = Fifo!Typed(KeyFound(held, good))
      BY <2>5, <1>1, <1>2, PollQueues
    <3>2. Fifo!TypeAndRead(KeyFound(held, good))
      BY <3>1, <2>1, <2>2, <1>4 DEF Fifo!TypeAndRead
    <3> QED
      BY <2>3, <3>1, <3>2 DEF Fifo!Next
  <2> QED
    BY <2>4, <2>5
<1> QED
  BY <1>6, <1>7

\* The first store of a reset empties the queue, and nothing else of it does.
LEMMA ResetRefines ==
  ASSUME TypeOK, UnreadWait, KeysDxeResetCommon
  PROVE  UnreadWait' /\ [Fifo!Next]_(Fifo!fifoVars)
<1>1. CASE ResetKeyWrite
  <2>1. ConsoleRing' \in Ring /\ ConsoleRing'.read = 0 /\ ConsoleRing'.write = 0
    BY <1>1, CursorReset DEF ResetKeyWrite, ResetTo, ConsoleRing, TypeOK, Ring
  <2>2. Waiting(ConsoleRing') = 0 /\ Contents(ConsoleRing') = <<>>
    BY <2>1, EmptyContents
  <2>3. Waiting(ConsoleRing)' = 0 /\ Contents(ConsoleRing)' = <<>>
    BY <2>2 DEF Contents, Waiting
  <2>4. unread' = 0 /\ made' = made /\ delivered' = delivered
    BY <1>1 DEF ResetKeyWrite, ResetTo
  <2> QED
    BY <2>3, <2>4 DEF UnreadWait, Fifo!Reset, Fifo!Next
<1>2. CASE ~ResetKeyWrite
  <2>1. /\ ConsoleRing' = ConsoleRing /\ unread' = unread /\ made' = made /\ delivered' = delivered
    BY <1>2 DEF KeysDxeResetCommon, ResetKeyRead, ResetCount, ResetTimerWrite, ResetTimerRead,
                ResetMatrix, ResetKeysPressed, ResetDetection, ResetTo, ConsoleRing
  <2> QED
    BY <2>1 DEF UnreadWait, Contents, Waiting, Fifo!fifoVars
<1> QED
  BY <1>1, <1>2

LEMMA OtherStepsRefine ==
  ASSUME TypeOK, UnreadWait,
         UNCHANGED <<keyRing, unread, made, delivered>>,
         pc # "resetKeyRead", pc' # "resetKeyRead"
  PROVE  UnreadWait' /\ [Fifo!Next]_(Fifo!fifoVars)
<1>1. ConsoleRing' = ConsoleRing
  BY DEF ConsoleRing
<1> QED
  BY <1>1 DEF UnreadWait, Contents, Waiting, Fifo!fifoVars

\* The ring with its two cursors, polled from three places and reset in two
\* stores, is a key queue, for any size of it that exceeds the keys waiting.
THEOREM ConsoleIsKeyFifo ==
  ASSUME MaxUnread < MAX_KEYS_TO_BUFFER
  PROVE  Spec => ImplementsKeyFifo
<1>1. Init => UnreadWait /\ Fifo!Init
  <2> SUFFICES ASSUME Init PROVE UnreadWait /\ Fifo!Init
    OBVIOUS
  <2>1. ConsoleRing = keyRing /\ keyRing \in Ring /\ keyRing.read = keyRing.write
    BY InitTypes DEF Init, ConsoleRing, TypeOK, EmptyRing
  <2>2. Waiting(ConsoleRing) = 0 /\ Contents(ConsoleRing) = <<>>
    BY <2>1, EmptyContents
  <2> QED
    BY <2>2 DEF Init, UnreadWait, Fifo!Init, Fifo!Nothing, NoKey, SCAN_NULL
<1>2. TypeOK /\ UnreadWait /\ [Next]_vars => UnreadWait' /\ [Fifo!Next]_(Fifo!fifoVars)
  <2> SUFFICES ASSUME TypeOK, UnreadWait, [Next]_vars
               PROVE  UnreadWait' /\ [Fifo!Next]_(Fifo!fifoVars)
    OBVIOUS
  <2>1. CASE UNCHANGED vars
    BY <2>1 DEF vars, historyVars, UnreadWait, ConsoleRing, Contents, Waiting, Fifo!fifoVars
  <2>2. CASE Tick
    BY <2>2, PollRefines DEF Tick, PollForKeyCallback
  <2>3. ASSUME NEW held \in SUBSET Pressable, NEW good \in 0 .. 3, WaitForKeyCallback(held, good)
        PROVE  UnreadWait' /\ [Fifo!Next]_(Fifo!fifoVars)
    BY <2>3, PollRefines DEF WaitForKeyCallback
  <2>4. ASSUME NEW held \in SUBSET Pressable, NEW good \in 0 .. 3,
               KeysDxeReadKeyStroke(held, good) \/ KeysDxeReadKeyStrokeEx(held, good)
        PROVE  UnreadWait' /\ [Fifo!Next]_(Fifo!fifoVars)
    <3>1. ReadAndConsume(held, good) /\ pc = "idle" /\ pc' # "resetKeyRead"
      BY <2>4 DEF KeysDxeReadKeyStroke, KeysDxeReadKeyStrokeEx
    <3> QED
      BY <3>1, ReadRefines
  <2>5. ASSUME NEW code, NEW fn,
               RegisterAgain(code, fn) \/ \E n \in Nodes : KeysDxeRegisterKeyNotify(code, fn, n)
        PROVE  UnreadWait' /\ [Fifo!Next]_(Fifo!fifoVars)
    BY <2>5, OtherStepsRefine DEF RegisterAgain, KeysDxeRegisterKeyNotify, historyVars
  <2>6. ASSUME NEW n \in Nodes, KeysDxeUnregisterKeyNotify(n)
        PROVE  UnreadWait' /\ [Fifo!Next]_(Fifo!fifoVars)
    BY <2>6, OtherStepsRefine DEF KeysDxeUnregisterKeyNotify, historyVars
  <2>7. CASE AppStep
    BY <2>7, OtherStepsRefine
       DEF AppStep, ReadExNotify, SetCallbackTimer, FreeNotify, CloseCallbackTimer, historyVars
  <2>8. CASE KeysDxeResetCommon
    BY <2>8, ResetRefines
  <2> QED
    BY <2>1, <2>2, <2>3, <2>4, <2>5, <2>6, <2>7, <2>8 DEF Next, AppCall
<1> QED
  BY <1>1, <1>2, TypeCorrect, PTL DEF Spec, ImplementsKeyFifo, Fifo!Spec

(***************************************************************************)
(* Press sessions, as long as no tick falls between the stores of a reset. *)
(***************************************************************************)

ResetPlaces == {"resetKeyRead", "resetCount", "resetTimerWrite", "resetTimerRead", "resetMatrixA",
                "resetMatrixB", "resetKeysPressed", "resetDetection"}
Undisturbed == CallbackTimer = "armed" => pc \notin ResetPlaces

\* The slots hold the given keys, each of them once.
StoresEach(slots, keys) ==
  /\ \A i \in Slot : slots[i] # NONE => slots[i] \in keys
  /\ \A k \in keys : Holds(slots, k)
  /\ \A i, j \in Slot : slots[i] = slots[j] /\ slots[i] # NONE => i = j

Counted(s) == s.num = Cardinality(Pressed(s.slots))

\* keysPressed is what the last whole poll saw, and a session that produced
\* its key is known to have done so.
SessionSound ==
  /\ Resetting => numOfKeysPressed = 0
  /\ ~Resetting => /\ StoresEach(keysPressed, matrix[prev])
                   /\ numOfKeysPressed = Cardinality(Pressed(keysPressed))
  /\ pc \in {"resetMatrixB", "resetKeysPressed"} => matrix["A"] = {}
  /\ pc = "resetKeysPressed" => matrix["B"] = {}
  /\ sessionKeys \in 0 .. 1 /\ (sessionKeys = 1 => isEfiKeyDetected)

LEMMA PressedFinite ==
  ASSUME NEW slots
  PROVE  /\ IsFiniteSet(Pressed(slots)) /\ Cardinality(Pressed(slots)) \in 0 .. 255
         /\ Cardinality(Pressed(slots)) = 0 <=> Pressed(slots) = {}
<1>1. IsFiniteSet(Slot) /\ Cardinality(Slot) = MAX_KEYS_PRESSED_RELEASED
  <2>1. MAX_KEYS_PRESSED_RELEASED \in Int /\ MAX_KEYS_PRESSED_RELEASED >= 1 /\ 1 \in Int
    BY ConstantsAssumption
  <2>2. /\ IsFiniteSet(1 .. MAX_KEYS_PRESSED_RELEASED)
        /\ Cardinality(1 .. MAX_KEYS_PRESSED_RELEASED) =
             IF 1 > MAX_KEYS_PRESSED_RELEASED THEN 0 ELSE MAX_KEYS_PRESSED_RELEASED - 1 + 1
    BY <2>1, FS_Interval
  <2> QED
    BY <2>1, <2>2 DEF Slot
<1>2. Pressed(slots) \in SUBSET Slot
  BY DEF Pressed
<1>3. /\ IsFiniteSet(Pressed(slots)) /\ Cardinality(Pressed(slots)) <= MAX_KEYS_PRESSED_RELEASED
  BY <1>1, <1>2, FS_Subset
<1>4. Cardinality(Pressed(slots)) \in Nat
  BY <1>3, FS_CardinalityType
<1>5. Cardinality(Pressed(slots)) = 0 <=> Pressed(slots) = {}
  BY <1>3, FS_EmptySet
<1> QED
  BY <1>3, <1>4, <1>5, ConstantsAssumption

\* Filling a free slot counts one more, emptying a used one one less.
LEMMA SlotCount ==
  ASSUME NEW slots \in [Slot -> Buttons \cup {NONE}], NEW i \in Slot, NEW key \in Buttons
  PROVE  /\ slots[i] = NONE =>
              Cardinality(Pressed([slots EXCEPT ![i] = key])) = Cardinality(Pressed(slots)) + 1
         /\ slots[i] # NONE =>
              Cardinality(Pressed([slots EXCEPT ![i] = NONE])) = Cardinality(Pressed(slots)) - 1
<1>1. IsFiniteSet(Pressed(slots))
  BY PressedFinite
<1>2. ASSUME slots[i] = NONE
      PROVE  Cardinality(Pressed([slots EXCEPT ![i] = key])) = Cardinality(Pressed(slots)) + 1
  <2>1. key # NONE
    BY DEF Buttons, NONE
  <2>2. Pressed([slots EXCEPT ![i] = key]) = Pressed(slots) \cup {i} /\ i \notin Pressed(slots)
    BY <1>2, <2>1 DEF Pressed
  <2> QED
    BY <1>1, <2>2, FS_AddElement
<1>3. ASSUME slots[i] # NONE
      PROVE  Cardinality(Pressed([slots EXCEPT ![i] = NONE])) = Cardinality(Pressed(slots)) - 1
  <2>1. Pressed([slots EXCEPT ![i] = NONE]) = Pressed(slots) \ {i} /\ i \in Pressed(slots)
    BY <1>3 DEF Pressed
  <2> QED
    BY <1>1, <2>1, FS_RemoveElement
<1> QED
  BY <1>2, <1>3

\* Whatever the key, a turn of ProcessArray's loop keeps the count right.
LEMMA ProcessKeyCounts ==
  ASSUME NEW s \in KeyArrays, NEW key \in Buttons, NEW now, NEW before, Counted(s)
  PROVE  Counted(ProcessKey(s, key, now, before))
<1>0. s.slots \in [Slot -> Buttons \cup {NONE}] /\ s.num \in 0 .. 255
  BY DEF KeyArrays
<1>1. Counted(StoreAKey(s, key))
  <2>1. CASE Holds(s.slots, NONE)
    <3> DEFINE i == FirstWith(s.slots, NONE)
    <3>1. i \in Slot /\ s.slots[i] = NONE
      BY <2>1, FirstWithIs
    <3>2. Cardinality(Pressed([s.slots EXCEPT ![i] = key])) = s.num + 1
      BY <1>0, <3>1, SlotCount DEF Counted
    <3>3. s.num + 1 \in 0 .. 255
      BY <1>0, <3>2, PressedFinite
    <3>4. UINT8(s.num + 1) = s.num + 1
      BY <1>0, <3>3 DEF UINT8
    <3> HIDE DEF i
    <3> QED
      BY <2>1, <3>2, <3>4 DEF Counted, StoreAKey, i
  <2>2. CASE ~Holds(s.slots, NONE)
    BY <2>2 DEF StoreAKey
  <2> QED
    BY <2>1, <2>2
<1>2. Counted(RemoveAKey(s, key))
  <2>1. CASE Holds(s.slots, key)
    <3> DEFINE i == FirstWith(s.slots, key)
    <3>1. i \in Slot /\ s.slots[i] = key /\ key # NONE
      BY <2>1, FirstWithIs DEF Buttons, NONE
    <3>2. Cardinality(Pressed([s.slots EXCEPT ![i] = NONE])) = s.num - 1
      BY <1>0, <3>1, SlotCount DEF Counted
    <3>3. s.num - 1 \in 0 .. 255
      BY <3>2, PressedFinite
    <3>4. UINT8(s.num - 1) = s.num - 1
      BY <1>0, <3>3 DEF UINT8
    <3> HIDE DEF i
    <3> QED
      BY <2>1, <3>2, <3>4 DEF Counted, RemoveAKey, i
  <2>2. CASE ~Holds(s.slots, key)
    BY <2>2 DEF RemoveAKey
  <2> QED
    BY <2>1, <2>2
<1> QED
  BY <1>1, <1>2 DEF ProcessKey

\* There are slots for two keys and one more.
LEMMA SlotFree ==
  ASSUME NEW slots \in [Slot -> Buttons \cup {NONE}], NEW keys \in SUBSET Buttons, NEW key \in Buttons \ keys,
         StoresEach(slots, keys)
  PROVE  Holds(slots, NONE)
<1>1. 1 \in Slot /\ 2 \in Slot /\ 3 \in Slot
  BY ConstantsAssumption DEF Slot
<1>2. SUFFICES ASSUME \A i \in Slot : slots[i] # NONE PROVE FALSE
  BY DEF Holds
<1>3. slots[1] \in keys /\ slots[2] \in keys /\ slots[3] \in keys
  BY <1>1, <1>2 DEF StoresEach
<1>4. slots[1] # slots[2] /\ slots[2] # slots[3] /\ slots[1] # slots[3]
  BY <1>1, <1>2 DEF StoresEach
<1>5. keys \cup {key} \subseteq {"PWR", "VOL_UP", "VOL_DOWN"} /\ key \notin keys
  BY DEF Buttons
<1> QED
  BY <1>3, <1>4, <1>5

\* A turn of the loop brings the slots up to date with its key.
LEMMA ProcessKeyStores ==
  ASSUME NEW s \in KeyArrays, NEW key \in Buttons, NEW now \in SUBSET Buttons, NEW before,
         NEW keys \in SUBSET Buttons, key \in keys <=> key \in before, StoresEach(s.slots, keys)
  PROVE  StoresEach(ProcessKey(s, key, now, before).slots, (keys \ {key}) \cup (now \cap {key}))
<1>0. s.slots \in [Slot -> Buttons \cup {NONE}] /\ key # NONE
  BY DEF KeyArrays, Buttons, NONE
<1>1. CASE (key \in now) = (key \in before)
  <2>1. (keys \ {key}) \cup (now \cap {key}) = keys
    BY <1>1
  <2> QED
    BY <2>1, <1>1 DEF ProcessKey
<1>2. CASE key \in now /\ key \notin before
  <2> DEFINE i == FirstWith(s.slots, NONE)
             after == [s.slots EXCEPT ![i] = key]
  <2>1. Holds(s.slots, NONE)
    BY <1>0, <1>2, SlotFree
  <2>2. i \in Slot /\ s.slots[i] = NONE
    BY <2>1, FirstWithIs
  <2>3. ProcessKey(s, key, now, before).slots = after
    BY <1>2, <2>1 DEF ProcessKey, StoreAKey
  <2>4. (keys \ {key}) \cup (now \cap {key}) = keys \cup {key} /\ key \notin keys
    BY <1>2
  <2>5. \A j \in Slot : after[j] = IF j = i THEN key ELSE s.slots[j]
    BY <1>0
  <2> HIDE DEF i, after
  <2>6. \A k \in keys \cup {key} : Holds(after, k)
    BY <1>0, <2>2, <2>5 DEF StoresEach, Holds, Buttons, NONE
  <2>7. \A j \in Slot : s.slots[j] # key
    BY <2>4, <1>0 DEF StoresEach
  <2>8. \A j \in Slot : after[j] # NONE => after[j] \in keys \cup {key}
    BY <2>5 DEF StoresEach
  <2>9. \A j, k \in Slot : after[j] = after[k] /\ after[j] # NONE => j = k
    BY <2>5, <2>7 DEF StoresEach
  <2> QED
    BY <2>3, <2>4, <2>6, <2>8, <2>9 DEF StoresEach
<1>3. CASE key \notin now /\ key \in before
  <2> DEFINE i == FirstWith(s.slots, key)
             after == [s.slots EXCEPT ![i] = NONE]
  <2>1. Holds(s.slots, key)
    BY <1>3 DEF StoresEach
  <2>2. i \in Slot /\ s.slots[i] = key
    BY <2>1, FirstWithIs
  <2>3. ProcessKey(s, key, now, before).slots = after
    BY <1>3, <2>1 DEF ProcessKey, RemoveAKey
  <2>4. (keys \ {key}) \cup (now \cap {key}) = keys \ {key}
    BY <1>3
  <2>5. \A j \in Slot : after[j] = IF j = i THEN NONE ELSE s.slots[j]
    BY <1>0
  <2> HIDE DEF i, after
  <2>6. \A k \in keys \ {key} : Holds(after, k)
    BY <2>2, <2>5 DEF StoresEach, Holds
  <2>7. \A j \in Slot : after[j] # NONE => after[j] \in keys \ {key}
    BY <1>0, <2>2, <2>5 DEF StoresEach
  <2>8. \A j, k \in Slot : after[j] = after[k] /\ after[j] # NONE => j = k
    BY <2>5 DEF StoresEach
  <2> QED
    BY <2>3, <2>4, <2>6, <2>7, <2>8 DEF StoresEach
<1> QED
  BY <1>1, <1>2, <1>3

\* After the three turns the slots hold the buttons held now, counted.
LEMMA ProcessArrayStores ==
  ASSUME TypeOK, NEW held \in SUBSET Buttons, StoresEach(keysPressed, matrix[prev]),
         numOfKeysPressed = Cardinality(Pressed(keysPressed))
  PROVE  /\ StoresEach(PressedNow(held).slots, held)
         /\ PressedNow(held).num = Cardinality(Pressed(PressedNow(held).slots))
<1> DEFINE before == matrix[prev]
           s0 == [slots |-> keysPressed, num |-> numOfKeysPressed]
           s1 == ProcessKey(s0, keyMap[1], held, before)
           s2 == ProcessKey(s1, keyMap[2], held, before)
           s3 == ProcessKey(s2, keyMap[3], held, before)
           keys1 == (before \ {keyMap[1]}) \cup (held \cap {keyMap[1]})
           keys2 == (keys1 \ {keyMap[2]}) \cup (held \cap {keyMap[2]})
           keys3 == (keys2 \ {keyMap[3]}) \cup (held \cap {keyMap[3]})
<1>0. before \in SUBSET Buttons /\ s0 \in KeyArrays /\ Counted(s0) /\ StoresEach(s0.slots, before)
  BY DEF TypeOK, prev, KeyArrays, Counted
<1> HIDE DEF before, s0
<1>1. s1 \in KeyArrays /\ Counted(s1) /\ StoresEach(s1.slots, keys1) /\ keys1 \in SUBSET Buttons
  <2>1. keyMap[1] \in Buttons /\ (keyMap[1] \in before <=> keyMap[1] \in before)
    BY KeyMapIs
  <2>2. s1 \in KeyArrays
    BY <1>0, <2>1, ProcessKeyType
  <2>3. Counted(s1)
    BY <1>0, <2>1, ProcessKeyCounts
  <2>4. StoresEach(s1.slots, keys1)
    BY <1>0, <2>1, ProcessKeyStores
  <2> QED
    BY <1>0, <2>2, <2>3, <2>4
<1>2. keyMap[2] \in keys1 <=> keyMap[2] \in before
  BY KeyMapIs
<1> HIDE DEF s1
<1>3. s2 \in KeyArrays /\ Counted(s2) /\ StoresEach(s2.slots, keys2) /\ keys2 \in SUBSET Buttons
  <2>1. keyMap[2] \in Buttons
    BY KeyMapIs
  <2> HIDE DEF keys1
  <2>2. s2 \in KeyArrays
    BY <1>1, <2>1, ProcessKeyType
  <2>3. Counted(s2)
    BY <1>1, <2>1, ProcessKeyCounts
  <2>4. StoresEach(s2.slots, keys2)
    BY <1>1, <1>2, <2>1, ProcessKeyStores
  <2> QED
    BY <1>1, <2>2, <2>3, <2>4
<1>4. keyMap[3] \in keys2 <=> keyMap[3] \in before
  BY KeyMapIs
<1> HIDE DEF s2
<1>5. Counted(s3) /\ StoresEach(s3.slots, keys3)
  <2>1. keyMap[3] \in Buttons
    BY KeyMapIs
  <2> HIDE DEF keys2
  <2>2. Counted(s3)
    BY <1>3, <2>1, ProcessKeyCounts
  <2>3. StoresEach(s3.slots, keys3)
    BY <1>3, <1>4, <2>1, ProcessKeyStores
  <2> QED
    BY <2>2, <2>3
<1>6. keys3 = held
  <2>1. Buttons = {keyMap[1], keyMap[2], keyMap[3]}
    BY KeyMapIs DEF Buttons
  <2> QED
    BY <1>0, <2>1
<1>7. PressedNow(held) = s3
  BY DEF PressedNow, ProcessArray, s0, s1, s2, before
<1> QED
  BY <1>5, <1>6, <1>7 DEF Counted

\* A whole poll leaves the array it read as the one to compare with next.
LEMMA PollMatrix ==
  ASSUME TypeOK, NEW held \in SUBSET Pressable, NEW good \in 0 .. 3, Poll(held, good)
  PROVE  matrix'[prev'] = IF good = 3 THEN held ELSE matrix[prev]
<1>1. good = 3 => Scratch(held, good) = held
  <2> SUFFICES ASSUME good = 3 PROVE Scratch(held, good) = held
    OBVIOUS
  <2>1. \A k \in Buttons : \E i \in 1 .. 3 : k = keyMap[i]
    <3>1. \A k \in Buttons : k = keyMap[1] \/ k = keyMap[2] \/ k = keyMap[3]
      BY KeyMapIs DEF Buttons
    <3> QED
      BY <3>1
  <2>2. \A i \in 1 .. 3 : i <= good
    OBVIOUS
  <2>3. held \subseteq Buttons
    BY ConstantsAssumption
  <2> QED
    BY <2>1, <2>2, <2>3 DEF Scratch
<1>2. matrix' = [matrix EXCEPT ![curr] = Scratch(held, good)] /\ curr' = IF good = 3 THEN prev ELSE curr
  BY DEF Poll
<1> QED
  BY <1>1, <1>2 DEF prev, TypeOK

LEMMA StoresSome ==
  ASSUME NEW slots, NEW keys \in SUBSET Buttons, StoresEach(slots, keys)
  PROVE  Cardinality(Pressed(slots)) = 0 <=> keys = {}
<1>1. Pressed(slots) = {} <=> keys = {}
  BY DEF StoresEach, Pressed, Holds, Buttons, NONE
<1> QED
  BY <1>1, PressedFinite

LEMMA PollSession ==
  ASSUME TypeOK, SessionSound, ~Resetting,
         NEW held \in SUBSET Pressable, NEW good \in 0 .. 3, Poll(held, good),
         pc' = pc \/ pc' \in {"idle", "notify"}
  PROVE  SessionSound'
<1> DEFINE s == PressedNow(held)
<1>0. held \in SUBSET Buttons /\ ~Resetting' /\ pc' \notin {"resetMatrixB", "resetKeysPressed"}
  BY ConstantsAssumption DEF Resetting
<1>1. StoresEach(s.slots, held) /\ s.num = Cardinality(Pressed(s.slots))
  BY <1>0, ProcessArrayStores DEF SessionSound
<1>2. matrix'[prev'] = IF good = 3 THEN held ELSE matrix[prev]
  BY PollMatrix
<1>3. /\ keysPressed' = IF good = 3 THEN s.slots ELSE keysPressed
      /\ numOfKeysPressed' = IF good = 3 THEN s.num ELSE numOfKeysPressed
  BY DEF Poll
<1> HIDE DEF s
<1>4. StoresEach(keysPressed', matrix'[prev']) /\ numOfKeysPressed' = Cardinality(Pressed(keysPressed'))
  BY <1>1, <1>2, <1>3 DEF SessionSound
<1>5. sessionKeys' \in 0 .. 1 /\ (sessionKeys' = 1 => isEfiKeyDetected')
  <2>1. CASE good # 3
    <3>1. sessionKeys' = sessionKeys /\ isEfiKeyDetected' = isEfiKeyDetected
      BY <2>1 DEF Poll, KeyFound
    <3> QED
      BY <3>1 DEF SessionSound
  <2>2. CASE good = 3 /\ held = {}
    <3>1. sessionKeys' = 0
      BY <2>2 DEF Poll
    <3> QED
      BY <3>1
  <2>3. CASE good = 3 /\ held # {} /\ held = matrix[prev]
    <3>1. sessionKeys' = sessionKeys /\ isEfiKeyDetected' = isEfiKeyDetected
      BY <2>3 DEF Poll, KeyFound
    <3> QED
      BY <3>1 DEF SessionSound
  <2>4. CASE good = 3 /\ held # {} /\ held # matrix[prev]
    <3>1. s.num # 0
      BY <2>4, <1>0, <1>1, StoresSome
    <3>2. isEfiKeyDetected' = ConvertEfiKeyCode(s, isEfiKeyDetected).detected
      BY <2>4 DEF Poll, s
    <3>3. KeyFound(held, good) = ConvertEfiKeyCode(s, isEfiKeyDetected).key
      BY <2>4 DEF KeyFound, s
    <3>4. sessionKeys' = IF KeyFound(held, good) # SCAN_NULL THEN sessionKeys + 1 ELSE sessionKeys
      BY <2>4 DEF Poll
    <3>5. CASE isEfiKeyDetected
      <4>1. KeyFound(held, good) = SCAN_NULL /\ isEfiKeyDetected'
        BY <3>5, <3>1, <3>2, <3>3 DEF ConvertEfiKeyCode
      <4> QED
        BY <4>1, <3>4 DEF SessionSound
    <3>6. CASE ~isEfiKeyDetected
      <4>1. sessionKeys = 0
        BY <3>6 DEF SessionSound
      <4>2. KeyFound(held, good) # SCAN_NULL => isEfiKeyDetected'
        BY <3>1, <3>2, <3>3 DEF ConvertEfiKeyCode
      <4> QED
        BY <4>1, <4>2, <3>4
    <3> QED
      BY <3>5, <3>6
  <2> QED
    BY <2>1, <2>2, <2>3, <2>4
<1> QED
  BY <1>0, <1>4, <1>5 DEF SessionSound, prev

LEMMA ResetSession ==
  ASSUME TypeOK, SessionSound, KeysDxeResetCommon
  PROVE  SessionSound'
<1> USE DEF SessionSound, Resetting, prev
<1> USE DEF ResetTo
<1>1. CASE ResetKeyWrite
  BY <1>1 DEF ResetKeyWrite
<1>2. CASE ResetKeyRead
  BY <1>2 DEF ResetKeyRead
<1>3. CASE ResetCount
  BY <1>3 DEF ResetCount
<1>4. CASE ResetTimerWrite
  BY <1>4 DEF ResetTimerWrite
<1>5. CASE ResetTimerRead
  BY <1>5 DEF ResetTimerRead
<1>6. CASE ResetMatrix("A", "resetMatrixA", "resetMatrixB")
  BY <1>6 DEF ResetMatrix, TypeOK
<1>7. CASE ResetMatrix("B", "resetMatrixB", "resetKeysPressed")
  BY <1>7 DEF ResetMatrix, TypeOK
<1>8. CASE ResetKeysPressed
  <2>1. matrix'[prev'] = {} /\ keysPressed' = NoKeys /\ numOfKeysPressed' = 0
    BY <1>8 DEF ResetKeysPressed, TypeOK
  <2>2. StoresEach(NoKeys, {}) /\ Pressed(NoKeys) = {}
    BY DEF StoresEach, NoKeys, Pressed
  <2> QED
    BY <2>1, <2>2, <1>8, FS_EmptySet DEF ResetKeysPressed
<1>9. CASE ResetDetection
  BY <1>9 DEF ResetDetection
<1> QED
  BY <1>1, <1>2, <1>3, <1>4, <1>5, <1>6, <1>7, <1>8, <1>9 DEF KeysDxeResetCommon

\* The invariant of press sessions, while no tick interrupts a reset.
THEOREM SessionsTracked == Spec /\ []Undisturbed => []SessionSound
<1>1. Init => SessionSound
  <2> SUFFICES ASSUME Init PROVE SessionSound
    OBVIOUS
  <2>1. StoresEach(NoKeys, {}) /\ Pressed(NoKeys) = {}
    BY DEF StoresEach, NoKeys, Pressed
  <2>2. matrix[prev] = {} /\ keysPressed = NoKeys /\ numOfKeysPressed = 0 /\ sessionKeys = 0 /\ pc = "idle"
    BY DEF Init, prev
  <2> QED
    BY <2>1, <2>2, FS_EmptySet DEF SessionSound, Resetting
<1>2. TypeOK /\ Undisturbed /\ SessionSound /\ [Next]_vars => SessionSound'
  <2> SUFFICES ASSUME TypeOK, Undisturbed, SessionSound, [Next]_vars PROVE SessionSound'
    OBVIOUS
  <2>1. ASSUME UNCHANGED matrix, UNCHANGED curr, UNCHANGED keysPressed, UNCHANGED numOfKeysPressed,
               UNCHANGED isEfiKeyDetected, UNCHANGED sessionKeys,
               pc' = pc \/ (~Resetting /\ pc' \notin ResetPlaces)
        PROVE  SessionSound'
    BY <2>1 DEF matrixVars, SessionSound, Resetting, ResetPlaces, prev
  <2>2. CASE UNCHANGED vars
    BY <2>2 DEF vars, matrixVars, historyVars, SessionSound, Resetting, prev
  <2>3. CASE Tick
    <3>1. PICK held \in SUBSET Pressable, good \in 0 .. 3 : PollForKeyCallback(held, good)
      BY <2>3 DEF Tick
    <3>2. ~Resetting /\ Poll(held, good) /\ pc' = pc
      BY <3>1 DEF PollForKeyCallback, Undisturbed, Resetting, ResetPlaces
    <3> QED
      BY <3>2, PollSession
  <2>4. ASSUME NEW held \in SUBSET Pressable, NEW good \in 0 .. 3,
               WaitForKeyCallback(held, good) \/ KeysDxeReadKeyStroke(held, good)
               \/ KeysDxeReadKeyStrokeEx(held, good)
        PROVE  SessionSound'
    <3>1. ~Resetting /\ Poll(held, good) /\ (pc' = pc \/ pc' \in {"idle", "notify"})
      BY <2>4 DEF WaitForKeyCallback, KeysDxeReadKeyStroke, KeysDxeReadKeyStrokeEx, ReadAndConsume, Resetting
    <3> QED
      BY <3>1, PollSession
  <2>5. ASSUME NEW code, NEW fn,
               RegisterAgain(code, fn) \/ \E n \in Nodes : KeysDxeRegisterKeyNotify(code, fn, n)
        PROVE  SessionSound'
    BY <2>5, <2>1 DEF RegisterAgain, KeysDxeRegisterKeyNotify, matrixVars, historyVars, Resetting, ResetPlaces
  <2>6. ASSUME NEW n \in Nodes, KeysDxeUnregisterKeyNotify(n) PROVE SessionSound'
    BY <2>6, <2>1 DEF KeysDxeUnregisterKeyNotify, matrixVars, historyVars, Resetting, ResetPlaces
  <2>7. CASE AppStep
    BY <2>7, <2>1 DEF AppStep, ReadExNotify, SetCallbackTimer, FreeNotify, CloseCallbackTimer,
                      matrixVars, historyVars, Resetting, ResetPlaces
  <2> QED
    BY <2>2, <2>3, <2>4, <2>5, <2>6, <2>7, ResetSession DEF Next, AppCall
<1> QED
  BY <1>1, <1>2, TypeCorrect, PTL DEF Spec

\* numOfKeysPressed counts the stored keys, unless a tick interrupts a reset.
THEOREM CountIsRight == Spec /\ []Undisturbed => []PressedCount
<1>1. SessionSound => PressedCount
  BY DEF SessionSound, PressedCount
<1> QED
  BY <1>1, SessionsTracked, PTL

\* One EFI key at most comes of a press session, unless a tick interrupts a reset.
THEOREM SessionGivesOneKey == Spec /\ []Undisturbed => []OneKeyPerSession
<1>1. SessionSound => OneKeyPerSession
  BY DEF SessionSound, OneKeyPerSession
<1> QED
  BY <1>1, SessionsTracked, PTL

\* No tick does when nobody registers, or nobody resets.
THEOREM QuietResets ==
  ASSUME "Register" \notin AppOps \/ "Reset" \notin AppOps
  PROVE  Spec => []Undisturbed
<1> DEFINE Quiet == \/ pc # "register" /\ CallbackTimer # "armed"
                    \/ "Reset" \notin AppOps /\ pc \notin ResetPlaces
<1> USE DEF ResetPlaces
<1>1. Init => Quiet
  BY DEF Init
<1>2. Quiet /\ [Next]_vars => Quiet'
  <2> SUFFICES ASSUME Quiet, [Next]_vars PROVE Quiet'
    OBVIOUS
  <2>1. CASE UNCHANGED vars
    BY <2>1 DEF vars, timerVars
  <2>2. CASE Tick
    BY <2>2 DEF Tick, PollForKeyCallback, timerVars
  <2>3. CASE AppCall
    BY <2>3 DEF AppCall, WaitForKeyCallback, KeysDxeReadKeyStroke, KeysDxeReadKeyStrokeEx,
                RegisterAgain, KeysDxeRegisterKeyNotify, KeysDxeUnregisterKeyNotify, timerVars
  <2>4. CASE AppStep
    BY <2>4 DEF AppStep, ReadExNotify, SetCallbackTimer, FreeNotify, CloseCallbackTimer, timerVars
  <2>5. CASE KeysDxeResetCommon
    BY <2>5 DEF KeysDxeResetCommon, ResetKeyWrite, ResetKeyRead, ResetCount, ResetTimerWrite,
                ResetTimerRead, ResetMatrix, ResetKeysPressed, ResetDetection, ResetTo, timerVars
  <2> QED
    BY <2>1, <2>2, <2>3, <2>4, <2>5 DEF Next
<1>3. Quiet => Undisturbed
  BY DEF Undisturbed
<1> QED
  BY <1>1, <1>2, <1>3, PTL DEF Spec

(***************************************************************************)
(* The notification list.                                                  *)
(***************************************************************************)

\* Whatever step of a call the timer falls on, the list holds allocated nodes
\* of different registrations, and not the one that is being freed.
ListLinked ==
  /\ \A i \in DOMAIN NotifyList : registration[NotifyList[i]] # FreeNode
  /\ \A i, j \in DOMAIN NotifyList :
        registration[NotifyList[i]] = registration[NotifyList[j]] => i = j
  /\ pc = "unregister" => arg \notin Listed

\* Registering appends a node that was free.
LEMMA LinkIs ==
  ASSUME TypeOK, ListLinked, NEW code \in RegCodes, NEW fn \in Fns, NEW n \in Nodes,
         KeysDxeRegisterKeyNotify(code, fn, n)
  PROVE  /\ Len(NotifyList') = Len(NotifyList) + 1 /\ Listed' = Listed \cup {n}
         /\ n \notin Listed /\ ListLinked'
<1>0. /\ NotifyList \in Seq(Nodes) /\ Len(NotifyList) \in Nat /\ DOMAIN NotifyList = 1 .. Len(NotifyList)
      /\ registration \in [Nodes -> Node \cup {FreeNode}]
  BY LenProperties DEF TypeOK
<1>1. /\ NotifyList' = Append(NotifyList, n) /\ registration[n] = FreeNode /\ pc' = "register"
      /\ registration' = [registration EXCEPT ![n] = [code |-> code, fn |-> fn]]
      /\ Registered(code, fn) = {}
  BY DEF KeysDxeRegisterKeyNotify
<1>2. /\ Len(NotifyList') = Len(NotifyList) + 1 /\ DOMAIN NotifyList' = 1 .. Len(NotifyList) + 1
      /\ NotifyList'[Len(NotifyList) + 1] = n
      /\ \A i \in 1 .. Len(NotifyList) : NotifyList'[i] = NotifyList[i]
  BY <1>0, <1>1, AppendProperties, LenProperties
<1>3. n \notin Listed
  BY <1>1 DEF ListLinked, Listed
<1>4. Listed' = Listed \cup {n}
  BY <1>0, <1>2 DEF Listed
<1>5. \A i \in 1 .. Len(NotifyList) : /\ NotifyList[i] \in Listed /\ NotifyList[i] \in Nodes
                                      /\ registration'[NotifyList[i]] = registration[NotifyList[i]]
                                      /\ registration[NotifyList[i]] # [code |-> code, fn |-> fn]
  BY <1>0, <1>1, <1>3 DEF Listed, Registered
<1>6. registration'[n] = [code |-> code, fn |-> fn] /\ registration'[n] # FreeNode
  BY <1>0, <1>1, ConstantsAssumption DEF FreeNode, EfiCodes, SCAN_NULL
<1>7. \A i \in 1 .. Len(NotifyList) + 1 : i = Len(NotifyList) + 1 \/ i \in 1 .. Len(NotifyList)
  BY <1>0
<1>8. \A i \in DOMAIN NotifyList' : registration'[NotifyList'[i]] # FreeNode
  BY <1>0, <1>2, <1>5, <1>6, <1>7 DEF ListLinked
<1>9. \A i, j \in DOMAIN NotifyList' :
        registration'[NotifyList'[i]] = registration'[NotifyList'[j]] => i = j
  BY <1>0, <1>2, <1>5, <1>6, <1>7 DEF ListLinked
<1> QED
  BY <1>1, <1>2, <1>3, <1>4, <1>8, <1>9 DEF ListLinked

\* Unregistering takes exactly its node out.
LEMMA UnlinkIs ==
  ASSUME TypeOK, ListLinked, NEW n \in Nodes, KeysDxeUnregisterKeyNotify(n)
  PROVE  /\ Len(NotifyList') = Len(NotifyList) - 1 /\ Listed' = Listed \ {n}
         /\ NotifyList # <<>> /\ ListLinked'
<1>0. /\ NotifyList \in Seq(Nodes) /\ Len(NotifyList) \in Nat /\ DOMAIN NotifyList = 1 .. Len(NotifyList)
  BY LenProperties DEF TypeOK
<1>1. PICK i \in 1 .. Len(NotifyList) :
        NotifyList[i] = n /\ NotifyList' = Lists!RemoveAt(NotifyList, i)
  BY <1>0 DEF KeysDxeUnregisterKeyNotify
<1>2. /\ NotifyList' \in Seq(Nodes) /\ Len(NotifyList') = Len(NotifyList) - 1
      /\ \A j \in 1 .. Len(NotifyList) - 1 :
           NotifyList'[j] = IF j < i THEN NotifyList[j] ELSE NotifyList[j + 1]
  BY <1>0, <1>1, RemoveAtProperties DEF Lists!RemoveAt
<1>3. DOMAIN NotifyList' = 1 .. Len(NotifyList) - 1
  BY <1>2, LenProperties
<1>4. registration' = registration /\ pc' = "unregister" /\ arg' = n
  BY DEF KeysDxeUnregisterKeyNotify
<1> DEFINE old(j) == IF j < i THEN j ELSE j + 1
<1>5. \A j \in 1 .. Len(NotifyList) - 1 :
        old(j) \in 1 .. Len(NotifyList) /\ old(j) # i /\ NotifyList'[j] = NotifyList[old(j)]
  BY <1>0, <1>2
<1>6. \A j, k \in 1 .. Len(NotifyList) - 1 : old(j) = old(k) => j = k
  BY <1>0
<1>7. \A k \in 1 .. Len(NotifyList) : k # i => \E j \in 1 .. Len(NotifyList) - 1 : old(j) = k
  <2> TAKE k \in 1 .. Len(NotifyList)
  <2> HAVE k # i
  <2>1. CASE k < i
    <3>1. k \in 1 .. Len(NotifyList) - 1 /\ old(k) = k
      BY <2>1, <1>0
    <3> QED
      BY <3>1
  <2>2. CASE k > i
    <3>1. k - 1 \in 1 .. Len(NotifyList) - 1 /\ old(k - 1) = k
      BY <2>2, <1>0
    <3> QED
      BY <3>1
  <2> QED
    BY <2>1, <2>2, <1>0
<1> HIDE DEF old
<1>8. \A j, k \in 1 .. Len(NotifyList) : registration[NotifyList[j]] = registration[NotifyList[k]] => j = k
  BY <1>0 DEF ListLinked
<1>9. \A k \in 1 .. Len(NotifyList) : NotifyList[k] = n => k = i
  BY <1>1, <1>8
<1>10. Listed' = Listed \ {n}
  <2>1. Listed = {NotifyList[k] : k \in 1 .. Len(NotifyList)}
    BY <1>0 DEF Listed
  <2>2. Listed' = {NotifyList'[k] : k \in 1 .. Len(NotifyList) - 1}
    BY <1>3 DEF Listed
  <2>3. ASSUME NEW m \in Listed', m \notin Listed \ {n} PROVE FALSE
    <3>1. PICK j \in 1 .. Len(NotifyList) - 1 : m = NotifyList'[j]
      BY <2>2, <2>3
    <3> QED
      BY <3>1, <2>1, <2>3, <1>5, <1>9
  <2>4. ASSUME NEW m \in Listed \ {n} PROVE m \in Listed'
    <3>1. PICK k \in 1 .. Len(NotifyList) : m = NotifyList[k]
      BY <2>1, <2>4
    <3>2. PICK j \in 1 .. Len(NotifyList) - 1 : old(j) = k
      BY <3>1, <2>4, <1>1, <1>7
    <3> QED
      BY <3>1, <3>2, <2>2, <1>5
  <2> QED
    BY <2>3, <2>4
<1>11. \A j \in DOMAIN NotifyList' : registration'[NotifyList'[j]] # FreeNode
  BY <1>0, <1>3, <1>4, <1>5 DEF ListLinked
<1>12. \A j, k \in DOMAIN NotifyList' :
         registration'[NotifyList'[j]] = registration'[NotifyList'[k]] => j = k
  BY <1>3, <1>4, <1>5, <1>6, <1>8
<1>13. NotifyList # <<>>
  BY <1>0, <1>1, EmptySeq
<1> QED
  BY <1>2, <1>4, <1>10, <1>11, <1>12, <1>13 DEF ListLinked

\* The steps that leave the list's links and its nodes alone.
LEMMA LinksKept ==
  ASSUME ListLinked, UNCHANGED NotifyList, UNCHANGED registration,
         (pc' = pc /\ arg' = arg) \/ pc' # "unregister"
  PROVE  ListLinked'
BY DEF ListLinked, Listed

LEMMA FreeKeepsLinks ==
  ASSUME TypeOK, ListLinked, FreeNotify
  PROVE  ListLinked' /\ NotifyList' = NotifyList
<1>1. /\ NotifyList' = NotifyList /\ arg \in Nodes /\ arg \notin Listed /\ pc' # "unregister"
      /\ registration' = [registration EXCEPT ![arg] = FreeNode]
  BY DEF FreeNotify, ListLinked, TypeOK
<1>2. \A i \in DOMAIN NotifyList : /\ NotifyList[i] \in Nodes
                                   /\ registration'[NotifyList[i]] = registration[NotifyList[i]]
  BY <1>1, LenProperties DEF Listed, TypeOK
<1> QED
  BY <1>1, <1>2 DEF ListLinked

LEMMA ListLinkedKept ==
  ASSUME TypeOK, ListLinked, [Next]_vars
  PROVE  ListLinked'
<1>1. CASE UNCHANGED vars
  BY <1>1 DEF vars, listVars, ListLinked, Listed
<1>2. CASE Tick
  BY <1>2, LinksKept DEF Tick, PollForKeyCallback, listVars
<1>3. ASSUME NEW held, NEW good, WaitForKeyCallback(held, good) \/ KeysDxeReadKeyStroke(held, good)
                                 \/ KeysDxeReadKeyStrokeEx(held, good)
      PROVE  ListLinked'
  BY <1>3, LinksKept DEF WaitForKeyCallback, KeysDxeReadKeyStroke, KeysDxeReadKeyStrokeEx, listVars
<1>4. ASSUME NEW code, NEW fn, RegisterAgain(code, fn) PROVE ListLinked'
  BY <1>4, LinksKept DEF RegisterAgain
<1>5. CASE ReadExNotify \/ SetCallbackTimer \/ CloseCallbackTimer
  BY <1>5, LinksKept DEF ReadExNotify, SetCallbackTimer, CloseCallbackTimer, listVars
<1>6. CASE KeysDxeResetCommon
  BY <1>6, LinksKept DEF KeysDxeResetCommon, ResetKeyWrite, ResetKeyRead, ResetCount, ResetTimerWrite,
     ResetTimerRead, ResetMatrix, ResetKeysPressed, ResetDetection, ResetTo, listVars
<1> QED
  BY <1>1, <1>2, <1>3, <1>4, <1>5, <1>6, LinkIs, UnlinkIs, FreeKeepsLinks DEF Next, AppCall, AppStep

\* The count is the list's length, with the node that is off the list and not yet freed.
ListCounted == numOfKeyRegistrations = Len(NotifyList) + (IF pc = "unregister" THEN 1 ELSE 0)

\* No more nodes are linked than the pool has.
LEMMA ListFits ==
  ASSUME TypeOK, ListLinked, IsFiniteSet(Nodes)
  PROVE  Len(NotifyList) = Cardinality(Listed) /\ Len(NotifyList) <= Cardinality(Nodes)
<1>0. /\ Len(NotifyList) \in Nat /\ DOMAIN NotifyList = 1 .. Len(NotifyList)
      /\ NotifyList \in [1 .. Len(NotifyList) -> Nodes] /\ Listed \in SUBSET Nodes
  BY LenProperties, ListedFinite DEF TypeOK
<1>1. NotifyList \in Bijection(1 .. Len(NotifyList), Listed)
  <2>1. \A i, j \in 1 .. Len(NotifyList) : NotifyList[i] = NotifyList[j] => i = j
    BY <1>0 DEF ListLinked
  <2>2. NotifyList \in [1 .. Len(NotifyList) -> Listed]
    BY <1>0 DEF Listed
  <2>3. \A m \in Listed : \E i \in 1 .. Len(NotifyList) : NotifyList[i] = m
    BY <1>0 DEF Listed
  <2>4. NotifyList \in Injection(1 .. Len(NotifyList), Listed)
    BY <2>1, <2>2 DEF Injection, IsInjective
  <2>5. NotifyList \in Surjection(1 .. Len(NotifyList), Listed)
    BY <2>2, <2>3 DEF Surjection
  <2> QED
    BY <2>4, <2>5 DEF Bijection
<1>2. IsFiniteSet(1 .. Len(NotifyList)) /\ Cardinality(1 .. Len(NotifyList)) = Len(NotifyList)
  <2>1. /\ IsFiniteSet(1 .. Len(NotifyList))
        /\ Cardinality(1 .. Len(NotifyList)) = IF 1 > Len(NotifyList) THEN 0
                                               ELSE Len(NotifyList) - 1 + 1
    BY <1>0, FS_Interval
  <2> QED
    BY <1>0, <2>1
<1>3. Cardinality(Listed) = Len(NotifyList)
  BY <1>1, <1>2, FS_Bijection DEF ExistsBijection
<1>4. Cardinality(Listed) <= Cardinality(Nodes)
  BY <1>0, FS_Subset
<1> QED
  BY <1>3, <1>4

LEMMA ListCountedKept ==
  ASSUME TypeOK, ListLinked, ListCounted, IsFiniteSet(Nodes), Cardinality(Nodes) <= 255, [Next]_vars
  PROVE  ListCounted'
<1> USE DEF ListCounted
<1>0. Len(NotifyList) \in Nat /\ Cardinality(Nodes) \in Nat
  BY LenProperties, FS_CardinalityType DEF TypeOK
<1>1. CASE UNCHANGED vars
  BY <1>1 DEF vars, listVars
<1>2. CASE Tick
  BY <1>2 DEF Tick, PollForKeyCallback, listVars
<1>3. ASSUME NEW held, NEW good, WaitForKeyCallback(held, good) \/ KeysDxeReadKeyStroke(held, good)
                                 \/ KeysDxeReadKeyStrokeEx(held, good)
      PROVE  ListCounted'
  BY <1>3 DEF WaitForKeyCallback, KeysDxeReadKeyStroke, KeysDxeReadKeyStrokeEx, listVars
<1>4. ASSUME NEW code, NEW fn, RegisterAgain(code, fn) PROVE ListCounted'
  BY <1>4 DEF RegisterAgain
<1>5. ASSUME NEW code \in RegCodes, NEW fn \in Fns, NEW n \in Nodes, KeysDxeRegisterKeyNotify(code, fn, n)
      PROVE  ListCounted'
  <2>1. /\ pc = "idle" /\ pc' = "register"
        /\ numOfKeyRegistrations' = UINT8(numOfKeyRegistrations + 1)
    BY <1>5 DEF KeysDxeRegisterKeyNotify
  <2>2. Len(NotifyList') = Len(NotifyList) + 1 /\ Listed' = Listed \cup {n} /\ n \notin Listed
    BY <1>5, LinkIs
  <2>3. Len(NotifyList) + 1 <= Cardinality(Nodes)
    <3>1. Len(NotifyList) = Cardinality(Listed) /\ Listed \subseteq Nodes /\ IsFiniteSet(Listed)
      BY ListFits, ListedFinite DEF TypeOK
    <3>2. Cardinality(Listed \cup {n}) = Cardinality(Listed) + 1
      BY <3>1, <2>2, FS_AddElement
    <3>3. Cardinality(Listed \cup {n}) <= Cardinality(Nodes)
      BY <3>1, FS_Subset
    <3> QED
      BY <3>1, <3>2, <3>3
  <2>4. UINT8(Len(NotifyList) + 1) = Len(NotifyList) + 1
    BY <1>0, <2>3 DEF UINT8
  <2> QED
    BY <2>1, <2>2, <2>4
<1>6. ASSUME NEW n \in Nodes, KeysDxeUnregisterKeyNotify(n) PROVE ListCounted'
  <2>1. pc = "idle" /\ pc' = "unregister" /\ numOfKeyRegistrations' = numOfKeyRegistrations
    BY <1>6 DEF KeysDxeUnregisterKeyNotify
  <2>2. Len(NotifyList') = Len(NotifyList) - 1
    BY <1>6, UnlinkIs
  <2> QED
    BY <2>1, <2>2, <1>0
<1>7. CASE ReadExNotify \/ SetCallbackTimer \/ CloseCallbackTimer
  BY <1>7 DEF ReadExNotify, SetCallbackTimer, CloseCallbackTimer, listVars
<1>8. CASE FreeNotify
  <2>1. /\ pc = "unregister" /\ pc' # "unregister" /\ NotifyList' = NotifyList
        /\ numOfKeyRegistrations' = UINT8(numOfKeyRegistrations - 1)
    BY <1>8 DEF FreeNotify
  <2>2. UINT8(Len(NotifyList)) = Len(NotifyList)
    BY <1>0, ListFits DEF UINT8
  <2> QED
    BY <2>1, <2>2, <1>0
<1>9. CASE KeysDxeResetCommon
  BY <1>9 DEF KeysDxeResetCommon, ResetKeyWrite, ResetKeyRead, ResetCount, ResetTimerWrite,
     ResetTimerRead, ResetMatrix, ResetKeysPressed, ResetDetection, ResetTo, listVars
<1> QED
  BY <1>1, <1>2, <1>3, <1>4, <1>5, <1>6, <1>7, <1>8, <1>9 DEF Next, AppCall, AppStep

LEMMA ListStart == Init => ListLinked /\ ListCounted /\ Listed = {} /\ NotifyList = <<>>
BY EmptySeq DEF Init, ListLinked, ListCounted, Listed

\* What the links are at every step.
THEOREM LinksSound == Spec => []ListLinked
<1>1. Init => ListLinked
  BY ListStart
<1> QED
  BY <1>1, ListLinkedKept, TypeCorrect, PTL DEF Spec

\* The list the timer walks holds allocated nodes, each once, and is counted,
\* for any pool whose nodes 8 bits can count.
THEOREM ListStaysSound ==
  ASSUME IsFiniteSet(Nodes), Cardinality(Nodes) <= 255
  PROVE  Spec => []ListSound
<1>1. Init => ListCounted
  BY ListStart
<1>2. TypeOK /\ ListLinked /\ ListCounted /\ [Next]_vars => ListCounted'
  BY ListCountedKept
<1>3. TypeOK /\ ListLinked /\ ListCounted => ListSound
  <2> SUFFICES ASSUME TypeOK, ListLinked, ListCounted PROVE ListSound
    OBVIOUS
  <2>1. Len(NotifyList) \in Nat
    BY LenProperties DEF TypeOK
  <2> QED
    BY <2>1 DEF ListLinked, ListCounted, ListSound
<1> QED
  BY <1>1, <1>2, <1>3, TypeCorrect, LinksSound, PTL DEF Spec

(***************************************************************************)
(* Registrations are served.                                               *)
(***************************************************************************)

\* Who holds which handle and how the timer stands at each step of a call.
ListServed ==
  /\ Listed \subseteq handles \cup (IF pc = "register" THEN {arg} ELSE {})
  /\ pc = "register" => CallbackTimer # "closed"
  /\ NotifyList # <<>> /\ (pc = "register" => Len(NotifyList) # 1) => CallbackTimer = "armed" /\ TimerRunning
  /\ pc = "closeTimer" => NotifyList = <<>>

LEMMA ListServedKept ==
  ASSUME TypeOK, ListLinked, ListCounted, ListServed, ~Reregister, [Next]_vars
  PROVE  ListServed'
<1>0. NotifyList \in Seq(Nodes) /\ Len(NotifyList) \in Nat /\ (NotifyList = <<>> <=> Len(NotifyList) = 0)
  BY LenProperties, EmptySeq DEF TypeOK
<1>1. ASSUME UNCHANGED NotifyList, UNCHANGED handles, UNCHANGED CallbackTimer, UNCHANGED TimerRunning,
             (pc' = pc /\ arg' = arg) \/ {pc, pc'} \cap {"register", "closeTimer"} = {}
      PROVE  ListServed'
  BY <1>1 DEF ListServed, Listed
<1>2. CASE UNCHANGED vars
  BY <1>2 DEF vars, listVars, timerVars, ListServed, Listed
<1>3. CASE Tick
  BY <1>3, <1>1 DEF Tick, PollForKeyCallback, listVars, timerVars
<1>4. ASSUME NEW held, NEW good, WaitForKeyCallback(held, good) \/ KeysDxeReadKeyStroke(held, good)
                                 \/ KeysDxeReadKeyStrokeEx(held, good)
      PROVE  ListServed'
  BY <1>4, <1>1 DEF WaitForKeyCallback, KeysDxeReadKeyStroke, KeysDxeReadKeyStrokeEx, listVars, timerVars
<1>5. ASSUME NEW code, NEW fn, RegisterAgain(code, fn) PROVE ListServed'
  BY <1>5 DEF RegisterAgain, ListServed, Listed, timerVars
<1>6. ASSUME NEW code \in RegCodes, NEW fn \in Fns, NEW n \in Nodes, KeysDxeRegisterKeyNotify(code, fn, n)
      PROVE  ListServed'
  <2>1. /\ pc = "idle" /\ pc' = "register" /\ arg' = n /\ CallbackTimer # "closed"
        /\ handles' = handles /\ CallbackTimer' = CallbackTimer /\ TimerRunning' = TimerRunning
    BY <1>6 DEF KeysDxeRegisterKeyNotify, timerVars
  <2>2. Len(NotifyList') = Len(NotifyList) + 1 /\ Listed' = Listed \cup {n}
    BY <1>6, LinkIs
  <2> QED
    BY <2>1, <2>2, <1>0 DEF ListServed
<1>7. ASSUME NEW n \in Nodes, KeysDxeUnregisterKeyNotify(n) PROVE ListServed'
  <2>1. /\ pc = "idle" /\ pc' = "unregister" /\ handles' = handles \ {n}
        /\ CallbackTimer' = CallbackTimer /\ TimerRunning' = TimerRunning
    BY <1>7 DEF KeysDxeUnregisterKeyNotify, timerVars
  <2>2. Listed' = Listed \ {n} /\ NotifyList # <<>>
    BY <1>7, UnlinkIs
  <2> QED
    BY <2>1, <2>2 DEF ListServed
<1>8. CASE ReadExNotify
  BY <1>8, <1>1 DEF ReadExNotify, listVars, timerVars
<1>9. CASE SetCallbackTimer
  <2>1. /\ pc = "register" /\ pc' = "idle" /\ NotifyList' = NotifyList /\ CallbackTimer # "closed"
        /\ numOfKeyRegistrations = Len(NotifyList)
    BY <1>9 DEF SetCallbackTimer, ListServed, ListCounted
  <2>2. /\ handles' = handles \cup {arg}
        /\ IF numOfKeyRegistrations # 1
           THEN CallbackTimer' = CallbackTimer /\ TimerRunning' = TimerRunning
           ELSE CallbackTimer' = "armed" /\ TimerRunning'
    BY <1>9, <2>1 DEF SetCallbackTimer, timerVars
  <2>3. Listed' = Listed
    BY <2>1 DEF Listed
  <2> QED
    BY <2>1, <2>2, <2>3 DEF ListServed
<1>10. CASE FreeNotify
  <2>1. /\ pc = "unregister" /\ NotifyList' = NotifyList /\ handles' = handles
        /\ CallbackTimer' = CallbackTimer /\ TimerRunning' = TimerRunning
        /\ pc' = IF numOfKeyRegistrations = 1 THEN "closeTimer" ELSE "idle"
    BY <1>10 DEF FreeNotify, timerVars
  <2>2. numOfKeyRegistrations = Len(NotifyList) + 1
    BY <2>1 DEF ListCounted
  <2>3. Listed' = Listed
    BY <2>1 DEF Listed
  <2> QED
    BY <2>1, <2>2, <2>3, <1>0 DEF ListServed
<1>11. CASE CloseCallbackTimer
  BY <1>11, <1>0 DEF CloseCallbackTimer, listVars, ListServed, Listed
<1>12. CASE KeysDxeResetCommon
  BY <1>12, <1>1 DEF KeysDxeResetCommon, ResetKeyWrite, ResetKeyRead, ResetCount, ResetTimerWrite,
     ResetTimerRead, ResetMatrix, ResetKeysPressed, ResetDetection, ResetTo, listVars, timerVars
<1> QED
  BY <1>2, <1>3, <1>4, <1>5, <1>6, <1>7, <1>8, <1>9, <1>10, <1>11, <1>12 DEF Next, AppCall, AppStep

\* Between calls a listed registration has its handle out and its timer armed,
\* if nobody registers again after the last one left.
THEOREM RegistrationsServed ==
  ASSUME IsFiniteSet(Nodes), Cardinality(Nodes) <= 255, ~Reregister
  PROVE  Spec => []RegistrationServed
<1>1. Init => ListCounted /\ ListServed
  BY ListStart DEF Init, ListServed
<1>2. TypeOK /\ ListLinked /\ ListCounted /\ ListServed /\ [Next]_vars => ListCounted' /\ ListServed'
  BY ListCountedKept, ListServedKept
<1>3. ListServed => RegistrationServed
  BY DEF ListServed, RegistrationServed
<1> QED
  BY <1>1, <1>2, <1>3, TypeCorrect, LinksSound, PTL DEF Spec

(***************************************************************************)
(* A key is notified once, as long as only the timer notifies.             *)
(***************************************************************************)

\* The keys are different ones of the first last, and nobody was told of them.
Untold(keys, last, told) ==
  /\ \A i \in DOMAIN keys : keys[i].id \in 1 .. last
  /\ \A i, j \in DOMAIN keys : keys[i].id = keys[j].id => i = j
  /\ \A c \in (1 .. MaxKeys) \X Fns, i \in DOMAIN keys : c[1] = keys[i].id => told[c] = 0

NotifiedOnce ==
  /\ pc # "notify"
  /\ TimerRunning <=> CallbackTimer = "armed"
  /\ CallbackTimer = "armed" => Untold(Contents(timerRing), made, calls)
  /\ CallbackTimer # "armed" =>
       timerRing.write = IF pc = "resetTimerRead" THEN 0 ELSE timerRing.read
  /\ \A c \in (1 .. MaxKeys) \X Fns : calls[c] \in 0 .. 1 /\ (c[1] > made => calls[c] = 0)

\* One listed registration at most has a key's code and a given function.
LEMMA OneMatches ==
  ASSUME TypeOK, ListLinked, NEW key, NEW fn
  PROVE  Cardinality({n \in Matching(key) : registration[n].fn = fn}) \in 0 .. 1
<1> DEFINE S == {n \in Matching(key) : registration[n].fn = fn}
<1>1. /\ DOMAIN NotifyList = 1 .. Len(NotifyList) /\ \A i \in DOMAIN NotifyList : NotifyList[i] \in Nodes
      /\ \A n \in Nodes : registration[n] \in [code : RegCodes \cup {SCAN_NULL}, fn : Fns \cup {NONE}]
  BY LenProperties DEF TypeOK, Node, FreeNode
<1>2. ASSUME NEW m \in S, NEW n \in S PROVE m = n
  <2>1. PICK i \in DOMAIN NotifyList : m = NotifyList[i]
    BY DEF Matching
  <2>2. PICK j \in DOMAIN NotifyList : n = NotifyList[j]
    BY DEF Matching
  <2>3. registration[m].code = registration[n].code /\ registration[m].fn = registration[n].fn
    BY DEF Matching, IsKeyRegistered
  <2>4. registration[m] = registration[n]
    BY <2>1, <2>2, <2>3, <1>1
  <2> QED
    BY <2>1, <2>2, <2>4 DEF ListLinked
<1>3. CASE S = {}
  BY <1>3, FS_EmptySet
<1>4. CASE S # {}
  <2>1. PICK m \in S : TRUE
    BY <1>4
  <2>2. S = {m}
    BY <2>1, <1>2
  <2>3. Cardinality({m}) = 1
    BY FS_Singleton
  <2> QED
    BY <2>2, <2>3
<1> QED
  BY <1>3, <1>4

\* A poll adds the key it found to the timer ring while the timer runs.
LEMMA PollTimerRing ==
  ASSUME TypeOK, NotifiedOnce, MaxUnread < MAX_KEYS_TO_BUFFER,
         NEW held \in SUBSET Pressable, NEW good \in 0 .. 3, Poll(held, good)
  PROVE  /\ made' \in Nat /\ made' >= made
         /\ CallbackTimer # "armed" => TimerRingAfter(held, good) = timerRing
         /\ CallbackTimer = "armed" =>
              /\ Untold(Contents(TimerRingAfter(held, good)), made', calls)
              /\ KeyFound(held, good) # SCAN_NULL => Pending(TimerRingAfter(held, good))
<1>1. made \in Nat /\ made' = IF KeyFound(held, good) # SCAN_NULL THEN made + 1 ELSE made
  BY DEF Poll, TypeOK
<1>2. CallbackTimer # "armed" => TimerRingAfter(held, good) = timerRing
  BY DEF TimerRingAfter, NotifiedOnce
<1>3. CASE KeyFound(held, good) = SCAN_NULL
  BY <1>1, <1>2, <1>3 DEF TimerRingAfter, NotifiedOnce
<1>4. CASE KeyFound(held, good) # SCAN_NULL /\ CallbackTimer # "armed"
  BY <1>1, <1>2, <1>4
<1>5. CASE KeyFound(held, good) # SCAN_NULL /\ CallbackTimer = "armed"
  <2> DEFINE key == NewKey(held, good)
             keys == Contents(timerRing)
  <2>1. TimerRingAfter(held, good) = Push(timerRing, key)
    BY <1>5 DEF TimerRingAfter, NotifiedOnce
  <2>2. timerRing \in Ring /\ key \in Key /\ key.id = made + 1
    BY PollType DEF TypeOK, NewKey
  <2>3. Waiting(timerRing) < MAX_KEYS_TO_BUFFER - 1 /\ Waiting(timerRing) \in Nat
    <3>1. Waiting(timerRing) < MaxUnread
      BY <1>5 DEF Poll
    <3> QED
      BY <3>1, <2>2, WaitingIs, ConstantsAssumption
  <2>4. /\ Push(timerRing, key) \in Ring /\ Waiting(Push(timerRing, key)) = Waiting(timerRing) + 1
        /\ Contents(Push(timerRing, key)) = Append(keys, key)
    BY <2>2, <2>3, PushAppends
  <2>5. keys \in Seq(Key) /\ Len(keys) \in Nat /\ DOMAIN keys = 1 .. Len(keys)
    BY <2>2, ContentsIs, LenProperties
  <2>6. /\ DOMAIN Append(keys, key) = 1 .. Len(keys) + 1 /\ Append(keys, key)[Len(keys) + 1] = key
        /\ \A i \in 1 .. Len(keys) : Append(keys, key)[i] = keys[i]
    BY <2>2, <2>5, AppendProperties, LenProperties
  <2>7. Untold(keys, made, calls)
    BY <1>5 DEF NotifiedOnce
  <2>8. \A i \in 1 .. Len(keys) + 1 : i = Len(keys) + 1 \/ i \in 1 .. Len(keys)
    BY <2>5
  <2>9. \A i \in 1 .. Len(keys) : keys[i].id \in 1 .. made
    BY <2>5, <2>7 DEF Untold
  <2> HIDE DEF keys, key
  <2>10. \A i \in DOMAIN Append(keys, key) : Append(keys, key)[i].id \in 1 .. made + 1
    BY <2>2, <2>6, <2>8, <2>9, <1>1
  <2>11. \A i, j \in DOMAIN Append(keys, key) : Append(keys, key)[i].id = Append(keys, key)[j].id => i = j
    <3>1. \A i, j \in 1 .. Len(keys) : keys[i].id = keys[j].id => i = j
      BY <2>5, <2>7 DEF Untold
    <3>2. \A i \in 1 .. Len(keys) : keys[i].id # key.id
      BY <2>2, <2>9, <1>1
    <3> QED
      BY <3>1, <3>2, <2>6, <2>8
  <2>12. \A c \in (1 .. MaxKeys) \X Fns, i \in DOMAIN Append(keys, key) :
           c[1] = Append(keys, key)[i].id => calls[c] = 0
    <3>1. \A c \in (1 .. MaxKeys) \X Fns : c[1] = made + 1 => calls[c] = 0
      BY <1>1 DEF NotifiedOnce
    <3>2. \A c \in (1 .. MaxKeys) \X Fns, i \in 1 .. Len(keys) : c[1] = keys[i].id => calls[c] = 0
      BY <2>5, <2>7 DEF Untold
    <3> QED
      BY <3>1, <3>2, <2>2, <2>6, <2>8
  <2>13. Pending(Push(timerRing, key))
    BY <2>3, <2>4, WaitingIs
  <2>14. made' = made + 1
    BY <1>1, <1>5
  <2> QED
    BY <1>1, <2>1, <2>4, <2>10, <2>11, <2>12, <2>13, <2>14, <1>5 DEF Untold, key
<1> QED
  BY <1>3, <1>4, <1>5

\* The oldest key is told of, and the others stay untold.
LEMMA TickTells ==
  ASSUME TypeOK, ListLinked, NEW ring \in Ring, Pending(ring), NEW last \in Nat,
         Untold(Contents(ring), last, calls),
         \A c \in (1 .. MaxKeys) \X Fns : calls[c] \in 0 .. 1 /\ (c[1] > last => calls[c] = 0)
  PROVE  /\ Untold(Contents(Pop(ring)), last, Notified(Front(ring)))
         /\ \A c \in (1 .. MaxKeys) \X Fns :
              /\ Notified(Front(ring))[c] \in 0 .. 1
              /\ c[1] > last => Notified(Front(ring))[c] = 0
<1> DEFINE keys == Contents(ring)
           key == Front(ring)
           told == Notified(key)
<1>1. keys \in Seq(Key) /\ Len(keys) \in Nat /\ DOMAIN keys = 1 .. Len(keys)
  BY ContentsIs, LenProperties
<1>2. keys # <<>> /\ key = Head(keys) /\ Contents(Pop(ring)) = Tail(keys) /\ key \in Key
  BY PopTakesHead
<1>3. /\ Len(keys) >= 1 /\ key = keys[1]
      /\ DOMAIN Tail(keys) = 1 .. Len(keys) - 1
      /\ \A i \in 1 .. Len(keys) - 1 : Tail(keys)[i] = keys[i + 1]
  BY <1>1, <1>2, EmptySeq, HeadTailProperties, LenProperties
<1>4. \A c \in (1 .. MaxKeys) \X Fns :
        /\ c[1] # key.id => told[c] = calls[c]
        /\ c[1] = key.id => told[c] \in 0 .. 1
  <2> TAKE c \in (1 .. MaxKeys) \X Fns
  <2>1. told[c] = calls[c] + (IF c[1] = key.id
                              THEN Cardinality({n \in Matching(key) : registration[n].fn = c[2]})
                              ELSE 0)
    BY DEF Notified
  <2>2. Cardinality({n \in Matching(key) : registration[n].fn = c[2]}) \in 0 .. 1
    BY OneMatches
  <2>3. c[1] = key.id => calls[c] = 0
    BY <1>1, <1>3 DEF Untold
  <2>4. calls[c] \in 0 .. 1
    OBVIOUS
  <2> QED
    BY <2>1, <2>2, <2>3, <2>4
<1>5. Untold(keys, last, calls)
  OBVIOUS
<1>6. key.id \in 1 .. last
  BY <1>1, <1>3, <1>5 DEF Untold
<1>7. \A i \in 1 .. Len(keys) - 1 : keys[i + 1].id # key.id /\ i + 1 \in 1 .. Len(keys)
  BY <1>1, <1>3, <1>5 DEF Untold
<1> HIDE DEF keys, key, told
<1>8. Untold(Tail(keys), last, told)
  <2>1. \A i \in DOMAIN Tail(keys) : Tail(keys)[i].id \in 1 .. last
    BY <1>1, <1>3, <1>5, <1>7 DEF Untold
  <2>2. \A i, j \in DOMAIN Tail(keys) : Tail(keys)[i].id = Tail(keys)[j].id => i = j
    <3> TAKE i, j \in DOMAIN Tail(keys)
    <3> HAVE Tail(keys)[i].id = Tail(keys)[j].id
    <3>1. keys[i + 1].id = keys[j + 1].id
      BY <1>3
    <3>2. i + 1 = j + 1
      BY <3>1, <1>1, <1>3, <1>5, <1>7 DEF Untold
    <3> QED
      BY <3>2, <1>1, <1>3
  <2>3. \A c \in (1 .. MaxKeys) \X Fns, i \in DOMAIN Tail(keys) : c[1] = Tail(keys)[i].id => told[c] = 0
    <3> TAKE c \in (1 .. MaxKeys) \X Fns, i \in DOMAIN Tail(keys)
    <3> HAVE c[1] = Tail(keys)[i].id
    <3>1. c[1] = keys[i + 1].id /\ c[1] # key.id
      BY <1>3, <1>7
    <3>2. calls[c] = 0
      BY <3>1, <1>1, <1>3, <1>5, <1>7 DEF Untold
    <3> QED
      BY <3>1, <3>2, <1>4
  <2> QED
    BY <2>1, <2>2, <2>3 DEF Untold
<1>9. \A c \in (1 .. MaxKeys) \X Fns : told[c] \in 0 .. 1 /\ (c[1] > last => told[c] = 0)
  BY <1>4, <1>6
<1> QED
  BY <1>2, <1>8, <1>9 DEF told, key, keys

LEMMA TickNotifies ==
  ASSUME TypeOK, ListLinked, NotifiedOnce, MaxUnread < MAX_KEYS_TO_BUFFER,
         NEW held \in SUBSET Pressable, NEW good \in 0 .. 3, PollForKeyCallback(held, good)
  PROVE  NotifiedOnce'
<1> DEFINE ring == TimerRingAfter(held, good)
           ready == KeyFound(held, good) # SCAN_NULL \/ Pending(ring)
<1>1. /\ Poll(held, good) /\ CallbackTimer = "armed" /\ CallbackTimer' = "armed" /\ pc' = pc
      /\ TimerRunning' = TimerRunning
      /\ timerRing' = (IF ready THEN Pop(ring) ELSE ring)
      /\ calls' = (IF ready THEN Notified(Front(ring)) ELSE calls)
  BY DEF PollForKeyCallback, timerVars
<1>2. /\ made' \in Nat /\ made' >= made /\ Untold(Contents(ring), made', calls)
      /\ KeyFound(held, good) # SCAN_NULL => Pending(ring)
  BY <1>1, PollTimerRing
<1>3. ring \in Ring
  BY <1>1, PollType
<1>4. \A c \in (1 .. MaxKeys) \X Fns : calls[c] \in 0 .. 1 /\ (c[1] > made' => calls[c] = 0)
  BY <1>2 DEF NotifiedOnce, TypeOK
<1>5. /\ Untold(Contents(timerRing'), made', calls')
      /\ \A c \in (1 .. MaxKeys) \X Fns : calls'[c] \in 0 .. 1 /\ (c[1] > made' => calls'[c] = 0)
  <2>1. CASE ready
    <3>1. Pending(ring)
      BY <2>1, <1>2
    <3> HIDE DEF ring
    <3> QED
      BY <3>1, <2>1, <1>1, <1>2, <1>3, <1>4, TickTells
  <2>2. CASE ~ready
    BY <2>2, <1>1, <1>2, <1>4
  <2> QED
    BY <2>1, <2>2
<1>6. Untold(Contents(timerRing), made, calls)' = Untold(Contents(timerRing'), made', calls')
  BY DEF Untold, Contents, Waiting
<1> QED
  BY <1>1, <1>5, <1>6 DEF NotifiedOnce

\* A poll by the application leaves the key with those nobody was told of.
LEMMA PollKeepsUntold ==
  ASSUME TypeOK, NotifiedOnce, MaxUnread < MAX_KEYS_TO_BUFFER,
         NEW held \in SUBSET Pressable, NEW good \in 0 .. 3, Poll(held, good),
         timerRing' = TimerRingAfter(held, good), UNCHANGED calls, UNCHANGED pc,
         UNCHANGED CallbackTimer, UNCHANGED TimerRunning
  PROVE  NotifiedOnce'
<1>1. Untold(Contents(timerRing), made, calls)' = Untold(Contents(timerRing'), made', calls')
  BY DEF Untold, Contents, Waiting
<1>2. CallbackTimer = "armed" => Untold(Contents(timerRing'), made', calls')
  BY PollTimerRing
<1>3. CallbackTimer # "armed" => timerRing' = timerRing
  BY PollTimerRing
<1>4. \A c \in (1 .. MaxKeys) \X Fns : calls'[c] \in 0 .. 1 /\ (c[1] > made' => calls'[c] = 0)
  BY PollTimerRing DEF NotifiedOnce, TypeOK
<1> QED
  BY <1>1, <1>2, <1>3, <1>4 DEF NotifiedOnce

LEMMA UntoldKept ==
  ASSUME UNCHANGED timerRing, UNCHANGED made, UNCHANGED calls
  PROVE  Untold(Contents(timerRing), made, calls)' = Untold(Contents(timerRing), made, calls)
<1>1. Contents(timerRing)' = Contents(timerRing)
  BY DEF Contents, Waiting
<1> QED
  BY <1>1 DEF Untold

LEMMA NotifiedOnceKept ==
  ASSUME TypeOK, ListLinked, NotifiedOnce, Undisturbed, MaxUnread < MAX_KEYS_TO_BUFFER,
         "ReadEx" \notin AppOps, [Next]_vars
  PROVE  NotifiedOnce'
<1>1. ASSUME UNCHANGED timerRing, UNCHANGED made, UNCHANGED calls,
             UNCHANGED CallbackTimer, UNCHANGED TimerRunning,
             pc' = pc \/ {pc, pc'} \cap {"notify", "resetTimerRead"} = {}
      PROVE  NotifiedOnce'
  BY <1>1, UntoldKept DEF NotifiedOnce
<1>2. CASE UNCHANGED vars
  <2>1. UNCHANGED timerRing /\ UNCHANGED made /\ UNCHANGED calls
    BY <1>2 DEF vars, historyVars
  <2>2. UNCHANGED pc /\ UNCHANGED CallbackTimer /\ UNCHANGED TimerRunning
    BY <1>2 DEF vars, timerVars
  <2> QED
    BY <2>1, <2>2, UntoldKept DEF NotifiedOnce
<1>3. CASE Tick
  BY <1>3, TickNotifies DEF Tick
<1>4. ASSUME NEW held \in SUBSET Pressable, NEW good \in 0 .. 3,
             WaitForKeyCallback(held, good) \/ KeysDxeReadKeyStroke(held, good)
      PROVE  NotifiedOnce'
  BY <1>4, PollKeepsUntold DEF WaitForKeyCallback, KeysDxeReadKeyStroke, ReadAndConsume, timerVars
<1>5. ASSUME NEW held, NEW good, KeysDxeReadKeyStrokeEx(held, good) PROVE NotifiedOnce'
  BY <1>5 DEF KeysDxeReadKeyStrokeEx
<1>6. ASSUME NEW code, NEW fn,
             RegisterAgain(code, fn) \/ \E n \in Nodes : KeysDxeRegisterKeyNotify(code, fn, n)
      PROVE  NotifiedOnce'
  BY <1>6, <1>1 DEF RegisterAgain, KeysDxeRegisterKeyNotify, historyVars, timerVars
<1>7. ASSUME NEW n \in Nodes, KeysDxeUnregisterKeyNotify(n) PROVE NotifiedOnce'
  BY <1>7, <1>1 DEF KeysDxeUnregisterKeyNotify, historyVars, timerVars
<1>8. CASE ReadExNotify
  BY <1>8 DEF ReadExNotify, NotifiedOnce
<1>9. CASE SetCallbackTimer
  <2>1. /\ UNCHANGED timerRing /\ UNCHANGED made /\ UNCHANGED calls /\ pc = "register" /\ pc' = "idle"
        /\ \/ CallbackTimer' = CallbackTimer /\ TimerRunning' = TimerRunning
           \/ CallbackTimer' = "armed" /\ TimerRunning'
    BY <1>9 DEF SetCallbackTimer, historyVars, timerVars
  <2>2. CASE CallbackTimer' = CallbackTimer /\ TimerRunning' = TimerRunning
    BY <2>1, <2>2, <1>1
  <2>3. CASE CallbackTimer' = "armed" /\ TimerRunning' /\ CallbackTimer # "armed"
    <3>1. timerRing.read = timerRing.write /\ timerRing \in Ring
      BY <2>1, <2>3 DEF NotifiedOnce, TypeOK
    <3>2. Contents(timerRing) = <<>>
      BY <3>1, EmptyContents
    <3>3. DOMAIN Contents(timerRing) = {}
      BY <3>2
    <3>4. Untold(Contents(timerRing), made, calls)
      BY <3>3 DEF Untold
    <3>5. Untold(Contents(timerRing), made, calls)'
      BY <3>4, <2>1, UntoldKept
    <3> QED
      BY <2>1, <2>3, <3>5 DEF NotifiedOnce
  <2>4. CASE CallbackTimer' = "armed" /\ TimerRunning' /\ CallbackTimer = "armed"
    <3>1. TimerRunning
      BY <2>4 DEF NotifiedOnce
    <3> QED
      BY <2>1, <2>4, <3>1, UntoldKept DEF NotifiedOnce
  <2> QED
    BY <2>1, <2>2, <2>3, <2>4
<1>10. CASE FreeNotify
  BY <1>10, <1>1 DEF FreeNotify, historyVars, timerVars
<1>11. CASE CloseCallbackTimer
  <2>1. /\ UNCHANGED made /\ UNCHANGED calls /\ CallbackTimer' = "closed" /\ TimerRunning' = FALSE
        /\ pc' = "idle" /\ timerRing' = [timerRing EXCEPT !.read = 0, !.write = 0]
    BY <1>11 DEF CloseCallbackTimer, historyVars
  <2>2. timerRing'.read = 0 /\ timerRing'.write = 0
    BY <2>1 DEF TypeOK, Ring
  <2> QED
    BY <2>1, <2>2 DEF NotifiedOnce
<1>12. CASE ResetTimerWrite \/ ResetTimerRead
  <2>1. /\ UNCHANGED made /\ UNCHANGED calls /\ UNCHANGED CallbackTimer /\ UNCHANGED TimerRunning
        /\ pc \in {"resetTimerWrite", "resetTimerRead"} /\ CallbackTimer # "armed"
        /\ pc' = IF pc = "resetTimerWrite" THEN "resetTimerRead" ELSE "resetMatrixA"
    BY <1>12 DEF ResetTimerWrite, ResetTimerRead, ResetTo, timerVars, Undisturbed, ResetPlaces
  <2>2. timerRing'.write = IF pc' = "resetTimerRead" THEN 0 ELSE timerRing'.read
    BY <1>12, <2>1 DEF ResetTimerWrite, ResetTimerRead, ResetTo, NotifiedOnce, TypeOK, Ring
  <2> QED
    BY <2>1, <2>2 DEF NotifiedOnce
<1>13. CASE KeysDxeResetCommon /\ ~ResetTimerWrite /\ ~ResetTimerRead
  BY <1>13, <1>1 DEF KeysDxeResetCommon, ResetKeyWrite, ResetKeyRead, ResetCount,
     ResetMatrix, ResetKeysPressed, ResetDetection, ResetTo, timerVars
<1> QED
  BY <1>2, <1>3, <1>4, <1>5, <1>6, <1>7, <1>8, <1>9, <1>10, <1>11, <1>12, <1>13 DEF Next, AppCall, AppStep

\* A typed key reaches each function once at most, while no tick interrupts a
\* reset and nobody reads with KeysDxeReadKeyStrokeEx, which notifies as well.
THEOREM KeysNotifiedOnce ==
  ASSUME MaxUnread < MAX_KEYS_TO_BUFFER, "ReadEx" \notin AppOps
  PROVE  Spec /\ []Undisturbed => []NotifiedAtMostOnce
<1>1. Init => NotifiedOnce
  <2> SUFFICES ASSUME Init PROVE NotifiedOnce
    OBVIOUS
  <2>1. \A c \in (1 .. MaxKeys) \X Fns : calls[c] = 0
    BY DEF Init
  <2> QED
    BY <2>1 DEF Init, NotifiedOnce, EmptyRing
<1>2. TypeOK /\ ListLinked /\ Undisturbed /\ NotifiedOnce /\ [Next]_vars => NotifiedOnce'
  BY NotifiedOnceKept
<1>3. TypeOK /\ NotifiedOnce => NotifiedAtMostOnce
  BY DEF TypeOK, NotifiedOnce, NotifiedAtMostOnce
<1> QED
  BY <1>1, <1>2, <1>3, TypeCorrect, LinksSound, PTL DEF Spec
=============================================================================
