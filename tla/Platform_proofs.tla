--------------------------- MODULE Platform_proofs ---------------------------
(***************************************************************************)
(* Proofs about Platform, a driver at a time: the pin interrupts, the SPMI *)
(* arbiter and the PMIC.  An invariant of a driver holds of the            *)
(* composition because the other drivers leave its variables alone.        *)
(***************************************************************************)
EXTENDS Platform, DataLemmas

-----------------------------------------------------------------------------
(* GpioInterrupt.                                                           *)

PinStates == [det : {"level", "edge", "rising", "falling", "both"}, pol : BOOLEAN,
              raw : BOOLEAN, hwen : BOOLEAN, soft : BOOLEAN, dual : BOOLEAN, custom : BOOLEAN,
              latched : BOOLEAN, level : BOOLEAN, called : BOOLEAN, sync : BOOLEAN]
PinCalls == [in : {"app", "isr"}, i : Nat, upd : {"no", "val", "pol", "val2"}, p : Gp!Pins,
             val : BOOLEAN, left : Nat]
PinTypes == pin \in [Gp!Pins -> PinStates] /\ at \in PinCalls

\* A pin in step whose acknowledgement is under way is quiet; before its
\* polarity was turned round this is its level, and then the other one.
Acknowledging(p) == at.upd # "no" /\ at.p = p
InStep(p) ==
  LET q == pin[p] IN
  IF Acknowledging(p)
  THEN /\ ~q.latched
       /\ at.upd = "val"  => (q.pol <=> q.level)
       /\ at.upd = "pol"  => (q.pol <=> q.level) /\ (at.val <=> q.level)
       /\ at.upd = "val2" => ~(q.pol <=> q.level) /\ (at.val <=> q.level)
  ELSE q.latched <=> (q.pol <=> q.level)
EdgeSound ==
  PinTypes /\ \A p \in Gp!Pins : pin[p].sync => pin[p].raw /\ pin[p].det = "edge"
                                                /\ pin[p].dual /\ InStep(p)

\* The enable bits of a pin and its function have no part in this.
LEMMA SameSignals ==
  ASSUME EdgeSound, NEW p \in Gp!Pins, NEW hwen \in BOOLEAN, NEW soft \in BOOLEAN, NEW custom \in BOOLEAN,
         pin' = [pin EXCEPT ![p] = [@ EXCEPT !.hwen = hwen, !.soft = soft, !.custom = custom]],
         at' = at
  PROVE  EdgeSound'
<1>1. PinTypes'
  <2> DEFINE q == [pin[p] EXCEPT !.hwen = hwen, !.soft = soft, !.custom = custom]
  <2>1. q \in PinStates
    <3>1. pin[p] \in PinStates
      BY DEF EdgeSound, PinTypes
    <3> QED
      BY <3>1 DEF PinStates
  <2>2. pin' = [pin EXCEPT ![p] = q]
    OBVIOUS
  <2> HIDE DEF q
  <2> QED
    BY <2>1, <2>2 DEF EdgeSound, PinTypes
<1>2. ASSUME NEW r \in Gp!Pins
      PROVE  /\ pin'[r].sync = pin[r].sync /\ pin'[r].raw = pin[r].raw /\ pin'[r].det = pin[r].det
             /\ pin'[r].dual = pin[r].dual /\ pin'[r].latched = pin[r].latched
             /\ pin'[r].pol = pin[r].pol /\ pin'[r].level = pin[r].level
  BY DEF EdgeSound, PinTypes, PinStates
<1>3. ASSUME NEW r \in Gp!Pins PROVE InStep(r)' <=> InStep(r)
  BY <1>2 DEF InStep, Acknowledging
<1> QED
  BY <1>1, <1>2, <1>3 DEF EdgeSound

\* The emulation of both edges waits for the next edge, of a pin that was high
\* when its type was set and does not move while it is acknowledged: a pin in
\* step is in step again after each acknowledgement, however the other pins,
\* the clients and the handler come between its steps (Interrupts.c 52-71).
THEOREM EdgesDetected == PlatformSpec => []NextEdgeDetected
<1> USE PlatformAssumption DEF Gp!GpioAssumption, Gp!Pins
<1>1. Gp!Init => EdgeSound
  <2> SUFFICES ASSUME Gp!Init PROVE EdgeSound
    OBVIOUS
  <2>1. PICK lvl \in [Gp!Pins -> BOOLEAN] :
          pin = [p \in Gp!Pins |-> [det |-> "level", pol |-> FALSE, raw |-> FALSE, hwen |-> FALSE,
                                    soft |-> FALSE, dual |-> FALSE, custom |-> FALSE,
                                    latched |-> FALSE, level |-> lvl[p],
                                    called |-> FALSE, sync |-> FALSE]]
    BY Zenon DEF Gp!Init
  <2>2. pin \in [Gp!Pins -> PinStates] /\ \A p \in Gp!Pins : pin[p].sync = FALSE
    BY <2>1 DEF PinStates
  <2>3. at \in PinCalls
    BY DEF Gp!Init, Gp!NoCall, PinCalls
  <2> QED
    BY <2>2, <2>3 DEF EdgeSound, PinTypes
<1>2. EdgeSound /\ [Gp!GpioStep]_(Gp!gvars) => EdgeSound'
  <2> SUFFICES ASSUME EdgeSound, [Gp!GpioStep]_(Gp!gvars) PROVE EdgeSound'
    OBVIOUS
  <2> USE DEF EdgeSound, PinTypes
  <2>1. CASE Gp!InitStep \/ UNCHANGED Gp!gvars
    BY <2>1 DEF Gp!InitStep, Gp!register_int_handler, Gp!msm_gpio_irq_set_wake, Gp!gvars,
                InStep, Acknowledging
  <2>2. ASSUME NEW p \in Gp!Pins,
               \/ Gp!msm_gpio_irq_mask(p) \/ Gp!msm_gpio_irq_unmask(p)
               \/ Gp!msm_gpio_irq_set_custom_handler(p)
        PROVE  EdgeSound'
    <3>0. pin[p].hwen \in BOOLEAN /\ pin[p].soft \in BOOLEAN /\ pin[p].custom \in BOOLEAN
      BY DEF PinStates
    <3>1. \E hwen, soft, custom \in BOOLEAN :
            pin' = [pin EXCEPT ![p] = [@ EXCEPT !.hwen = hwen, !.soft = soft, !.custom = custom]]
      <4>1. CASE Gp!msm_gpio_irq_mask(p)
        <5>1. pin' = [pin EXCEPT ![p] = [@ EXCEPT !.hwen = FALSE, !.soft = FALSE, !.custom = pin[p].custom]]
          BY <4>1 DEF Gp!msm_gpio_irq_mask
        <5> QED
          BY <3>0, <5>1
      <4>2. CASE Gp!msm_gpio_irq_unmask(p)
        <5>1. pin' = [pin EXCEPT ![p] = [@ EXCEPT !.hwen = TRUE, !.soft = TRUE, !.custom = pin[p].custom]]
          BY <4>2 DEF Gp!msm_gpio_irq_unmask
        <5> QED
          BY <3>0, <5>1
      <4>3. CASE Gp!msm_gpio_irq_set_custom_handler(p)
        <5>1. pin' = [pin EXCEPT ![p] = [@ EXCEPT !.hwen = pin[p].hwen, !.soft = pin[p].soft, !.custom = TRUE]]
          BY <4>3 DEF Gp!msm_gpio_irq_set_custom_handler
        <5> QED
          BY <3>0, <5>1
      <4> QED
        BY <2>2, <4>1, <4>2, <4>3
    <3>2. at' = at
      BY <2>2 DEF Gp!msm_gpio_irq_mask, Gp!msm_gpio_irq_unmask, Gp!msm_gpio_irq_set_custom_handler
    <3> QED
      BY <3>1, <3>2, SameSignals
  <2>3. ASSUME NEW p \in Gp!Pins, NEW type \in Types, Gp!msm_gpio_irq_set_type(p, type)
        PROVE  EdgeSound'
    <3> DEFINE dual == type = "EDGE_BOTH" /\ width = 1
               det == Gp!Detection(type)
               pol == Gp!Polarity(type)
    <3>1. PICK again \in BOOLEAN :
          pin' = [pin EXCEPT ![p] =
                    [@ EXCEPT !.dual = dual, !.det = det, !.pol = pol,
                              !.raw = TRUE, !.latched = pin[p].latched \/ again
                                    \/ (det = "level" /\ pin[p].level = pol),
                              !.sync = dual /\ pin[p].level /\ ~again /\ ~pin[p].latched]]
      BY <2>3, Zenon DEF Gp!msm_gpio_irq_set_type
    <3>2. at.upd = "no" /\ at' = IF dual THEN [at EXCEPT !.upd = "val", !.p = p, !.left = LoopLimit] ELSE at
      BY <2>3 DEF Gp!msm_gpio_irq_set_type, Gp!App, Gp!Idle
    <3>4. det \in {"level", "edge", "rising", "falling", "both"} /\ pol \in BOOLEAN
      BY DEF Gp!Detection, Gp!Polarity
    <3>5. dual => det = "edge" /\ pol
      BY DEF Gp!Detection, Gp!Polarity
    <3>6. dual \in BOOLEAN
      OBVIOUS
    <3> HIDE DEF dual, det, pol
    <3>7. PICK latched \in BOOLEAN, sync \in BOOLEAN :
          /\ pin' = [pin EXCEPT ![p] =
                    [@ EXCEPT !.dual = dual, !.det = det, !.pol = pol,
                              !.raw = TRUE, !.latched = latched, !.sync = sync]]
          /\ sync => dual /\ pin[p].level /\ ~latched
      <4> DEFINE latched == pin[p].latched \/ again \/ (det = "level" /\ pin[p].level = pol)
                 sync == dual /\ pin[p].level /\ ~again /\ ~pin[p].latched
      <4>1. latched \in BOOLEAN /\ sync \in BOOLEAN
        OBVIOUS
      <4>2. pin' = [pin EXCEPT ![p] =
                    [@ EXCEPT !.dual = dual, !.det = det, !.pol = pol,
                              !.raw = TRUE, !.latched = latched, !.sync = sync]]
        BY <3>1, Zenon
      <4>3. sync => dual /\ pin[p].level /\ ~latched
        BY <3>5
      <4> QED
        BY <4>1, <4>2, <4>3, Zenon
    <3>8. PinTypes'
      <4> DEFINE q == [pin[p] EXCEPT !.dual = dual, !.det = det, !.pol = pol,
                                     !.raw = TRUE, !.latched = latched, !.sync = sync]
      <4>1. q \in PinStates
        <5>1. pin[p] \in PinStates
          OBVIOUS
        <5> QED
          BY <3>4, <3>6, <5>1 DEF PinStates
      <4>2. pin' = [pin EXCEPT ![p] = q]
        BY <3>7
      <4>3. at' \in PinCalls
        BY <3>2 DEF PinCalls
      <4> HIDE DEF q
      <4> QED
        BY <4>1, <4>2, <4>3
    <3>9. ASSUME NEW r \in Gp!Pins, pin'[r].sync
          PROVE  pin'[r].raw /\ pin'[r].det = "edge" /\ pin'[r].dual /\ InStep(r)'
      <4>1. CASE r = p
        BY <4>1, <3>2, <3>4, <3>5, <3>6, <3>7, <3>9 DEF InStep, Acknowledging
      <4>2. CASE r # p
        BY <4>2, <3>2, <3>7, <3>9 DEF InStep, Acknowledging
      <4> QED
        BY <4>1, <4>2
    <3> QED
      BY <3>8, <3>9
  <2>4. CASE Gp!ReadPin \/ Gp!SkipPin \/ Gp!EndOfInterrupt
    <3>1. pin' = pin /\ at' \in PinCalls
      <4>1. CASE Gp!ReadPin
        <5>1. at.p \in Gp!Pins /\ pin[at.p].level \in BOOLEAN
          BY DEF PinCalls, PinStates
        <5> QED
          BY <4>1, <5>1 DEF Gp!ReadPin, PinCalls
      <4>2. CASE Gp!SkipPin
        BY <4>2 DEF Gp!SkipPin, PinCalls
      <4>3. CASE Gp!EndOfInterrupt
        BY <4>3 DEF Gp!EndOfInterrupt, Gp!NoCall, PinCalls
      <4> QED
        BY <2>4, <4>1, <4>2, <4>3
    <3>2. ASSUME NEW r \in Gp!Pins, pin[r].sync PROVE InStep(r)'
      <4>1. CASE Gp!ReadPin
        BY <4>1, <3>2 DEF Gp!ReadPin, InStep, Acknowledging
      <4>2. CASE Gp!SkipPin \/ Gp!EndOfInterrupt
        <5>1. at.upd = "no" /\ at'.upd = "no"
          BY <4>2 DEF Gp!SkipPin, Gp!EndOfInterrupt, Gp!Scanning, Gp!NoCall, PinCalls
        <5> QED
          BY <3>1, <3>2, <5>1 DEF InStep, Acknowledging
      <4> QED
        BY <2>4, <4>1, <4>2
    <3> QED
      BY <3>1, <3>2
  <2>5. CASE Gp!TurnPolarity
    <3> DEFINE q == [pin[at.p] EXCEPT !.pol = ~@]
    <3>1. /\ at.upd = "pol" /\ at' = [at EXCEPT !.upd = "val2"]
          /\ pin' = [pin EXCEPT ![at.p] = q]
      BY <2>5 DEF Gp!TurnPolarity
    <3>2. q \in PinStates /\ at' \in PinCalls /\ at.p \in Gp!Pins
      <4>1. at.p \in Gp!Pins
        BY DEF PinCalls
      <4>2. pin[at.p] \in PinStates
        BY <4>1
      <4>3. q \in PinStates
        BY <4>2 DEF PinStates
      <4> QED
        BY <3>1, <4>1, <4>3 DEF PinCalls
    <3>3. q.sync = pin[at.p].sync /\ q.raw = pin[at.p].raw /\ q.det = pin[at.p].det /\ q.dual = pin[at.p].dual
          /\ q.latched = pin[at.p].latched /\ q.level = pin[at.p].level /\ (q.pol <=> ~pin[at.p].pol)
      BY <3>2 DEF PinStates
    <3> HIDE DEF q
    <3>4. PinTypes'
      BY <3>1, <3>2
    <3>5. ASSUME NEW r \in Gp!Pins, pin'[r].sync
          PROVE  pin'[r].raw /\ pin'[r].det = "edge" /\ pin'[r].dual /\ InStep(r)'
      <4>1. CASE r = at.p
        <5>1. pin'[r] = q /\ at'.upd = "val2" /\ at'.p = r /\ at'.val = at.val
          BY <3>1, <3>2, <4>1 DEF PinCalls
        <5> QED
          BY <3>1, <3>2, <3>3, <3>5, <4>1, <5>1 DEF InStep, Acknowledging
      <4>2. CASE r # at.p
        <5>1. pin'[r] = pin[r] /\ at'.p = at.p
          BY <3>1, <4>2 DEF PinCalls
        <5> QED
          BY <3>5, <4>2, <5>1 DEF InStep, Acknowledging
      <4> QED
        BY <4>1, <4>2
    <3> QED
      BY <3>4, <3>5
  <2>6. CASE Gp!CheckPin
    <3>1. /\ at.upd = "val2" /\ pin' = pin
          /\ IF pin[at.p].latched \/ at.val = pin[at.p].level \/ at.left = 0
             THEN at' = [at EXCEPT !.upd = "no", !.p = 0, !.val = FALSE, !.left = 0,
                                   !.i = IF at.in = "isr" THEN @ + 1 ELSE @]
             ELSE at' = [at EXCEPT !.upd = "val", !.left = @ - 1]
      BY <2>6 DEF Gp!CheckPin
    <3>2. at' \in PinCalls
      <4>1. CASE pin[at.p].latched \/ at.val = pin[at.p].level \/ at.left = 0
        <5> DEFINE i == IF at.in = "isr" THEN at.i + 1 ELSE at.i
        <5>1. i \in Nat
          BY DEF PinCalls
        <5>2. at' = [at EXCEPT !.upd = "no", !.p = 0, !.val = FALSE, !.left = 0, !.i = i]
          BY <3>1, <4>1
        <5> HIDE DEF i
        <5>3. 0 \in Gp!Pins
          OBVIOUS
        <5> QED
          BY <5>1, <5>2, <5>3 DEF PinCalls
      <4>2. CASE ~(pin[at.p].latched \/ at.val = pin[at.p].level \/ at.left = 0)
        <5>1. at.left - 1 \in Nat
          BY <4>2 DEF PinCalls
        <5> QED
          BY <3>1, <4>2, <5>1 DEF PinCalls
      <4> QED
        BY <4>1, <4>2
    <3>3. ASSUME NEW r \in Gp!Pins, pin[r].sync PROVE InStep(r)'
      <4>0. r = at.p => ~pin[r].latched /\ ~(pin[r].pol <=> pin[r].level) /\ at.val = pin[r].level
        <5>1. at.val \in BOOLEAN /\ pin[r].level \in BOOLEAN
          BY DEF PinCalls, PinStates
        <5> QED
          BY <3>1, <3>3, <5>1 DEF InStep, Acknowledging
      <4>1. r # at.p => (pin[r].latched <=> (pin[r].pol <=> pin[r].level))
        BY <3>3 DEF InStep, Acknowledging
      <4>2. CASE at'.upd = "no"
        BY <3>1, <4>0, <4>1, <4>2 DEF InStep, Acknowledging
      <4>3. CASE at'.upd # "no"
        <5>1. at'.p = at.p /\ at.p # r
          BY <3>1, <4>0, <4>3 DEF PinCalls
        <5> QED
          BY <3>1, <4>1, <5>1 DEF InStep, Acknowledging
      <4> QED
        BY <4>2, <4>3
    <3> QED
      BY <3>1, <3>2, <3>3
  <2>7. CASE Gp!CustomHandler
    <3> DEFINE q == pin[at.i]
               latched == q.det = "level" /\ q.level = q.pol
    <3>1. /\ at.upd = "no" /\ at.i \in Gp!Pins /\ q.latched
          /\ pin' = [pin EXCEPT ![at.i] = [q EXCEPT !.called = TRUE, !.latched = latched]]
          /\ at' = IF q.dual THEN [at EXCEPT !.upd = "val", !.p = at.i, !.left = LoopLimit]
                             ELSE [at EXCEPT !.i = @ + 1]
      BY <2>7 DEF Gp!CustomHandler, Gp!Scanning
    <3>2. latched \in BOOLEAN
      OBVIOUS
    <3>3. PinTypes'
      <4>1. at' \in PinCalls
        <5>1. CASE q.dual
          BY <3>1, <5>1 DEF PinCalls
        <5>2. CASE ~q.dual
          BY <3>1, <5>2 DEF PinCalls
        <5> QED
          BY <5>1, <5>2
      <4> HIDE DEF latched
      <4> DEFINE q2 == [q EXCEPT !.called = TRUE, !.latched = latched]
      <4>2. q2 \in PinStates
        <5>1. q \in PinStates
          BY <3>1
        <5> QED
          BY <3>2, <5>1 DEF PinStates
      <4>3. pin' = [pin EXCEPT ![at.i] = q2]
        BY <3>1
      <4> HIDE DEF q2
      <4> QED
        BY <3>1, <4>1, <4>2, <4>3
    <3>4. ASSUME NEW r \in Gp!Pins, pin'[r].sync
          PROVE  pin'[r].raw /\ pin'[r].det = "edge" /\ pin'[r].dual /\ InStep(r)'
      <4>1. CASE r = at.i
        <5>1. q.sync /\ q.raw /\ q.det = "edge" /\ q.dual /\ (q.pol <=> q.level) /\ ~latched
          BY <3>1, <3>4, <4>1 DEF InStep, Acknowledging
        <5> HIDE DEF latched
        <5>2. at'.upd = "val" /\ at'.p = r
          BY <3>1, <4>1, <5>1
        <5> QED
          BY <3>1, <4>1, <5>1, <5>2 DEF InStep, Acknowledging
      <4>2. CASE r # at.i
        BY <3>1, <3>4, <4>2 DEF InStep, Acknowledging
      <4> QED
        BY <4>1, <4>2
    <3> QED
      BY <3>3, <3>4
  <2>8. CASE Gp!InterruptsLibIrqHandler
    <3>1. /\ at' = [at EXCEPT !.in = "isr"]
          /\ pin' = [p \in Gp!Pins |-> [pin[p] EXCEPT !.called = FALSE]]
      BY <2>8 DEF Gp!InterruptsLibIrqHandler
    <3>2. PinTypes'
      <4>1. ASSUME NEW p \in Gp!Pins PROVE [pin[p] EXCEPT !.called = FALSE] \in PinStates
        <5>1. pin[p] \in PinStates
          OBVIOUS
        <5> QED
          BY <5>1 DEF PinStates
      <4>2. pin' \in [Gp!Pins -> PinStates]
        BY <3>1, <4>1
      <4>3. at' \in PinCalls
        BY <3>1 DEF PinCalls
      <4> QED
        BY <4>2, <4>3
    <3>3. ASSUME NEW r \in Gp!Pins
          PROVE  /\ pin'[r].sync = pin[r].sync /\ pin'[r].raw = pin[r].raw /\ pin'[r].det = pin[r].det
                 /\ pin'[r].dual = pin[r].dual /\ pin'[r].latched = pin[r].latched
                 /\ pin'[r].pol = pin[r].pol /\ pin'[r].level = pin[r].level
      BY <3>1 DEF PinStates
    <3>4. at'.upd = at.upd /\ at'.p = at.p /\ at'.val = at.val
      BY <3>1 DEF PinCalls
    <3> QED
      BY <3>2, <3>3, <3>4 DEF InStep, Acknowledging
  <2>9. ASSUME NEW p \in Gp!Pins, Gp!PinMoves(p) PROVE EdgeSound'
    <3> DEFINE q == pin[p]
               latched == q.latched \/ (q.raw /\ Gp!Latches(q, ~q.level))
               sync == q.sync /\ ~q.latched /\ ~(at.upd # "no" /\ at.p = p)
    <3>1. pin' = [pin EXCEPT ![p] = [q EXCEPT !.level = ~@, !.latched = latched, !.sync = sync]] /\ at' = at
      BY <2>9 DEF Gp!PinMoves
    <3>2. latched \in BOOLEAN /\ sync \in BOOLEAN
      OBVIOUS
    <3>3. sync => q.sync /\ q.raw /\ q.det = "edge" /\ q.dual /\ ~(q.pol <=> q.level) /\ latched
                  /\ ~Acknowledging(p)
      <4> SUFFICES ASSUME sync PROVE q.sync /\ q.raw /\ q.det = "edge" /\ q.dual /\ ~(q.pol <=> q.level)
                                     /\ latched /\ ~Acknowledging(p)
        OBVIOUS
      <4>1. q.sync /\ q.raw /\ q.det = "edge" /\ q.dual /\ ~q.latched /\ ~Acknowledging(p)
        BY DEF Acknowledging
      <4>2. ~(q.pol <=> q.level)
        BY <4>1 DEF InStep
      <4>3. Gp!Latches(q, ~q.level)
        <5>1. q.pol \in BOOLEAN /\ q.level \in BOOLEAN
          BY DEF PinStates
        <5> QED
          BY <4>1, <4>2, <5>1 DEF Gp!Latches
      <4> QED
        BY <4>1, <4>2, <4>3
    <3> HIDE DEF latched, sync
    <3>4. PinTypes'
      <4> DEFINE level == ~q.level
                 q2 == [q EXCEPT !.level = level, !.latched = latched, !.sync = sync]
      <4>1. q2 \in PinStates
        <5>1. q \in PinStates /\ level \in BOOLEAN
          OBVIOUS
        <5> HIDE DEF level
        <5> QED
          BY <3>2, <5>1 DEF PinStates
      <4>2. pin' = [pin EXCEPT ![p] = q2]
        BY <3>1
      <4> HIDE DEF q2
      <4> QED
        BY <3>1, <4>1, <4>2
    <3>5. ASSUME NEW r \in Gp!Pins, pin'[r].sync
          PROVE  pin'[r].raw /\ pin'[r].det = "edge" /\ pin'[r].dual /\ InStep(r)'
      <4>1. CASE r = p
        <5>1. pin'[r].sync = sync /\ pin'[r].raw = q.raw /\ pin'[r].det = q.det /\ pin'[r].dual = q.dual
              /\ pin'[r].latched = latched /\ pin'[r].pol = q.pol /\ (pin'[r].level <=> ~q.level)
          BY <3>1, <4>1 DEF PinStates
        <5> QED
          BY <3>1, <3>3, <3>5, <4>1, <5>1 DEF InStep, Acknowledging
      <4>2. CASE r # p
        BY <3>1, <3>5, <4>2 DEF InStep, Acknowledging
      <4> QED
        BY <4>1, <4>2
    <3> QED
      BY <3>4, <3>5
  <2> QED
    BY <2>1, <2>2, <2>3, <2>4, <2>5, <2>6, <2>7, <2>8, <2>9
    DEF Gp!GpioStep, Gp!ClientStep, Gp!CallStep
<1>3. EdgeSound => NextEdgeDetected
  BY DEF EdgeSound, PinTypes, PinStates, NextEdgeDetected, Gp!NextEdgeDetected, InStep, Acknowledging
<1>4. PlatformInit => Gp!Init
  BY DEF PlatformInit
<1>5. [PlatformNext]_platformVars => [Gp!GpioStep]_(Gp!gvars)
  BY DEF PlatformNext, SpmiNext, PmicNext, Pins, platformVars, gvars, Gp!gvars
<1> QED
  BY <1>1, <1>2, <1>3, <1>4, <1>5, PTL DEF PlatformSpec

-----------------------------------------------------------------------------
(* Spmi.                                                                    *)

Cells == Peripherals \X Sp!Bytes \cup {"new"} \X Nat
Files == [Peripherals -> [Sp!Bytes -> Cells]]
Outcomes == {"DONE", "FAILURE", "DENIED", "DROPPED"}
Statuses == {{"DONE"}, {"DONE", "FAILURE"}, {"DENIED"}, {"DROPPED"}}

\* A call that waits or has returned, and the command it wrote.
Calling == call.pc \in {"poll", "returned"}
Target == IF arb.ver = 2 THEN arb.chan[arb.cmd.n] ELSE arb.cmd.to
Data == arb.cmd.wdata[1] \o arb.cmd.wdata[2]
Fresh == Sp!New(call.size)

ReadWords == [0 .. 2 -> [0 .. 3 -> Cells \cup {Sp!Clear}]]
CommandStates == [wdata : Seq(Cells) \X Seq(Cells), rdata : {<<>>} \cup ReadWords,
                  n : Leftover \cup Sp!Channels, op : {"none", "read", "write"}, to : Peripherals,
                  byte_cnt : Nat, status : Statuses \cup {{}}]
ArbiterStates == [ver : 1 .. 2, chan : Sp!ChannelMaps, cmd : CommandStates]
CallStates == [pc : {"init", "none", "poll", "returned"}, op : {"none", "read", "write"},
               to : Peripherals, size : Nat, buffer : Seq(Cells), result : SUBSET Outcomes,
               before : {<<>>} \cup Files]
SpmiTypes ==
  /\ spmi_version \in 1 .. 2 /\ arb \in ArbiterStates /\ regs \in Files
  /\ chnl_tbl \in [Peripherals -> Leftover \cup Sp!Channels] /\ call \in CallStates
  /\ Calling => call.op # "none" /\ call.to # Sp!Unused /\ call.size \in 1 .. 12 /\ call.before \in Files
\* The table leads to the channel of every peripheral the arbiter lists.
TableSound ==
  call.pc # "init" /\ arb.ver = 2 /\ spmi_version = 2 =>
    \A p \in Sp!Listed(arb.chan) : chnl_tbl[p] \in Sp!Channels /\ arb.chan[chnl_tbl[p]] = p
\* The command says what the call wants.
CommandSound ==
  Calling => /\ arb.cmd.op = call.op /\ arb.cmd.byte_cnt = call.size - 1
             /\ arb.cmd.n = Sp!Channel(call.to)
             /\ arb.cmd.to = (IF spmi_version = 2 THEN Sp!Unused ELSE call.to)
             /\ call.op = "write" => Data = Fresh
\* Once the arbiter has answered, what it did to its target.
EffectSound ==
  Calling =>
    /\ arb.cmd.status = {} => call.pc = "poll" /\ regs = call.before
    /\ arb.cmd.status # {} =>
         /\ spmi_version = arb.ver /\ arb.cmd.status \in Statuses
         /\ IF call.op = "write" /\ arb.cmd.status = {"DONE"}
            THEN regs = [call.before EXCEPT ![Target] =
                           [i \in Sp!Bytes |-> IF i < call.size THEN Fresh[i + 1] ELSE @[i]]]
            ELSE regs = call.before
         /\ call.op = "read" => arb.cmd.rdata = Sp!Words(regs[Target], call.size - 1) /\ Target \in Peripherals
    /\ call.pc = "returned" =>
         /\ call.result = {} <=> arb.cmd.status = {"DONE"}
         /\ call.op = "read" /\ arb.cmd.status = {"DONE"} =>
              call.buffer = [i \in 1 .. call.size |-> regs[Target][i - 1]]
SpmiSound == SpmiTypes /\ TableSound /\ CommandSound /\ EffectSound

LEMMA ArbiterConstants ==
  /\ Sp!Unused \in Peripherals /\ max_peripherals \in Nat \ {0}
  /\ WriteSizes \subseteq 1 .. 8 /\ ReadSizes \subseteq 1 .. 12
  BY PlatformAssumption DEF Sp!ArbiterAssumption

LEMMA IdleCommand == Sp!Idle \in CommandStates
<1>1. 0 \in Sp!Channels
  BY ArbiterConstants DEF Sp!Channels
<1>2. <<>> \in Seq(Cells)
  BY EmptySeq
<1> QED
  BY ArbiterConstants, <1>1, <1>2 DEF Sp!Idle, CommandStates

\* The bytes of a command that writes.
LEMMA NewIsFresh ==
  ASSUME NEW size \in Nat
  PROVE  /\ Sp!New(size) \in Seq(Cells) /\ Len(Sp!New(size)) = size
         /\ \A i \in 1 .. size : Sp!New(size)[i] = <<"new", i>>
<1>1. Sp!New(size) \in [1 .. size -> Cells] /\ \A i \in 1 .. size : Sp!New(size)[i] = <<"new", i>>
  <2>1. ASSUME NEW i \in 1 .. size PROVE <<"new", i>> \in Cells
    <3>1. <<"new", i>> \in {"new"} \X Nat
      OBVIOUS
    <3> QED
      BY <3>1 DEF Cells
  <2> QED
    BY <2>1 DEF Sp!New
<1> QED
  BY <1>1, FunctionIsSeq

\* The two words of a command hold its bytes, each in its place.
LEMMA WordsHoldBytes ==
  ASSUME NEW size \in 1 .. 8
  PROVE  LET n == Sp!New(size)
             w == <<Sp!write_wdata_from_array(n, 0, size),
                    IF size > 4 THEN Sp!write_wdata_from_array(n, 4, size) ELSE <<>> >>
         IN  w \in Seq(Cells) \X Seq(Cells) /\ w[1] \o w[2] = n
<1> DEFINE n == Sp!New(size)
           first == Sp!write_wdata_from_array(n, 0, size)
           second == IF size > 4 THEN Sp!write_wdata_from_array(n, 4, size) ELSE <<>>
           clip == IF size > 4 THEN 4 ELSE size
<1>1. n \in Seq(Cells) /\ Len(n) = size
  BY NewIsFresh
<1> HIDE DEF n
<1>2. first = SubSeq(n, 1, clip) /\ clip \in 0 .. size
  BY DEF Sp!write_wdata_from_array, Sp!Clip
<1> HIDE DEF first
<1>0. \A i \in 1 .. size : n[i] \in Cells
  BY <1>1
<1>3. first \in Seq(Cells) /\ Len(first) = clip /\ \A i \in 1 .. clip : first[i] = n[i]
  <2>1. \A i \in 1 .. clip : n[i] \in Cells
    BY <1>0
  <2>2. clip \in Int /\ 1 \in Int
    BY <1>2
  <2> HIDE DEF clip
  <2>3. SubSeq(n, 1, clip) \in Seq(Cells) /\ Len(SubSeq(n, 1, clip)) = (IF 1 <= clip THEN clip - 1 + 1 ELSE 0)
        /\ \A i \in 1 .. clip - 1 + 1 : SubSeq(n, 1, clip)[i] = n[1 + i - 1]
    BY <2>1, <2>2, SubSeqProperties
  <2> QED
    BY <1>2, <2>3
<1>4. second \in Seq(Cells) /\ Len(second) = size - clip /\ \A i \in 1 .. size - clip : second[i] = n[clip + i]
  <2>1. CASE size > 4
    <3>1. second = SubSeq(n, 5, size)
      BY <2>1 DEF Sp!write_wdata_from_array, Sp!Clip
    <3>2. \A i \in 5 .. size : n[i] \in Cells
      BY <1>0
    <3> HIDE DEF second
    <3> QED
      BY <2>1, <3>1, <3>2, SubSeqProperties
  <2>2. CASE ~(size > 4)
    BY <2>2, EmptySeq
  <2> QED
    BY <2>1, <2>2
<1> HIDE DEF first, second
<1>5. first \o second \in Seq(Cells) /\ Len(first \o second) = size
  BY <1>2, <1>3, <1>4, ConcatProperties
<1>6. ASSUME NEW i \in 1 .. size PROVE (first \o second)[i] = n[i]
  <2>1. CASE i <= clip
    BY <1>2, <1>3, <1>4, <2>1, ConcatProperties
  <2>2. CASE ~(i <= clip)
    <3>1. (first \o second)[i] = second[i - clip] /\ i - clip \in 1 .. size - clip /\ clip + (i - clip) = i
      BY <1>2, <1>3, <1>4, <2>2, ConcatProperties
    <3> QED
      BY <1>4, <3>1
  <2> QED
    BY <2>1, <2>2
<1>7. first \o second = n
  BY <1>1, <1>5, <1>6, SeqEqual
<1> QED
  BY <1>3, <1>4, <1>7 DEF n, first, second

\* Masked and shifted, a word gives its bytes one by one.
LEMMA ByteTaken ==
  ASSUME NEW val, NEW i \in 0 .. 3
  PROVE  Sp!ByteOf(val, i) = val[i]
<1> DEFINE masked == [b \in 0 .. 3 |-> IF b = i THEN val[b] ELSE Sp!Clear]
           shifted == [b \in 0 .. 3 |-> IF b + i <= 3 THEN masked[b + i] ELSE Sp!Clear]
<1>1. Sp!ByteOf(val, i) = shifted[0]
  BY DEF Sp!ByteOf, Sp!mask_value, Sp!shift_value
<1>2. masked[i] = val[i]
  OBVIOUS
<1> HIDE DEF masked
<1>3. shifted[0] = masked[i]
  OBVIOUS
<1> QED
  BY <1>1, <1>2, <1>3

\* The first n bytes of a peripheral, or as many of them as are asked for.
FirstBytes(r, n, size, file) ==
  /\ r \in Seq(Cells) /\ Len(r) = (IF n < size THEN n ELSE size)
  /\ \A i \in 1 .. Len(r) : r[i] = file[i - 1]

\* Another word continues the array where the last one ended.
LEMMA WordRead ==
  ASSUME NEW size \in 1 .. 12, NEW file \in [Sp!Bytes -> Cells], NEW reg \in 0 .. 2,
         NEW l, l = 4 * reg, l < size, arb.cmd.rdata = Sp!Words(file, size - 1),
         NEW s, FirstBytes(s, l, size, file)
  PROVE  FirstBytes(Sp!read_rdata_into_array(s, reg, size), l + 4, size, file)
<1> DEFINE n == IF 4 < size - l THEN 4 ELSE size - l
           more == [i \in 1 .. n |-> Sp!ByteOf(arb.cmd.rdata[reg], i - 1)]
<1>0. s \in Seq(Cells) /\ Len(s) = l /\ \A i \in 1 .. l : s[i] = file[i - 1]
  BY DEF FirstBytes
<1>1. /\ n \in 1 .. 4 /\ l + n <= size /\ l + n = (IF l + 4 < size THEN l + 4 ELSE size)
      /\ l \in Nat /\ size <= 12
  OBVIOUS
<1>2. Sp!read_rdata_into_array(s, reg, size) = s \o more
  BY <1>0 DEF Sp!read_rdata_into_array, Sp!Clip
<1> HIDE DEF n
<1>3. ASSUME NEW i \in 1 .. n
      PROVE  /\ Sp!ByteOf(arb.cmd.rdata[reg], i - 1) = file[l + i - 1]
             /\ file[l + i - 1] \in Cells
  <2>1. i - 1 \in 0 .. 3 /\ l + (i - 1) <= size - 1 /\ l + (i - 1) = l + i - 1
        /\ l + i - 1 \in Sp!Bytes
    BY <1>1 DEF Sp!Bytes
  <2>2. arb.cmd.rdata[reg][i - 1] = file[l + (i - 1)]
    BY <2>1 DEF Sp!Words
  <2>3. Sp!ByteOf(arb.cmd.rdata[reg], i - 1) = arb.cmd.rdata[reg][i - 1]
    BY <2>1, ByteTaken
  <2> QED
    BY <2>1, <2>2, <2>3
<1>4. more \in [1 .. n -> Cells] /\ \A i \in 1 .. n : more[i] = file[l + i - 1]
  BY <1>3
<1> HIDE DEF more
<1>5. more \in Seq(Cells) /\ Len(more) = n
  BY <1>1, <1>4, FunctionIsSeq
<1>6. s \o more \in Seq(Cells) /\ Len(s \o more) = l + n
  BY <1>0, <1>1, <1>5, ConcatProperties
<1>7. ASSUME NEW i \in 1 .. l + n PROVE (s \o more)[i] = file[i - 1]
  <2>1. CASE i <= l
    <3>1. (s \o more)[i] = s[i]
      BY <1>0, <1>1, <1>5, <2>1, ConcatProperties
    <3> QED
      BY <1>0, <1>1, <2>1, <3>1
  <2>2. CASE ~(i <= l)
    <3>1. i - l \in 1 .. n /\ l + (i - l) - 1 = i - 1
      BY <1>1, <2>2
    <3>2. (s \o more)[i] = more[i - l]
      BY <1>0, <1>1, <1>5, <2>2, ConcatProperties
    <3> QED
      BY <1>4, <3>1, <3>2
  <2> QED
    BY <2>1, <2>2
<1> QED
  BY <1>1, <1>2, <1>6, <1>7 DEF FirstBytes

\* The words, read one after the other, give the bytes in their order.
LEMMA BytesRead ==
  ASSUME NEW size \in 1 .. 12, NEW file \in [Sp!Bytes -> Cells],
         arb.cmd.rdata = Sp!Words(file, size - 1)
  PROVE  Sp!ReadData(size) \in Seq(Cells) /\ Sp!ReadData(size) = [i \in 1 .. size |-> file[i - 1]]
<1> DEFINE one == Sp!read_rdata_into_array(<<>>, 0, size)
           two == IF Len(one) < size THEN Sp!read_rdata_into_array(one, 1, size) ELSE one
           three == IF Len(two) < size THEN Sp!read_rdata_into_array(two, 2, size) ELSE two
<1>0. /\ 0 + 4 = 4 /\ 4 + 4 = 8 /\ 8 + 4 = 12 /\ 0 = 4 * 0 /\ 4 = 4 * 1 /\ 8 = 4 * 2
      /\ 0 \in 0 .. 2 /\ 1 \in 0 .. 2 /\ 2 \in 0 .. 2 /\ 0 < size
  OBVIOUS
<1>1. Sp!ReadData(size) = three
  BY DEF Sp!ReadData
<1>2. FirstBytes(one, 4, size, file)
  <2>1. FirstBytes(<<>>, 0, size, file)
    BY EmptySeq DEF FirstBytes
  <2>2. FirstBytes(one, 0 + 4, size, file)
    BY <1>0, <2>1, WordRead
  <2> QED
    BY <1>0, <2>2
<1> HIDE DEF one
<1>3. FirstBytes(two, 8, size, file)
  <2>1. CASE Len(one) < size
    <3>1. 4 < size
      BY <1>2, <2>1 DEF FirstBytes
    <3>2. FirstBytes(Sp!read_rdata_into_array(one, 1, size), 4 + 4, size, file)
      BY <1>0, <1>2, <3>1, WordRead
    <3> QED
      BY <1>0, <2>1, <3>2
  <2>2. CASE ~(Len(one) < size)
    BY <1>2, <2>2 DEF FirstBytes
  <2> QED
    BY <2>1, <2>2
<1> HIDE DEF two
<1>4. FirstBytes(three, 12, size, file)
  <2>1. CASE Len(two) < size
    <3>1. 8 < size
      BY <1>3, <2>1 DEF FirstBytes
    <3>2. FirstBytes(Sp!read_rdata_into_array(two, 2, size), 8 + 4, size, file)
      BY <1>0, <1>3, <3>1, WordRead
    <3> QED
      BY <1>0, <2>1, <3>2
  <2>2. CASE ~(Len(two) < size)
    BY <1>3, <2>2 DEF FirstBytes
  <2> QED
    BY <2>1, <2>2
<1> HIDE DEF three
<1>5. three \in Seq(Cells) /\ Len(three) = size /\ \A i \in 1 .. size : three[i] = file[i - 1]
  BY <1>4 DEF FirstBytes
<1>6. three = [i \in 1 .. size |-> file[i - 1]]
  <2> DEFINE all == [i \in 1 .. size |-> file[i - 1]]
  <2>1. all \in [1 .. size -> Cells] /\ \A i \in 1 .. size : all[i] = file[i - 1]
    BY DEF Sp!Bytes
  <2> HIDE DEF all
  <2>2. all \in Seq(Cells) /\ Len(all) = size
    BY <2>1, FunctionIsSeq
  <2>3. three = all
    BY <1>5, <2>1, <2>2, SeqEqual
  <2> QED
    BY <2>3 DEF all
<1> QED
  BY <1>1, <1>5, <1>6

\* The driver's table, from the arbiter's list of channels.
LEMMA TableRead ==
  ASSUME SpmiSound, Sp!spmi_init
  PROVE  SpmiSound'
<1>1. /\ call.pc = "init" /\ call' = Sp!NoCall
      /\ chnl_tbl' = IF arb.ver = 2 THEN Sp!spmi_lookup_chnl_number ELSE chnl_tbl
      /\ UNCHANGED <<spmi_version, arb, regs>>
  BY DEF Sp!spmi_init
<1> DEFINE chan == IF spmi_version = 2 THEN arb.chan ELSE [i \in Sp!Channels |-> Sp!Unused]
           Of(p) == {i \in Sp!Channels : chan[i] = p}
           Last(p) == CHOOSE i \in Of(p) : \A j \in Of(p) : j <= i
<1>2. Sp!spmi_lookup_chnl_number = [p \in Peripherals |-> IF Of(p) = {} THEN chnl_tbl[p] ELSE Last(p)]
  BY DEF Sp!spmi_lookup_chnl_number
<1>3. ASSUME NEW p, Of(p) # {} PROVE Last(p) \in Of(p)
  <2>1. Of(p) \in SUBSET Nat /\ \A i \in Of(p) : i <= max_peripherals
    BY ArbiterConstants DEF Sp!Channels
  <2>2. \E m \in Of(p) : \A j \in Of(p) : j <= m
    BY <1>3, <2>1, ArbiterConstants, GreatestElement
  <2> QED
    BY <2>2
<1>4. \A p : Of(p) \subseteq Sp!Channels
  OBVIOUS
<1>5. ASSUME NEW p \in Sp!Listed(arb.chan), spmi_version = 2 PROVE Of(p) # {} /\ p \in Peripherals
  BY <1>5 DEF Sp!Listed, SpmiSound, SpmiTypes, ArbiterStates, Sp!ChannelMaps
<1>6. \A p : \A i \in Of(p) : spmi_version = 2 => arb.chan[i] = p
  OBVIOUS
<1> HIDE DEF Of, Last, chan
<1>7. chnl_tbl' \in [Peripherals -> Leftover \cup Sp!Channels]
  BY <1>1, <1>2, <1>3, <1>4 DEF SpmiSound, SpmiTypes
<1>8. TableSound'
  BY <1>1, <1>2, <1>3, <1>4, <1>5, <1>6 DEF TableSound
<1>9. call' \in CallStates /\ ~Calling'
  BY <1>1, ArbiterConstants, EmptySeq DEF Sp!NoCall, CallStates, Calling
<1> QED
  BY <1>1, <1>7, <1>8, <1>9 DEF SpmiSound, SpmiTypes, CommandSound, EffectSound

\* A command is written.
LEMMA CommandWritten ==
  ASSUME SpmiSound, NEW op \in {"write", "read"}, NEW p \in Peripherals \ {Sp!Unused}, NEW size \in 1 .. 12,
         NEW w \in Seq(Cells) \X Seq(Cells), NEW b \in Seq(Cells),
         op = "write" => w[1] \o w[2] = Sp!New(size), call.pc = "none",
         call' = Sp!Call(op, p, size, b),
         arb' = [arb EXCEPT !.cmd = Sp!Command(op, p, size, w)],
         UNCHANGED <<spmi_version, chnl_tbl, regs>>
  PROVE  SpmiSound'
<1> DEFINE c == Sp!Command(op, p, size, w)
<1>1. /\ c = [wdata |-> w, rdata |-> <<>>, n |-> Sp!Channel(p), op |-> op,
              to |-> (IF spmi_version = 2 THEN Sp!Unused ELSE p), byte_cnt |-> size - 1, status |-> {}]
      /\ call' = [pc |-> "poll", op |-> op, to |-> p, size |-> size, buffer |-> b, result |-> {},
                  before |-> regs]
  <2>1. c = [wdata |-> w, rdata |-> <<>>, n |-> Sp!Channel(p), op |-> op,
             to |-> (IF spmi_version = 2 THEN Sp!Unused ELSE p), byte_cnt |-> size - 1, status |-> {}]
    <3>1. c = [[wdata |-> <<<<>>, <<>>>>, rdata |-> <<>>, n |-> 0, op |-> "none", to |-> Sp!Unused,
                byte_cnt |-> 0, status |-> {}]
               EXCEPT !.wdata = w, !.n = Sp!Channel(p), !.op = op, !.byte_cnt = size - 1,
                      !.to = IF spmi_version = 2 THEN Sp!Unused ELSE p]
      BY Zenon DEF Sp!Command, Sp!Idle
    <3> HIDE DEF c
    <3> QED
      BY <3>1
  <2>2. call' = [pc |-> "poll", op |-> op, to |-> p, size |-> size, buffer |-> b, result |-> {},
                 before |-> regs]
    BY DEF Sp!Call, Sp!NoCall
  <2> QED
    BY <2>1, <2>2
<1>2. Sp!Channel(p) \in Leftover \cup Sp!Channels
  BY ArbiterConstants DEF SpmiSound, SpmiTypes, Sp!Channel, Sp!Channels
<1>3. c \in CommandStates
  BY <1>1, <1>2, ArbiterConstants DEF CommandStates
<1>4. call' \in CallStates
  BY <1>1 DEF CallStates, SpmiSound, SpmiTypes
<1> HIDE DEF c
<1>5. arb' \in ArbiterStates /\ arb'.ver = arb.ver /\ arb'.chan = arb.chan /\ arb'.cmd = c
  BY <1>3 DEF SpmiSound, SpmiTypes, ArbiterStates, c
<1>6. SpmiTypes'
  BY <1>1, <1>4, <1>5 DEF SpmiSound, SpmiTypes, Calling
<1>7. TableSound'
  BY <1>1, <1>5 DEF SpmiSound, TableSound
<1>8. CommandSound'
  <2>1. Sp!Channel(call.to)' = Sp!Channel(p)
    BY <1>1, <1>5 DEF Sp!Channel
  <2>2. Data' = w[1] \o w[2] /\ Fresh' = Sp!New(size)
    <3>1. arb'.cmd.wdata = w /\ call'.size = size
      BY <1>1, <1>5
    <3> QED
      BY <3>1 DEF Data, Fresh
  <2>3. /\ arb'.cmd.op = call'.op /\ arb'.cmd.byte_cnt = call'.size - 1 /\ arb'.cmd.n = Sp!Channel(p)
        /\ arb'.cmd.to = (IF spmi_version' = 2 THEN Sp!Unused ELSE call'.to)
    BY <1>1, <1>5
  <2>4. call'.op = op
    BY <1>1
  <2> QED
    BY <2>1, <2>2, <2>3, <2>4 DEF CommandSound
<1>9. EffectSound'
  BY <1>1, <1>5 DEF EffectSound, Statuses
<1> QED
  BY <1>6, <1>7, <1>8, <1>9 DEF SpmiSound

\* The arbiter answers.
LEMMA ArbiterAnswers ==
  ASSUME SpmiSound, Sp!Arbiter
  PROVE  SpmiSound'
<1> DEFINE c == arb.cmd
           target == IF arb.ver = 2 THEN arb.chan[c.n] ELSE c.to
           data == c.wdata[1] \o c.wdata[2]
           bytes(file) == [i \in Sp!Bytes |-> IF i \in 0 .. c.byte_cnt /\ i < Len(data) THEN data[i + 1] ELSE file[i]]
<1>1. /\ call.pc = "poll" /\ c.op # "none" /\ c.status = {}
      /\ spmi_version = arb.ver /\ c.n \in Sp!Channels
      /\ UNCHANGED <<spmi_version, chnl_tbl, call>>
  BY DEF Sp!Arbiter
<1>2. PICK status \in Statuses :
        /\ arb' = [arb EXCEPT !.cmd.status = status,
                        !.cmd.rdata = IF c.op = "read" THEN Sp!Words(regs[target], c.byte_cnt) ELSE @]
        /\ regs' = IF c.op = "write" /\ status = {"DONE"}
                   THEN [regs EXCEPT ![target] = bytes(regs[target])] ELSE regs
  BY Zenon DEF Sp!Arbiter, Statuses
<1>3. /\ call.op \in {"read", "write"} /\ c.op = call.op /\ c.byte_cnt = call.size - 1 /\ call.size \in 1 .. 12
      /\ (call.op = "write" => data = Fresh) /\ regs = call.before
  BY <1>1 DEF SpmiSound, SpmiTypes, CallStates, CommandSound, EffectSound, Calling, Data
<1>4. target = Target /\ Target \in Peripherals
  BY <1>1 DEF Target, SpmiSound, SpmiTypes, ArbiterStates, CommandStates, Sp!ChannelMaps
<1>5. Fresh \in Seq(Cells) /\ Len(Fresh) = call.size
  <2>1. call.size \in Nat
    BY <1>3
  <2> QED
    BY <2>1, NewIsFresh DEF Fresh
<1> HIDE DEF data, target
<1>6. call.op = "write" => bytes(regs[target]) = [i \in Sp!Bytes |-> IF i < call.size THEN Fresh[i + 1] ELSE regs[target][i]]
  BY <1>3, <1>5 DEF Sp!Bytes
<1>7. call.op = "write" => bytes(regs[target]) \in [Sp!Bytes -> Cells]
  <2>1. regs[target] \in [Sp!Bytes -> Cells]
    BY <1>4 DEF SpmiSound, SpmiTypes, Files
  <2>2. \A i \in Sp!Bytes : i < call.size => Fresh[i + 1] \in Cells
    BY <1>3, <1>5 DEF Sp!Bytes
  <2> HIDE DEF bytes
  <2> QED
    BY <1>6, <2>1, <2>2
<1> HIDE DEF bytes
<1>8. regs' \in Files
  BY <1>2, <1>3, <1>4, <1>7 DEF SpmiSound, SpmiTypes, Files
<1> DEFINE rdata == IF c.op = "read" THEN Sp!Words(regs[target], c.byte_cnt) ELSE c.rdata
           c2 == [c EXCEPT !.status = status, !.rdata = rdata]
<1>9. rdata \in {<<>>} \cup ReadWords
  <2>1. c.rdata \in {<<>>} \cup ReadWords
    BY DEF SpmiSound, SpmiTypes, ArbiterStates, CommandStates
  <2>2. regs[target] \in [Sp!Bytes -> Cells]
    BY <1>4 DEF SpmiSound, SpmiTypes, Files
  <2>3. ASSUME NEW w \in 0 .. 2, NEW b \in 0 .. 3 PROVE 4 * w + b \in Sp!Bytes
    BY DEF Sp!Bytes
  <2>4. Sp!Words(regs[target], c.byte_cnt) \in ReadWords
    BY <2>2, <2>3 DEF ReadWords, Sp!Words
  <2> QED
    BY <2>1, <2>4
<1>10. arb' = [arb EXCEPT !.cmd = c2] /\ c \in CommandStates
  BY <1>2 DEF SpmiSound, SpmiTypes, ArbiterStates
<1> HIDE DEF rdata
<1>11. /\ c2 \in CommandStates /\ c2.wdata = c.wdata /\ c2.rdata = rdata /\ c2.n = c.n /\ c2.op = c.op
       /\ c2.to = c.to /\ c2.byte_cnt = c.byte_cnt /\ c2.status = status
  BY <1>9, <1>10 DEF CommandStates
<1> HIDE DEF c2
<1>12. arb' \in ArbiterStates /\ arb'.ver = arb.ver /\ arb'.chan = arb.chan /\ arb'.cmd = c2
  BY <1>10, <1>11 DEF SpmiSound, SpmiTypes, ArbiterStates
<1>13. SpmiTypes'
  BY <1>1, <1>8, <1>12 DEF SpmiSound, SpmiTypes, Calling
<1>14. TableSound' /\ CommandSound'
  BY <1>1, <1>11, <1>12 DEF SpmiSound, TableSound, CommandSound, Calling, Data, Fresh, Sp!Channel
<1>15. EffectSound'
  <2>1. Target' = Target
    BY <1>11, <1>12 DEF Target
  <2>2. status # {}
    BY DEF Statuses
  <2>3. CASE call.op = "write" /\ status = {"DONE"}
    <3>1. regs' = [call.before EXCEPT ![Target] =
                     [i \in Sp!Bytes |-> IF i < call.size THEN Fresh[i + 1] ELSE @[i]]]
      BY <1>2, <1>3, <1>4, <1>6, <2>3
    <3> QED
      BY <1>1, <1>11, <1>12, <2>1, <2>2, <2>3, <3>1 DEF EffectSound, Fresh, Calling
  <2>4. CASE ~(call.op = "write" /\ status = {"DONE"})
    <3>1. regs' = call.before
      BY <1>2, <1>3, <2>4
    <3>2. call.op = "read" => c2.rdata = Sp!Words(regs'[Target], call.size - 1)
      BY <1>3, <1>4, <1>11, <3>1 DEF rdata
    <3> QED
      BY <1>1, <1>4, <1>11, <1>12, <2>1, <2>2, <2>4, <3>1, <3>2 DEF EffectSound, Calling
  <2> QED
    BY <2>3, <2>4
<1> QED
  BY <1>13, <1>14, <1>15 DEF SpmiSound

\* The driver sees the status.
LEMMA StatusSeen ==
  ASSUME SpmiSound, Sp!StatusRead
  PROVE  SpmiSound'
<1> DEFINE result == (arb.cmd.status \ {"DONE"}) \cup ({"DONE"} \ arb.cmd.status)
           buffer == IF call.op = "read" /\ arb.cmd.status = {"DONE"}
                     THEN Sp!ReadData(call.size) ELSE call.buffer
<1>1. /\ call.pc = "poll" /\ arb.cmd.status # {}
      /\ call' = [call EXCEPT !.pc = "returned", !.result = result, !.buffer = buffer]
      /\ UNCHANGED <<spmi_version, arb, chnl_tbl, regs>>
  BY DEF Sp!StatusRead
<1>2. arb.cmd.status \in Statuses /\ call.size \in 1 .. 12 /\ call \in CallStates
      /\ (call.op = "read" => /\ arb.cmd.rdata = Sp!Words(regs[Target], call.size - 1)
                              /\ regs[Target] \in [Sp!Bytes -> Cells])
  BY <1>1 DEF SpmiSound, SpmiTypes, EffectSound, Calling, Files
<1>3. result \in SUBSET Outcomes /\ (result = {} <=> arb.cmd.status = {"DONE"})
  BY <1>2 DEF Statuses, Outcomes
<1>4. buffer \in Seq(Cells)
  <2>1. CASE call.op = "read" /\ arb.cmd.status = {"DONE"}
    <3>1. Sp!ReadData(call.size) \in Seq(Cells)
      BY <1>2, <2>1, BytesRead
    <3> QED
      BY <2>1, <3>1
  <2>2. CASE ~(call.op = "read" /\ arb.cmd.status = {"DONE"})
    BY <1>2, <2>2 DEF CallStates
  <2> QED
    BY <2>1, <2>2
<1>5. call.op = "read" /\ arb.cmd.status = {"DONE"} =>
        buffer = [i \in 1 .. call.size |-> regs[Target][i - 1]]
  BY <1>2, BytesRead
<1> HIDE DEF result, buffer
<1>6. /\ call' \in CallStates /\ call'.pc = "returned" /\ call'.op = call.op /\ call'.to = call.to
      /\ call'.size = call.size /\ call'.buffer = buffer /\ call'.result = result /\ call'.before = call.before
  BY <1>1, <1>2, <1>3, <1>4 DEF CallStates
<1>7. SpmiTypes' /\ TableSound' /\ CommandSound'
  BY <1>1, <1>6 DEF SpmiSound, SpmiTypes, TableSound, CommandSound, Calling, Data, Fresh, Sp!Channel
<1>8. EffectSound'
  BY <1>1, <1>3, <1>5, <1>6 DEF SpmiSound, EffectSound, Calling, Target, Fresh
<1> QED
  BY <1>7, <1>8 DEF SpmiSound

\* A command reaches the peripheral it names, with every byte in its place,
\* or changes nothing, on any arbiter and however the channels are assigned
\* (spmi.c 48-69, 150-349).
THEOREM CommandsReach == PlatformSpec => []SpmiReaches
<1>1. Sp!Init => SpmiSound
  <2> SUFFICES ASSUME Sp!Init PROVE SpmiSound
    OBVIOUS
  <2>1. PICK ver \in 1 .. 2, chan \in Sp!ChannelMaps : arb = [ver |-> ver, chan |-> chan, cmd |-> Sp!Idle]
    BY DEF Sp!Init
  <2>2. Sp!Idle \in CommandStates
    BY IdleCommand
  <2>3. arb \in ArbiterStates
    BY <2>1, <2>2 DEF ArbiterStates
  <2>4. regs \in Files
    <3>1. ASSUME NEW p \in Peripherals, NEW i \in Sp!Bytes PROVE <<p, i>> \in Cells
      <4>1. <<p, i>> \in Peripherals \X Sp!Bytes
        OBVIOUS
      <4> QED
        BY <4>1 DEF Cells
    <3> QED
      BY <3>1 DEF Sp!Init, Sp!Old, Files
  <2>5. call \in CallStates /\ call.pc = "init"
    BY ArbiterConstants, EmptySeq DEF Sp!Init, Sp!NoCall, CallStates
  <2>6. chnl_tbl \in [Peripherals -> Leftover \cup Sp!Channels] /\ spmi_version \in 1 .. 2
    BY DEF Sp!Init
  <2> QED
    BY <2>3, <2>4, <2>5, <2>6 DEF SpmiSound, SpmiTypes, TableSound, CommandSound, EffectSound, Calling
<1>2. SpmiSound /\ [Sp!SpmiStep]_(Sp!svars) => SpmiSound'
  <2> SUFFICES ASSUME SpmiSound, [Sp!SpmiStep]_(Sp!svars) PROVE SpmiSound'
    OBVIOUS
  <2>1. CASE UNCHANGED Sp!svars
    <3>1. UNCHANGED <<spmi_version, arb, chnl_tbl, regs, call>>
      BY <2>1 DEF Sp!svars
    <3>2. SpmiTypes' /\ TableSound' /\ Calling' = Calling
      BY <3>1 DEF SpmiSound, SpmiTypes, TableSound, Calling
    <3>3. CommandSound'
      BY <3>1, <3>2 DEF SpmiSound, CommandSound, Data, Fresh, Sp!Channel
    <3>4. EffectSound'
      BY <3>1, <3>2 DEF SpmiSound, EffectSound, Fresh, Target
    <3> QED
      BY <3>2, <3>3, <3>4 DEF SpmiSound
  <2>2. ASSUME NEW p \in Peripherals \ {Sp!Unused}, NEW size \in WriteSizes, Sp!pmic_arb_write_cmd(p, size)
        PROVE  SpmiSound'
    <3> DEFINE w == <<Sp!write_wdata_from_array(Sp!New(size), 0, size),
                      IF size > 4 THEN Sp!write_wdata_from_array(Sp!New(size), 4, size) ELSE <<>> >>
    <3>1. size \in 1 .. 8
      BY ArbiterConstants
    <3>2. w \in Seq(Cells) \X Seq(Cells) /\ w[1] \o w[2] = Sp!New(size) /\ Sp!New(size) \in Seq(Cells)
      <4>1. size \in Nat
        BY <3>1
      <4>2. Sp!New(size) \in Seq(Cells)
        BY <4>1, NewIsFresh
      <4> QED
        BY <3>1, <4>2, WordsHoldBytes
    <3>3. /\ call.pc = "none" /\ call' = Sp!Call("write", p, size, Sp!New(size))
          /\ arb' = [arb EXCEPT !.cmd = Sp!Command("write", p, size, w)]
          /\ UNCHANGED <<spmi_version, chnl_tbl, regs>>
      BY <2>2 DEF Sp!pmic_arb_write_cmd
    <3> HIDE DEF w
    <3>4. size \in 1 .. 12
      BY <3>1
    <3> QED
      BY <3>2, <3>3, <3>4, CommandWritten
  <2>3. ASSUME NEW p \in Peripherals \ {Sp!Unused}, NEW size \in ReadSizes, Sp!pmic_arb_read_cmd(p, size)
        PROVE  SpmiSound'
    <3> DEFINE w == <<<<>>, <<>>>>
    <3>1. size \in 1 .. 12 /\ w \in Seq(Cells) \X Seq(Cells) /\ <<>> \in Seq(Cells)
      BY ArbiterConstants, EmptySeq
    <3>2. /\ call.pc = "none" /\ call' = Sp!Call("read", p, size, <<>>)
          /\ arb' = [arb EXCEPT !.cmd = Sp!Command("read", p, size, w)]
          /\ UNCHANGED <<spmi_version, chnl_tbl, regs>>
      BY <2>3 DEF Sp!pmic_arb_read_cmd
    <3> HIDE DEF w
    <3> QED
      BY <3>1, <3>2, CommandWritten
  <2>4. CASE Sp!Return
    <3>1. call' = Sp!NoCall /\ arb' = [arb EXCEPT !.cmd = Sp!Idle] /\ UNCHANGED <<spmi_version, chnl_tbl, regs>>
          /\ call.pc = "returned"
      BY <2>4 DEF Sp!Return
    <3>2. Sp!Idle \in CommandStates
      BY IdleCommand
    <3>3. arb' \in ArbiterStates /\ arb'.ver = arb.ver /\ arb'.chan = arb.chan
      BY <3>1, <3>2 DEF SpmiSound, SpmiTypes, ArbiterStates
    <3>4. call' \in CallStates /\ ~Calling' /\ call'.pc = "none"
      BY <3>1, ArbiterConstants, EmptySeq DEF Sp!NoCall, CallStates, Calling
    <3> QED
      BY <3>1, <3>3, <3>4 DEF SpmiSound, SpmiTypes, TableSound, CommandSound, EffectSound
  <2> QED
    BY <2>1, <2>2, <2>3, <2>4, TableRead, ArbiterAnswers, StatusSeen DEF Sp!SpmiStep
<1>3. SpmiSound => SpmiReaches
  <2> SUFFICES ASSUME SpmiSound, call.pc = "returned", arb.ver = 2 => call.to \in Sp!Listed(arb.chan)
               PROVE  IF call.op = "write" /\ call.result = {}
                      THEN regs = [call.before EXCEPT ![call.to] =
                             [i \in Sp!Bytes |-> IF i < call.size THEN Sp!New(call.size)[i + 1] ELSE @[i]]]
                      ELSE /\ regs = call.before
                           /\ call.op = "read" /\ call.result = {} =>
                                call.buffer = [i \in 1 .. call.size |-> regs[call.to][i - 1]]
    BY DEF SpmiReaches, Sp!SpmiReaches
  <2>1. Calling
    BY DEF Calling
  <2>2. spmi_version = arb.ver /\ arb.ver \in 1 .. 2
    BY <2>1 DEF SpmiSound, EffectSound, SpmiTypes, ArbiterStates
  <2>3. Target = call.to
    <3>1. CASE arb.ver = 2
      BY <2>1, <2>2, <3>1 DEF SpmiSound, TableSound, CommandSound, Sp!Channel, Target
    <3>2. CASE arb.ver # 2
      BY <2>1, <2>2, <3>2 DEF SpmiSound, CommandSound, Target
    <3> QED
      BY <3>1, <3>2
  <2> QED
    BY <2>1, <2>3 DEF SpmiSound, EffectSound, Fresh
<1>4. PlatformInit => Sp!Init
  BY DEF PlatformInit
<1>5. [PlatformNext]_platformVars => [Sp!SpmiStep]_(Sp!svars)
  BY DEF PlatformNext, SpmiNext, PmicNext, Pins, platformVars, svars, Sp!svars
<1> QED
  BY <1>1, <1>2, <1>3, <1>4, <1>5, PTL DEF PlatformSpec

-----------------------------------------------------------------------------
(* Pmic: one command.                                                       *)

RunShape ==
  /\ run = [call |-> run.call, prog |-> run.prog, acc |-> run.acc, saved |-> run.saved,
            vars |-> run.vars, result |-> run.result, failed |-> run.failed, before |-> run.before]
  /\ run.failed \in BOOLEAN
  /\ pregs = [r \in Pm!Registers |-> pregs[r]]
  /\ run.saved = [r \in Pm!Registers |-> run.saved[r]]

\* A call is under way or has returned, and a step of it loses no command.
Runs == RunShape /\ run.call.f # "none" /\ Pm!PmicStep /\ ~run'.failed

\* The step takes the program on and leaves the call.
Goes == /\ run'.prog = Tail(run.prog) /\ run'.call = run.call /\ run'.before = run.before
        /\ ~run.failed /\ RunShape'
Quiet == UNCHANGED <<pregs, unlocked, settled>>

Commands == {"write", "put", "restore", "read", "save", "sample"}

LEMMA NoSecondCall ==
  ASSUME Runs
  PROVE  run.prog # <<>> /\ ((\E lost \in BOOLEAN : Pm!Command(lost)) \/ Pm!Wait \/ Pm!Compute)
<1>1. run # Pm!NoRun
  BY DEF Runs, Pm!NoRun
<1>2. ~(\E c \in Calls : Pm!Start(c))
  BY <1>1 DEF Pm!Start
<1> QED
  BY <1>2 DEF Runs, Pm!PmicStep, Pm!Wait, Pm!Compute, Pm!Command

LEMMA ByCommand ==
  ASSUME Runs, Head(run.prog).op \in Commands
  PROVE  \E lost \in BOOLEAN : Pm!Command(lost)
<1>1. ~Pm!Wait
  BY DEF Pm!Wait, Commands
<1>2. ~Pm!Compute
  BY DEF Pm!Compute, Commands
<1> QED
  BY <1>1, <1>2, NoSecondCall

\* Whether a command has been lost after one that is or is not.
LEMMA Loss ==
  ASSUME RunShape, NEW lost \in BOOLEAN
  PROVE  \E f \in BOOLEAN : f = (run.failed \/ lost) /\ (run.failed => f) /\ (f = FALSE => lost = FALSE)
<1>1. (run.failed \/ lost) \in BOOLEAN
  OBVIOUS
<1> QED
  BY <1>1

LEMMA WrittenShape ==
  ASSUME RunShape, NEW reg, NEW val
  PROVE  Pm!Written(reg, val) = [r \in Pm!Registers |-> Pm!Written(reg, val)[r]]
<1> DEFINE bits == (pregs[reg] \ {"S2_RESET_EN"}) \cup (val \cap {"S2_RESET_EN"})
<1>1. \/ Pm!Written(reg, val) = pregs
      \/ Pm!Written(reg, val) = [pregs EXCEPT ![reg] = bits]
      \/ Pm!Written(reg, val) = [pregs EXCEPT ![reg] = val]
  BY DEF Pm!Written
<1>2. ASSUME NEW v, Pm!Written(reg, val) = [pregs EXCEPT ![reg] = v]
      PROVE  Pm!Written(reg, val) = [r \in Pm!Registers |-> Pm!Written(reg, val)[r]]
  BY <1>2 DEF RunShape
<1> QED
  BY <1>1, <1>2 DEF RunShape

\* A step that changes only fields that a command may set.
LEMMA StepShape ==
  ASSUME Runs, run.failed => run'.failed, run'.failed \in BOOLEAN,
         run' = [run EXCEPT !.prog = Tail(run.prog), !.failed = run'.failed, !.acc = run'.acc,
                            !.saved = run'.saved, !.vars = run'.vars, !.result = run'.result],
         run'.saved = [r \in Pm!Registers |-> run'.saved[r]],
         pregs' = [r \in Pm!Registers |-> pregs'[r]]
  PROVE  Goes
<1>1. /\ run'.prog = Tail(run.prog) /\ run'.call = run.call /\ run'.before = run.before
      /\ run' = [call |-> run'.call, prog |-> run'.prog, acc |-> run'.acc, saved |-> run'.saved,
                 vars |-> run'.vars, result |-> run'.result, failed |-> run'.failed,
                 before |-> run'.before]
  BY DEF Runs, RunShape
<1> QED
  BY <1>1 DEF Runs, Goes, RunShape

LEMMA Writes ==
  ASSUME Runs, NEW reg, NEW val, Head(run.prog) = Pm!W(reg, val)
  PROVE  /\ Goes /\ UNCHANGED <<msm, run.acc, run.saved, run.vars, run.result>>
         /\ Pm!RegWrite(reg, val, FALSE)
<1>1. /\ Head(run.prog).op = "write" /\ Head(run.prog).reg = reg /\ Head(run.prog).val = val
  BY DEF Pm!W
<1>2. PICK lost \in BOOLEAN : Pm!Command(lost)
  BY <1>1, ByCommand DEF Commands
<1>3. /\ Pm!RegWrite(reg, val, lost) /\ msm' = msm
      /\ run' = [Pm!Losing(lost) EXCEPT !.prog = Tail(@)]
  BY <1>1, <1>2 DEF Pm!Command, Pm!Next
<1>0. PICK f \in BOOLEAN : f = (run.failed \/ lost) /\ (run.failed => f) /\ (f = FALSE => lost = FALSE)
  BY Loss DEF Runs
<1>4. run' = [[run EXCEPT !.failed = f] EXCEPT !.prog = Tail(@)]
  BY <1>0, <1>3 DEF Pm!Losing
<1>5. /\ run' = [run EXCEPT !.prog = Tail(run.prog), !.failed = run'.failed, !.acc = run'.acc,
                            !.saved = run'.saved, !.vars = run'.vars, !.result = run'.result]
      /\ run'.failed = f /\ UNCHANGED <<run.acc, run.saved, run.vars, run.result>>
  BY <1>4 DEF Runs, RunShape
<1>6. pregs' = [r \in Pm!Registers |-> pregs'[r]]
  <2>1. pregs' = pregs \/ pregs' = Pm!Written(reg, val)
    BY <1>3 DEF Pm!RegWrite
  <2> QED
    BY <2>1, WrittenShape DEF Runs, RunShape
<1>7. Goes
  BY <1>0, <1>5, <1>6, StepShape DEF Runs, RunShape
<1>8. lost = FALSE
  BY <1>0, <1>5 DEF Runs
<1> QED
  BY <1>3, <1>5, <1>7, <1>8

LEMMA Puts ==
  ASSUME Runs, NEW reg, Head(run.prog) = Pm!Put(reg)
  PROVE  /\ Goes /\ UNCHANGED <<msm, run.acc, run.saved, run.vars, run.result>>
         /\ Pm!RegWrite(reg, run.acc, FALSE)
<1>1. /\ Head(run.prog).op = "put" /\ Head(run.prog).reg = reg
  BY DEF Pm!Put
<1>2. PICK lost \in BOOLEAN : Pm!Command(lost)
  BY <1>1, ByCommand DEF Commands
<1>3. /\ Pm!RegWrite(reg, run.acc, lost) /\ msm' = msm
      /\ run' = [Pm!Losing(lost) EXCEPT !.prog = Tail(@)]
  BY <1>1, <1>2 DEF Pm!Command, Pm!Next
<1>0. PICK f \in BOOLEAN : f = (run.failed \/ lost) /\ (run.failed => f) /\ (f = FALSE => lost = FALSE)
  BY Loss DEF Runs
<1>4. run' = [[run EXCEPT !.failed = f] EXCEPT !.prog = Tail(@)]
  BY <1>0, <1>3 DEF Pm!Losing
<1>5. /\ run' = [run EXCEPT !.prog = Tail(run.prog), !.failed = run'.failed, !.acc = run'.acc,
                            !.saved = run'.saved, !.vars = run'.vars, !.result = run'.result]
      /\ run'.failed = f /\ UNCHANGED <<run.acc, run.saved, run.vars, run.result>>
  BY <1>4 DEF Runs, RunShape
<1>6. pregs' = [r \in Pm!Registers |-> pregs'[r]]
  <2>1. pregs' = pregs \/ pregs' = Pm!Written(reg, run.acc)
    BY <1>3 DEF Pm!RegWrite
  <2> QED
    BY <2>1, WrittenShape DEF Runs, RunShape
<1>7. Goes
  BY <1>0, <1>5, <1>6, StepShape DEF Runs, RunShape
<1>8. lost = FALSE
  BY <1>0, <1>5 DEF Runs
<1> QED
  BY <1>3, <1>5, <1>7, <1>8

LEMMA Restores ==
  ASSUME Runs, NEW reg, Head(run.prog) = Pm!Restore(reg)
  PROVE  /\ Goes /\ UNCHANGED <<msm, run.acc, run.saved, run.vars, run.result>>
         /\ Pm!RegWrite(reg, run.saved[reg], FALSE)
<1>1. /\ Head(run.prog).op = "restore" /\ Head(run.prog).reg = reg
  BY DEF Pm!Restore
<1>2. PICK lost \in BOOLEAN : Pm!Command(lost)
  BY <1>1, ByCommand DEF Commands
<1>3. /\ Pm!RegWrite(reg, run.saved[reg], lost) /\ msm' = msm
      /\ run' = [Pm!Losing(lost) EXCEPT !.prog = Tail(@)]
  BY <1>1, <1>2 DEF Pm!Command, Pm!Next
<1>0. PICK f \in BOOLEAN : f = (run.failed \/ lost) /\ (run.failed => f) /\ (f = FALSE => lost = FALSE)
  BY Loss DEF Runs
<1>4. run' = [[run EXCEPT !.failed = f] EXCEPT !.prog = Tail(@)]
  BY <1>0, <1>3 DEF Pm!Losing
<1>5. /\ run' = [run EXCEPT !.prog = Tail(run.prog), !.failed = run'.failed, !.acc = run'.acc,
                            !.saved = run'.saved, !.vars = run'.vars, !.result = run'.result]
      /\ run'.failed = f /\ UNCHANGED <<run.acc, run.saved, run.vars, run.result>>
  BY <1>4 DEF Runs, RunShape
<1>6. pregs' = [r \in Pm!Registers |-> pregs'[r]]
  <2>1. pregs' = pregs \/ pregs' = Pm!Written(reg, run.saved[reg])
    BY <1>3 DEF Pm!RegWrite
  <2> QED
    BY <2>1, WrittenShape DEF Runs, RunShape
<1>7. Goes
  BY <1>0, <1>5, <1>6, StepShape DEF Runs, RunShape
<1>8. lost = FALSE
  BY <1>0, <1>5 DEF Runs
<1> QED
  BY <1>3, <1>5, <1>7, <1>8

LEMMA Reads ==
  ASSUME Runs, NEW reg, Head(run.prog) = Pm!R(reg)
  PROVE  /\ Goes /\ Quiet /\ UNCHANGED <<msm, run.saved, run.vars, run.result>>
         /\ run'.acc = pregs[reg]
<1>1. Head(run.prog).op = "read" /\ Head(run.prog).reg = reg
  BY DEF Pm!R
<1>2. PICK lost \in BOOLEAN : Pm!Command(lost)
  BY <1>1, ByCommand DEF Commands
<1>3. PICK f \in BOOLEAN : f = (run.failed \/ lost) /\ (run.failed => f) /\ (f = FALSE => lost = FALSE)
  BY Loss DEF Runs
<1>4. PICK v : v = IF lost THEN {} ELSE pregs[reg]
  OBVIOUS
<1>5. /\ msm' = msm /\ Quiet
      /\ run' = [[[run EXCEPT !.failed = f] EXCEPT !.acc = v] EXCEPT !.prog = Tail(@)]
  BY <1>1, <1>2, <1>3, <1>4 DEF Pm!Command, Pm!Next, Pm!Losing, Pm!Reading, Quiet
<1>6. /\ run' = [run EXCEPT !.prog = Tail(run.prog), !.failed = run'.failed, !.acc = run'.acc,
                            !.saved = run'.saved, !.vars = run'.vars, !.result = run'.result]
      /\ run'.failed = f /\ run'.acc = v /\ run'.saved = run.saved
      /\ UNCHANGED <<run.vars, run.result>>
  BY <1>5 DEF Runs, RunShape
<1>7. pregs' = [r \in Pm!Registers |-> pregs'[r]] /\ run'.saved = [r \in Pm!Registers |-> run'.saved[r]]
  BY <1>5, <1>6 DEF Runs, RunShape, Quiet
<1>8. Goes
  BY <1>3, <1>6, <1>7, StepShape
<1>9. v = pregs[reg]
  BY <1>3, <1>4, <1>6 DEF Runs
<1> QED
  BY <1>5, <1>6, <1>8, <1>9

LEMMA Saves ==
  ASSUME Runs, NEW reg, Head(run.prog) = Pm!Save(reg)
  PROVE  /\ Goes /\ Quiet /\ UNCHANGED <<msm, run.acc, run.vars, run.result>>
         /\ run'.saved = [run.saved EXCEPT ![reg] = pregs[reg]]
<1>1. Head(run.prog).op = "save" /\ Head(run.prog).reg = reg
  BY DEF Pm!Save
<1>2. PICK lost \in BOOLEAN : Pm!Command(lost)
  BY <1>1, ByCommand DEF Commands
<1>3. PICK f \in BOOLEAN : f = (run.failed \/ lost) /\ (run.failed => f) /\ (f = FALSE => lost = FALSE)
  BY Loss DEF Runs
<1>4. PICK v : v = IF lost THEN {} ELSE pregs[reg]
  OBVIOUS
<1>5. /\ msm' = msm /\ Quiet
      /\ run' = [[[run EXCEPT !.failed = f] EXCEPT !.saved[reg] = v] EXCEPT !.prog = Tail(@)]
  BY <1>1, <1>2, <1>3, <1>4 DEF Pm!Command, Pm!Next, Pm!Losing, Pm!Reading, Quiet
<1>6. /\ run' = [run EXCEPT !.prog = Tail(run.prog), !.failed = run'.failed, !.acc = run'.acc,
                            !.saved = run'.saved, !.vars = run'.vars, !.result = run'.result]
      /\ run'.failed = f /\ run'.acc = run.acc /\ run'.saved = [run.saved EXCEPT ![reg] = v]
      /\ UNCHANGED <<run.vars, run.result>>
  BY <1>5 DEF Runs, RunShape
<1>7. pregs' = [r \in Pm!Registers |-> pregs'[r]] /\ run'.saved = [r \in Pm!Registers |-> run'.saved[r]]
  BY <1>5, <1>6 DEF Runs, RunShape, Quiet
<1>8. Goes
  BY <1>3, <1>6, <1>7, StepShape
<1>9. v = pregs[reg]
  BY <1>3, <1>4, <1>6 DEF Runs
<1> QED
  BY <1>5, <1>6, <1>8, <1>9

LEMMA Ors ==
  ASSUME Runs, NEW bits, Head(run.prog) = Pm!Or(bits)
  PROVE  /\ Goes /\ Quiet /\ UNCHANGED <<msm, run.saved, run.vars, run.result>>
         /\ run'.acc = run.acc \cup bits
<1>1. Head(run.prog).op = "or" /\ Head(run.prog).bits = bits
  BY DEF Pm!Or
<1>2. ~Pm!Wait /\ ~(\E lost \in BOOLEAN : Pm!Command(lost))
  BY <1>1 DEF Pm!Wait, Pm!Command
<1> DEFINE v == run.acc \cup bits
<1>3. /\ msm' = msm /\ Quiet
      /\ run' = [[run EXCEPT !.acc = v] EXCEPT !.prog = Tail(@)]
  BY <1>1, <1>2, NoSecondCall DEF Pm!Compute, Pm!Next, Quiet
<1> HIDE DEF v
<1>4. /\ run' = [run EXCEPT !.prog = Tail(run.prog), !.failed = run'.failed, !.acc = run'.acc,
                            !.saved = run'.saved, !.vars = run'.vars, !.result = run'.result]
      /\ run'.acc = v /\ run'.result = run.result
      /\ UNCHANGED <<run.failed, run.saved, run.vars>>
  BY <1>3 DEF Runs, RunShape
<1>5. pregs' = [r \in Pm!Registers |-> pregs'[r]]
  BY <1>3 DEF Runs, RunShape, Quiet
<1>6. Goes
  BY <1>4, <1>5, StepShape DEF Runs, RunShape
<1> QED
  BY <1>3, <1>4, <1>6 DEF v

LEMMA AndNots ==
  ASSUME Runs, NEW bits, Head(run.prog) = Pm!AndNot(bits)
  PROVE  /\ Goes /\ Quiet /\ UNCHANGED <<msm, run.saved, run.vars, run.result>>
         /\ run'.acc = run.acc \ bits
<1>1. Head(run.prog).op = "andnot" /\ Head(run.prog).bits = bits
  BY DEF Pm!AndNot
<1>2. ~Pm!Wait /\ ~(\E lost \in BOOLEAN : Pm!Command(lost))
  BY <1>1 DEF Pm!Wait, Pm!Command
<1> DEFINE v == run.acc \ bits
<1>3. /\ msm' = msm /\ Quiet
      /\ run' = [[run EXCEPT !.acc = v] EXCEPT !.prog = Tail(@)]
  BY <1>1, <1>2, NoSecondCall DEF Pm!Compute, Pm!Next, Quiet
<1> HIDE DEF v
<1>4. /\ run' = [run EXCEPT !.prog = Tail(run.prog), !.failed = run'.failed, !.acc = run'.acc,
                            !.saved = run'.saved, !.vars = run'.vars, !.result = run'.result]
      /\ run'.acc = v /\ run'.result = run.result
      /\ UNCHANGED <<run.failed, run.saved, run.vars>>
  BY <1>3 DEF Runs, RunShape
<1>5. pregs' = [r \in Pm!Registers |-> pregs'[r]]
  BY <1>3 DEF Runs, RunShape, Quiet
<1>6. Goes
  BY <1>4, <1>5, StepShape DEF Runs, RunShape
<1> QED
  BY <1>3, <1>4, <1>6 DEF v

LEMMA Tests ==
  ASSUME Runs, NEW bits, Head(run.prog) = Pm!Test(bits)
  PROVE  /\ Goes /\ Quiet /\ UNCHANGED <<msm, run.saved, run.vars, run.acc>>
         /\ run'.result = Pm!Flag(run.acc \cap bits # {})
<1>1. Head(run.prog).op = "test" /\ Head(run.prog).bits = bits
  BY DEF Pm!Test
<1>2. ~Pm!Wait /\ ~(\E lost \in BOOLEAN : Pm!Command(lost))
  BY <1>1 DEF Pm!Wait, Pm!Command
<1> DEFINE v == Pm!Flag(run.acc \cap bits # {})
<1>3. /\ msm' = msm /\ Quiet
      /\ run' = [[run EXCEPT !.result = v] EXCEPT !.prog = Tail(@)]
  BY <1>1, <1>2, NoSecondCall DEF Pm!Compute, Pm!Next, Quiet
<1> HIDE DEF v
<1>4. /\ run' = [run EXCEPT !.prog = Tail(run.prog), !.failed = run'.failed, !.acc = run'.acc,
                            !.saved = run'.saved, !.vars = run'.vars, !.result = run'.result]
      /\ run'.acc = run.acc /\ run'.result = v
      /\ UNCHANGED <<run.failed, run.saved, run.vars>>
  BY <1>3 DEF Runs, RunShape
<1>5. pregs' = [r \in Pm!Registers |-> pregs'[r]]
  BY <1>3 DEF Runs, RunShape, Quiet
<1>6. Goes
  BY <1>4, <1>5, StepShape DEF Runs, RunShape
<1> QED
  BY <1>3, <1>4, <1>6 DEF v

LEMMA Returns ==
  ASSUME Runs, NEW value, Head(run.prog) = Pm!Return(value)
  PROVE  /\ Goes /\ Quiet /\ UNCHANGED <<msm, run.saved, run.vars, run.acc>>
         /\ run'.result = value
<1>1. Head(run.prog).op = "return" /\ Head(run.prog).value = value
  BY DEF Pm!Return
<1>2. ~Pm!Wait /\ ~(\E lost \in BOOLEAN : Pm!Command(lost))
  BY <1>1 DEF Pm!Wait, Pm!Command
<1> DEFINE v == value
<1>3. /\ msm' = msm /\ Quiet
      /\ run' = [[run EXCEPT !.result = v] EXCEPT !.prog = Tail(@)]
  BY <1>1, <1>2, NoSecondCall DEF Pm!Compute, Pm!Next, Quiet
<1> HIDE DEF v
<1>4. /\ run' = [run EXCEPT !.prog = Tail(run.prog), !.failed = run'.failed, !.acc = run'.acc,
                            !.saved = run'.saved, !.vars = run'.vars, !.result = run'.result]
      /\ run'.acc = run.acc /\ run'.result = v
      /\ UNCHANGED <<run.failed, run.saved, run.vars>>
  BY <1>3 DEF Runs, RunShape
<1>5. pregs' = [r \in Pm!Registers |-> pregs'[r]]
  BY <1>3 DEF Runs, RunShape, Quiet
<1>6. Goes
  BY <1>4, <1>5, StepShape DEF Runs, RunShape
<1> QED
  BY <1>3, <1>4, <1>6 DEF v

LEMMA Delays ==
  ASSUME Runs, Head(run.prog) = Pm!Delay
  PROVE  /\ Goes /\ UNCHANGED <<pregs, unlocked, msm, run.acc, run.saved, run.vars, run.result>>
         /\ (settled' = Pm!ResetCtl)
<1>1. Head(run.prog).op = "delay"
  BY DEF Pm!Delay
<1>2. ~Pm!Compute /\ ~(\E lost \in BOOLEAN : Pm!Command(lost))
  BY <1>1 DEF Pm!Compute, Pm!Command
<1>3. /\ UNCHANGED <<pregs, unlocked>> /\ (settled' = Pm!ResetCtl) /\ msm' = msm
      /\ run' = [run EXCEPT !.prog = Tail(@)]
  BY <1>1, <1>2, NoSecondCall DEF Pm!Wait, Pm!Next
<1>4. /\ run' = [run EXCEPT !.prog = Tail(run.prog), !.failed = run'.failed, !.acc = run'.acc,
                            !.saved = run'.saved, !.vars = run'.vars, !.result = run'.result]
      /\ UNCHANGED <<run.failed, run.acc, run.saved, run.vars, run.result>>
  BY <1>3 DEF Runs, RunShape
<1>5. pregs' = [r \in Pm!Registers |-> pregs'[r]]
  BY <1>3 DEF Runs, RunShape
<1>6. Goes
  BY <1>4, <1>5, StepShape DEF Runs, RunShape
<1> QED
  BY <1>3, <1>4, <1>6

LEMMA Drops ==
  ASSUME Runs, Head(run.prog) = Pm!PS_HOLD
  PROVE  /\ Goes /\ UNCHANGED <<pregs, unlocked, settled, run.acc, run.saved, run.vars, run.result>>
         /\ (msm' = IF Pm!EnabledIn(pregs, Pm!Pon("PS_HOLD_CTL"))
                   THEN pregs[Pm!Pon("PS_HOLD_CTL")] \ {"S2_RESET_EN"} ELSE msm)
<1>1. Head(run.prog).op = "ps_hold"
  BY DEF Pm!PS_HOLD
<1>2. ~Pm!Compute /\ ~(\E lost \in BOOLEAN : Pm!Command(lost))
  BY <1>1 DEF Pm!Compute, Pm!Command
<1>3. /\ UNCHANGED <<pregs, unlocked>> /\ (msm' = IF Pm!EnabledIn(pregs, Pm!Pon("PS_HOLD_CTL"))
                   THEN pregs[Pm!Pon("PS_HOLD_CTL")] \ {"S2_RESET_EN"} ELSE msm) /\ settled' = settled
      /\ run' = [run EXCEPT !.prog = Tail(@)]
  BY <1>1, <1>2, NoSecondCall DEF Pm!Wait, Pm!Next
<1>4. /\ run' = [run EXCEPT !.prog = Tail(run.prog), !.failed = run'.failed, !.acc = run'.acc,
                            !.saved = run'.saved, !.vars = run'.vars, !.result = run'.result]
      /\ UNCHANGED <<run.failed, run.acc, run.saved, run.vars, run.result>>
  BY <1>3 DEF Runs, RunShape
<1>5. pregs' = [r \in Pm!Registers |-> pregs'[r]]
  BY <1>3 DEF Runs, RunShape
<1>6. Goes
  BY <1>4, <1>5, StepShape DEF Runs, RunShape
<1> QED
  BY <1>3, <1>4, <1>6

-----------------------------------------------------------------------------
(* Pmic: a call.                                                            *)

\* No call yet.
Resting ==
  /\ run = Pm!NoRun /\ unlocked = FALSE /\ msm = {"up"}
  /\ pregs \in {Pm!Blank, Pm!Armed("PS_HOLD_CTL"), Pm!Armed("PS_HOLD_CTL2")}
  /\ settled = {r \in Pm!ResetCtl : ~Pm!EnabledIn(pregs, r)}

\* The call has the program s before it from step k on.
PmAt(s, k) == k \in 1 .. Len(s) + 1 /\ run.prog = SubSeq(s, k, Len(s))

LEMMA RestOfProgram ==
  ASSUME NEW S, NEW s \in Seq(S), NEW k, PmAt(s, k)
  PROVE  /\ run.prog = <<>> => k = Len(s) + 1
         /\ run.prog # <<>> => k \in 1 .. Len(s) /\ Head(run.prog) = s[k]
         /\ run.prog # <<>> /\ run'.prog = Tail(run.prog) => PmAt(s, k + 1)'
<1>1. Len(s) \in Nat /\ k \in 1 .. Len(s) + 1
  BY DEF PmAt
<1>2. CASE k = Len(s) + 1
  <2>1. run.prog = <<>>
    BY <1>1, <1>2 DEF PmAt
  <2> QED
    BY <1>2, <2>1
<1>3. CASE k \in 1 .. Len(s)
  <2>1. Len(SubSeq(s, k, Len(s))) = Len(s) - k + 1
    BY <1>1, <1>3
  <2>2. run.prog # <<>>
    <3>1. Len(run.prog) # 0
      BY <1>1, <1>3, <2>1 DEF PmAt
    <3>2. Len(<<>>) = 0
      OBVIOUS
    <3> QED
      BY ONLY <3>1, <3>2
  <2>3. Head(run.prog) = s[k] /\ Tail(run.prog) = SubSeq(s, k + 1, Len(s))
    BY <1>1, <1>3 DEF PmAt
  <2>4. k + 1 \in 1 .. Len(s) + 1
    BY <1>1, <1>3
  <2> QED
    BY <1>3, <2>2, <2>3, <2>4 DEF PmAt
<1> QED
  BY <1>1, <1>2, <1>3

LEMMA ProgramStarts ==
  ASSUME NEW S, NEW s \in Seq(S), run'.prog = s
  PROVE  PmAt(s, 1)'
<1>1. Len(s) \in Nat /\ SubSeq(s, 1, Len(s)) = s
  OBVIOUS
<1> QED
  BY <1>1 DEF PmAt

LEMMA ProgramEnds ==
  ASSUME NEW S, NEW s \in Seq(S), run'.prog = <<>>
  PROVE  PmAt(s, Len(s) + 1)'
<1>1. Len(s) \in Nat /\ SubSeq(s, Len(s) + 1, Len(s)) = <<>>
  OBVIOUS
<1> QED
  BY <1>1 DEF PmAt

LEMMA CallStarts ==
  ASSUME Resting, RunShape, NEW c \in Calls, Pm!Start(c)
  PROVE  /\ run'.call = c /\ run'.prog = Pm!Program(c) /\ run'.before = pregs /\ RunShape'
         /\ UNCHANGED <<pregs, unlocked, settled, msm>> /\ run'.failed = FALSE
<1>1. /\ run' = [Pm!NoRun EXCEPT !.call = c, !.prog = Pm!Program(c), !.before = pregs]
      /\ UNCHANGED <<pregs, unlocked, settled, msm>>
  BY DEF Pm!Start
<1>2. run' = [call |-> c, prog |-> Pm!Program(c), acc |-> {}, saved |-> Pm!Blank, vars |-> <<>>,
              result |-> 0, failed |-> FALSE, before |-> pregs]
  BY <1>1 DEF Pm!NoRun
<1>3. Pm!Blank = [r \in Pm!Registers |-> Pm!Blank[r]]
  BY DEF Pm!Blank
<1>4. /\ run'.call = c /\ run'.prog = Pm!Program(c) /\ run'.before = pregs /\ run'.failed = FALSE
      /\ run'.saved = Pm!Blank
      /\ run' = [call |-> run'.call, prog |-> run'.prog, acc |-> run'.acc, saved |-> run'.saved,
                 vars |-> run'.vars, result |-> run'.result, failed |-> run'.failed,
                 before |-> run'.before]
  BY <1>2
<1>5. RunShape'
  BY <1>1, <1>3, <1>4 DEF RunShape
<1> QED
  BY <1>1, <1>4, <1>5

\* A step keeps the shape of the run, and what was lost is lost.
LEMMA ShapeKept ==
  ASSUME RunShape, Pm!PmicStep, run.call.f # "none"
  PROVE  RunShape' /\ (run.failed => run'.failed)
<1>1. run # Pm!NoRun
  BY DEF Pm!NoRun
<1>2. ~(\E c \in Calls : Pm!Start(c))
  BY <1>1 DEF Pm!Start
<1>3. ASSUME /\ run' = [run EXCEPT !.prog = run'.prog, !.failed = run'.failed, !.acc = run'.acc,
                                   !.saved = run'.saved, !.vars = run'.vars, !.result = run'.result]
             /\ run'.failed \in BOOLEAN /\ (run.failed => run'.failed)
             /\ run'.saved = [r \in Pm!Registers |-> run'.saved[r]]
             /\ pregs' = [r \in Pm!Registers |-> pregs'[r]]
      PROVE  RunShape' /\ (run.failed => run'.failed)
  BY <1>3 DEF RunShape
<1>4. ASSUME NEW lost \in BOOLEAN, Pm!Command(lost) PROVE RunShape' /\ (run.failed => run'.failed)
  <2>1. PICK f \in BOOLEAN : f = (run.failed \/ lost) /\ (run.failed => f) /\ (f = FALSE => lost = FALSE)
    BY Loss
  <2>2. ASSUME NEW reg, NEW val, Pm!RegWrite(reg, val, lost),
               run' = [Pm!Losing(lost) EXCEPT !.prog = Tail(@)]
        PROVE  RunShape' /\ (run.failed => run'.failed)
    <3>1. run' = [[run EXCEPT !.failed = f] EXCEPT !.prog = Tail(@)]
      BY <2>1, <2>2 DEF Pm!Losing
    <3>2. pregs' = [r \in Pm!Registers |-> pregs'[r]]
      <4>1. pregs' = pregs \/ pregs' = Pm!Written(reg, val)
        BY <2>2 DEF Pm!RegWrite
      <4> QED
        BY <4>1, WrittenShape DEF RunShape
    <3> QED
      BY <1>3, <2>1, <3>1, <3>2 DEF RunShape
  <2>3. ASSUME NEW v, pregs' = pregs,
               run' = [[Pm!Losing(lost) EXCEPT !.acc = v] EXCEPT !.prog = Tail(@)]
        PROVE  RunShape' /\ (run.failed => run'.failed)
    <3>1. run' = [[[run EXCEPT !.failed = f] EXCEPT !.acc = v] EXCEPT !.prog = Tail(@)]
      BY <2>1, <2>3 DEF Pm!Losing
    <3> QED
      BY <1>3, <2>1, <2>3, <3>1 DEF RunShape
  <2>4. ASSUME NEW v, NEW r, pregs' = pregs,
               run' = [[Pm!Losing(lost) EXCEPT !.saved[r] = v] EXCEPT !.prog = Tail(@)]
        PROVE  RunShape' /\ (run.failed => run'.failed)
    <3>1. run' = [[[run EXCEPT !.failed = f] EXCEPT !.saved[r] = v] EXCEPT !.prog = Tail(@)]
      BY <2>1, <2>4 DEF Pm!Losing
    <3> QED
      BY <1>3, <2>1, <2>4, <3>1 DEF RunShape
  <2>5. ASSUME NEW v, pregs' = pregs,
               run' = [[Pm!Losing(lost) EXCEPT !.vars = Append(@, v)] EXCEPT !.prog = Tail(@)]
        PROVE  RunShape' /\ (run.failed => run'.failed)
    <3>1. run' = [[[run EXCEPT !.failed = f] EXCEPT !.vars = Append(@, v)] EXCEPT !.prog = Tail(@)]
      BY <2>1, <2>5 DEF Pm!Losing
    <3> QED
      BY <1>3, <2>1, <2>5, <3>1 DEF RunShape
  <2> QED
    BY <1>4, <2>2, <2>3, <2>4, <2>5 DEF Pm!Command, Pm!Next
<1>5. CASE Pm!Wait
  BY <1>3, <1>5 DEF Pm!Wait, Pm!Next, RunShape
<1>6. CASE Pm!Compute
  <2>1. pregs' = pregs /\ (run' = [run EXCEPT !.prog = <<>>] \/ Pm!Next(run)
                           \/ (\E v : Pm!Next([run EXCEPT !.acc = v]))
                           \/ (\E v : Pm!Next([run EXCEPT !.result = v])))
    BY <1>6 DEF Pm!Compute
  <2> QED
    BY <1>3, <2>1 DEF Pm!Next, RunShape
<1> QED
  BY <1>2, <1>4, <1>5, <1>6 DEF Pm!PmicStep

-----------------------------------------------------------------------------
(* Pmic: resets.                                                            *)

Ps == Pm!Pon("PS_HOLD_CTL")
Ps2 == Pm!Pon("PS_HOLD_CTL2")
Resin == Pm!Pon("RESIN_S2_CTL")

LEMMA ResetRegisters ==
  /\ Ps # Ps2 /\ Ps # Resin /\ Ps2 # Resin /\ {Ps, Ps2, Resin, <<2, "PS_HOLD_CTL">>} \subseteq Pm!Registers
  /\ Pm!ResetCtl = {Ps, Resin} /\ Ps2 \notin Pm!ResetCtl \cup Pm!Secured
  /\ <<2, "PS_HOLD_CTL">> \notin Pm!ResetCtl \cup Pm!Secured \cup {Ps2}
  /\ Ps \notin Pm!Secured /\ Resin \notin Pm!Secured
  /\ Ps[2] # "SEC_ACCESS" /\ Ps2[2] # "SEC_ACCESS" /\ Resin[2] # "SEC_ACCESS"
BY DEF Ps, Ps2, Resin, Pm!Pon, Pm!Registers, Pm!ResetCtl, Pm!Secured, Pm!Smbb

\* When a reset is switched off its delay starts again.
LEMMA Effect ==
  ASSUME NEW reg, NEW val, Pm!RegWrite(reg, val, FALSE), reg[2] # "SEC_ACCESS"
  PROVE  /\ pregs' = Pm!Written(reg, val)
         /\ settled' = settled \ {r \in Pm!ResetCtl : Pm!EnabledIn(pregs, r) /\ ~Pm!EnabledIn(pregs', r)}
         /\ unlocked' = (unlocked /\ reg \notin Pm!Secured)
<1>1. pregs' = Pm!Written(reg, val)
  BY DEF Pm!RegWrite
<1>2. settled' = settled \ {r \in Pm!ResetCtl : Pm!EnabledIn(pregs, r)
                                                  /\ ~Pm!EnabledIn(Pm!Written(reg, val), r)}
  BY DEF Pm!RegWrite
<1>3. unlocked' = (unlocked /\ reg \notin Pm!Secured)
  BY DEF Pm!RegWrite
<1> QED
  BY <1>1, <1>2, <1>3

\* A register is overwritten and no other.
Only(reg, val) == pregs'[reg] = val /\ \A r \in Pm!Registers \ {reg} : pregs'[r] = pregs[r]

LEMMA Overwritten ==
  ASSUME RunShape, NEW reg \in Pm!Registers, NEW val, pregs' = [pregs EXCEPT ![reg] = val]
  PROVE  Only(reg, val)
  BY DEF RunShape, Only

\* A register that is neither secured nor the control of a reset takes what is
\* written to it.
LEMMA PlainWrite ==
  ASSUME RunShape, NEW reg \in Pm!Registers \ (Pm!ResetCtl \cup Pm!Secured), reg[2] # "SEC_ACCESS",
         NEW val, Pm!RegWrite(reg, val, FALSE)
  PROVE  Only(reg, val)
<1>1. Pm!Written(reg, val) = [pregs EXCEPT ![reg] = val]
  BY DEF Pm!Written
<1> QED
  BY <1>1, Effect, Overwritten

\* The control of a reset that is off, and has been for the delay, takes what
\* is written to it.
LEMMA ResetWrite ==
  ASSUME RunShape, NEW reg \in Pm!ResetCtl, Pm!Off(reg), NEW val, Pm!RegWrite(reg, val, FALSE)
  PROVE  Only(reg, val)
<1>1. reg \in Pm!Registers /\ reg \notin Pm!Secured /\ reg[2] # "SEC_ACCESS"
  BY ResetRegisters
<1>2. ~(reg \in Pm!Secured /\ ~unlocked) /\ ~(reg \in Pm!ResetCtl /\ ~Pm!Off(reg))
  BY <1>1
<1> DEFINE now == [pregs EXCEPT ![reg] = val]
<1>3. Pm!Written(reg, val) = now
  BY <1>1, <1>2 DEF Pm!Written
<1> QED
  BY <1>1, <1>3, Effect, Overwritten

\* One that is on is only switched.
LEMMA ResetSwitch ==
  ASSUME RunShape, NEW reg \in Pm!ResetCtl, ~Pm!Off(reg), NEW val, Pm!RegWrite(reg, val, FALSE)
  PROVE  Only(reg, (pregs[reg] \ {"S2_RESET_EN"}) \cup (val \cap {"S2_RESET_EN"}))
<1> DEFINE bits == (pregs[reg] \ {"S2_RESET_EN"}) \cup (val \cap {"S2_RESET_EN"})
<1>1. reg \in Pm!Registers /\ reg \notin Pm!Secured /\ reg[2] # "SEC_ACCESS"
  BY ResetRegisters
<1>2. Pm!Written(reg, val) = [pregs EXCEPT ![reg] = bits]
  BY <1>1 DEF Pm!Written
<1> HIDE DEF bits
<1>3. Only(reg, bits)
  BY <1>1, <1>2, Effect, Overwritten
<1> QED
  BY <1>3 DEF bits

(* pm8x41_reset_configure and pm8994_reset_configure *)

ResetCalls == {"reset_configure", "pm8994_reset_configure"}
\* The second writes one more register, in another place.
ResetSteps(c) == IF c.f = "reset_configure" THEN Pm!pm8x41_reset_configure(c.type)
                                            ELSE Pm!pm8994_reset_configure(c.type)
ResetHere(c, k) ==
  LET last == Len(ResetSteps(c)) + 1 IN
  /\ "S2_RESET_EN" \notin run.before[Ps]
  /\ k = 1 => pregs[Ps2] = run.before[Ps2]
  /\ k > 1 /\ k < last => pregs[Ps2] = {}
  /\ k = last => pregs[Ps2] = {"S2_RESET_EN"}
  /\ IF k < 4 THEN pregs[Ps] = run.before[Ps] ELSE pregs[Ps] = {c.type}
  /\ k = 3 => settled = Pm!ResetCtl
ResetSound ==
  run.call.f \in ResetCalls /\ ~run.failed =>
    \E c \in Calls, k \in Nat : run.call = c /\ PmAt(ResetSteps(c), k) /\ ResetHere(c, k)

LEMMA ResetOrder ==
  ASSUME NEW c, c.f \in ResetCalls
  PROVE  LET s == ResetSteps(c)
             n == IF c.f = "reset_configure" THEN 4 ELSE 5
         IN  /\ \E S : s \in Seq(S)
             /\ Len(s) = n
             /\ s[1] = Pm!W(Ps2, {}) /\ s[2] = Pm!Delay /\ s[3] = Pm!W(Ps, {c.type})
             /\ n = 5 => s[4] = Pm!W(<<2, "PS_HOLD_CTL">>, {c.type})
             /\ s[n] = Pm!W(Ps2, {"S2_RESET_EN"})
<1> DEFINE a == Pm!W(Ps2, {})
           d == Pm!W(Ps, {c.type})
           e == Pm!W(<<2, "PS_HOLD_CTL">>, {c.type})
           f == Pm!W(Ps2, {"S2_RESET_EN"})
           S == {a, Pm!Delay, d, e, f}
<1> HIDE DEF a, d, e, f
<1>1. CASE c.f = "reset_configure"
  <2>1. ResetSteps(c) = <<a, Pm!Delay, d, f>>
    BY <1>1 DEF ResetSteps, Pm!pm8x41_reset_configure, a, d, f, Ps, Ps2
  <2>2. ResetSteps(c) \in Seq(S) /\ Len(ResetSteps(c)) = 4
    BY <2>1
  <2>3. /\ ResetSteps(c)[1] = a /\ ResetSteps(c)[2] = Pm!Delay /\ ResetSteps(c)[3] = d
        /\ ResetSteps(c)[4] = f
    BY <2>1
  <2> QED
    BY <1>1, <2>2, <2>3 DEF a, d, f
<1>2. CASE c.f # "reset_configure"
  <2>1. ResetSteps(c) = <<a, Pm!Delay, d, e, f>>
    BY <1>2 DEF ResetSteps, Pm!pm8994_reset_configure, a, d, e, f, Ps, Ps2
  <2>2. ResetSteps(c) \in Seq(S) /\ Len(ResetSteps(c)) = 5
    BY <2>1
  <2>3. /\ ResetSteps(c)[1] = a /\ ResetSteps(c)[2] = Pm!Delay /\ ResetSteps(c)[3] = d
        /\ ResetSteps(c)[4] = e /\ ResetSteps(c)[5] = f
    BY <2>1
  <2> QED
    BY <1>2, <2>2, <2>3 DEF a, d, e, f
<1> QED
  BY <1>1, <1>2

\* What a step of a call starts from: the place in its program.
LEMMA Placed ==
  ASSUME RunShape, Pm!PmicStep, run.call.f # "none", ~run'.failed,
         NEW S, NEW s \in Seq(S), NEW k, PmAt(s, k)
  PROVE  /\ Runs /\ ~run.failed /\ k \in 1 .. Len(s) /\ Head(run.prog) = s[k]
         /\ Goes => PmAt(s, k + 1)'
<1>1. Runs
  BY DEF Runs
<1>2. run.prog # <<>>
  BY <1>1, NoSecondCall
<1> QED
  BY <1>1, <1>2, RestOfProgram, ShapeKept DEF Goes

LEMMA ResetStep ==
  ASSUME RunShape, ResetSound, Pm!PmicStep, run.call.f \in ResetCalls
  PROVE  ResetSound'
<1> SUFFICES ASSUME ~run'.failed PROVE ResetSound'
  BY DEF ResetSound
<1>1. run.call.f # "none"
  BY DEF ResetCalls
<1>2. PICK c \in Calls, k \in Nat : run.call = c /\ PmAt(ResetSteps(c), k) /\ ResetHere(c, k)
  BY <1>1, ShapeKept DEF ResetSound
<1> DEFINE s == ResetSteps(c)
           n == IF c.f = "reset_configure" THEN 4 ELSE 5
<1>3. c.f \in ResetCalls
  BY <1>2
<1>4. /\ (\E S : s \in Seq(S)) /\ Len(s) = n
      /\ s[1] = Pm!W(Ps2, {}) /\ s[2] = Pm!Delay /\ s[3] = Pm!W(Ps, {c.type})
      /\ n = 5 => s[4] = Pm!W(<<2, "PS_HOLD_CTL">>, {c.type})
      /\ s[n] = Pm!W(Ps2, {"S2_RESET_EN"})
  BY <1>3, ResetOrder
<1> HIDE DEF s
<1>5. /\ Runs /\ k \in 1 .. n /\ Head(run.prog) = s[k]
      /\ Goes => PmAt(s, k + 1)'
  BY <1>1, <1>2, <1>4, Placed DEF s
<1>6. n \in {4, 5}
  OBVIOUS
<1> HIDE DEF n
<1>7. SUFFICES Goes /\ ResetHere(c, k + 1)'
  BY <1>2, <1>5 DEF ResetSound, Goes, s
<1>8. CASE k = 1
  <2>1. Goes /\ Only(Ps2, {})
    BY <1>4, <1>5, <1>8, Writes, PlainWrite, ResetRegisters
  <2> QED
    BY <1>2, <1>4, <1>6, <1>8, <2>1, ResetRegisters DEF ResetHere, Goes, Only, s
<1>9. CASE k = 2
  <2>1. Goes /\ pregs' = pregs /\ settled' = Pm!ResetCtl
    BY <1>4, <1>5, <1>9, Delays
  <2> QED
    BY <1>2, <1>4, <1>6, <1>9, <2>1 DEF ResetHere, Goes, s
<1>10. CASE k = 3
  <2>1. Pm!Off(Ps)
    BY <1>2, <1>4, <1>6, <1>10, ResetRegisters DEF ResetHere, Pm!Off, Pm!EnabledIn, s, Ps, Ps2
  <2>2. Goes /\ Only(Ps, {c.type})
    BY <1>4, <1>5, <1>10, <2>1, Writes, ResetWrite, ResetRegisters
  <2> QED
    BY <1>2, <1>4, <1>6, <1>10, <2>2, ResetRegisters DEF ResetHere, Goes, Only, s
<1>11. CASE k = n
  <2>1. Goes /\ Only(Ps2, {"S2_RESET_EN"})
    BY <1>4, <1>5, <1>11, Writes, PlainWrite, ResetRegisters
  <2> QED
    BY <1>2, <1>4, <1>6, <1>11, <2>1, ResetRegisters DEF ResetHere, Goes, Only, s
<1>12. CASE k = 4 /\ n = 5
  <2>1. Goes /\ Only(<<2, "PS_HOLD_CTL">>, {c.type})
    BY <1>4, <1>5, <1>12, Writes, PlainWrite, ResetRegisters
  <2> QED
    BY <1>2, <1>4, <1>6, <1>12, <2>1, ResetRegisters DEF ResetHere, Goes, Only, s
<1> QED
  BY <1>5, <1>6, <1>8, <1>9, <1>10, <1>11, <1>12

LEMMA ResetStarts ==
  ASSUME Resting, RunShape, NEW c \in Calls, Pm!Start(c)
  PROVE  ResetSound'
<1>1. /\ run'.call = c /\ run'.prog = Pm!Program(c) /\ run'.before = pregs
      /\ pregs' = pregs
  BY CallStarts
<1> SUFFICES ASSUME c.f \in ResetCalls PROVE ResetSound'
  BY <1>1 DEF ResetSound
<1>2. Pm!Program(c) = ResetSteps(c)
  BY DEF ResetCalls, ResetSteps, Pm!Program
<1>3. PICK S : ResetSteps(c) \in Seq(S)
  BY ResetOrder
<1>4. PmAt(ResetSteps(c), 1)'
  BY <1>1, <1>2, <1>3, ProgramStarts
<1>5. "S2_RESET_EN" \notin pregs[Ps]
  BY DEF Pm!Start, Pm!Suits, ResetCalls, Ps
<1>6. Len(ResetSteps(c)) \in {4, 5}
  BY ResetOrder
<1>7. ResetHere(c, 1)'
  BY <1>1, <1>5, <1>6 DEF ResetHere
<1> QED
  BY <1>1, <1>4, <1>7 DEF ResetSound

-----------------------------------------------------------------------------
(* Pmic: pm8x41_gpio_config and pm8x41_gpio_config_sid.                     *)

ConfigCalls == {"gpio_config", "gpio_config_sid"}
PinOf(c) == IF c.f = "gpio_config" THEN 0 ELSE c.sid
Pin(c, name) == <<PinOf(c), name>>
PinSteps(c) == Pm!pm8x41_gpio_config_sid(PinOf(c), c)
\* An output has its level written as well.
PinLength(c) == IF c.direction = "OUT" THEN 10 ELSE 9

PinHere(c, k) ==
  LET last == PinLength(c) IN
  /\ \A r \in Pm!Registers :
       r \notin {Pin(c, name) : name \in {"GPIO_EN", "GPIO_MODE", "GPIO_PULL", "GPIO_VIN",
                                          "GPIO_DIG_OUT"}} => pregs[r] = run.before[r]
  /\ pregs[Pin(c, "GPIO_MODE")] = IF k < 5 THEN run.before[Pin(c, "GPIO_MODE")]
                                           ELSE {c.function, c.direction}
  /\ pregs[Pin(c, "GPIO_PULL")] = IF k < 6 THEN run.before[Pin(c, "GPIO_PULL")] ELSE {c.pull}
  /\ pregs[Pin(c, "GPIO_VIN")] = IF k < 7 THEN run.before[Pin(c, "GPIO_VIN")] ELSE {c.vin_sel}
  /\ c.direction = "OUT" /\ k > 7 => pregs[Pin(c, "GPIO_DIG_OUT")] = {c.out}
  /\ k = 3 => "EN" \notin run.acc
  /\ k > 3 /\ k <= last => "EN" \notin pregs[Pin(c, "GPIO_EN")]
  /\ k = last => "EN" \in run.acc
  /\ k = last + 1 => "EN" \in pregs[Pin(c, "GPIO_EN")]
PinSound ==
  run.call.f \in ConfigCalls /\ ~run.failed =>
    \E c \in Calls, k \in Nat : run.call = c /\ PmAt(PinSteps(c), k) /\ PinHere(c, k)

LEMMA PinRegisters ==
  ASSUME NEW c \in Calls, c.f \in ConfigCalls
  PROVE  /\ PinOf(c) \in 0 .. 2
         /\ \A name \in {"GPIO_EN", "GPIO_MODE", "GPIO_PULL", "GPIO_VIN", "GPIO_DIG_OUT"} :
              /\ Pin(c, name) \in Pm!Registers \ (Pm!ResetCtl \cup Pm!Secured)
              /\ Pin(c, name)[2] # "SEC_ACCESS"
         /\ \A a, b \in {"GPIO_EN", "GPIO_MODE", "GPIO_PULL", "GPIO_VIN", "GPIO_DIG_OUT"} :
              Pin(c, a) = Pin(c, b) => a = b
<1>1. PinOf(c) \in {0, 1, 2}
  BY PlatformAssumption DEF PinOf, ConfigCalls, Pm!CallsAssumption
<1> QED
  BY <1>1 DEF Pin, Pm!Registers, Pm!ResetCtl, Pm!Secured, Pm!Pon, Pm!Smbb

\* What a program of three or four parts is made of.
LEMMA PartsInOrder ==
  ASSUME NEW S, NEW a \in S, NEW b \in S, NEW d \in S, NEW e \in S, NEW f \in S, NEW g \in S,
         NEW h \in S, NEW i \in S
  PROVE  /\ LET s == <<a, b, d>> \o <<e, f, g>> \o <<>> \o <<a, i, d>> IN
              /\ s \in Seq(S) /\ Len(s) = 9
              /\ s[1] = a /\ s[2] = b /\ s[3] = d /\ s[4] = e /\ s[5] = f /\ s[6] = g
              /\ s[7] = a /\ s[8] = i /\ s[9] = d
         /\ LET s == <<a, b, d>> \o <<e, f, g>> \o <<h>> \o <<a, i, d>> IN
              /\ s \in Seq(S) /\ Len(s) = 10
              /\ s[1] = a /\ s[2] = b /\ s[3] = d /\ s[4] = e /\ s[5] = f /\ s[6] = g
              /\ s[7] = h /\ s[8] = a /\ s[9] = i /\ s[10] = d
<1>1. /\ <<a, b, d>> \in Seq(S) /\ <<e, f, g>> \in Seq(S) /\ <<h>> \in Seq(S) /\ <<a, i, d>> \in Seq(S)
      /\ Len(<<a, b, d>>) = 3 /\ Len(<<e, f, g>>) = 3 /\ Len(<<h>>) = 1 /\ Len(<<a, i, d>>) = 3
  OBVIOUS
<1>2. <<a, b, d>> \o <<e, f, g>> \in Seq(S)
  BY <1>1
<1>3. PICK t \in Seq(S) : t = <<a, b, d>> \o <<e, f, g>>
  BY <1>2
<1>4. /\ Len(t) = 6 /\ t[1] = a /\ t[2] = b /\ t[3] = d /\ t[4] = e /\ t[5] = f /\ t[6] = g
  BY <1>1, <1>3
<1>5. t \o <<>> = t
  OBVIOUS
<1>6. LET s == t \o <<a, i, d>> IN
        /\ s \in Seq(S) /\ Len(s) = 9
        /\ s[1] = a /\ s[2] = b /\ s[3] = d /\ s[4] = e /\ s[5] = f /\ s[6] = g
        /\ s[7] = a /\ s[8] = i /\ s[9] = d
  BY <1>1, <1>3, <1>4
<1>7. PICK u \in Seq(S) : u = t \o <<h>>
  <2>1. t \o <<h>> \in Seq(S)
    BY <1>1, <1>3
  <2> QED
    BY <2>1
<1>8. Len(u) = 7 /\ u[7] = h /\ \A n \in 1 .. 6 : u[n] = t[n]
  BY <1>1, <1>3, <1>4, <1>7
<1>9. LET s == u \o <<a, i, d>> IN
        /\ s \in Seq(S) /\ Len(s) = 10
        /\ s[1] = a /\ s[2] = b /\ s[3] = d /\ s[4] = e /\ s[5] = f /\ s[6] = g
        /\ s[7] = h /\ s[8] = a /\ s[9] = i /\ s[10] = d
  BY <1>1, <1>4, <1>7, <1>8
<1> QED
  BY <1>3, <1>5, <1>6, <1>7, <1>9

LEMMA PinOrder ==
  ASSUME NEW c
  PROVE  LET s == PinSteps(c)
             n == PinLength(c)
         IN  /\ \E S : s \in Seq(S)
             /\ Len(s) = n
             /\ s[1] = Pm!R(Pin(c, "GPIO_EN")) /\ s[2] = Pm!AndNot({"EN"})
             /\ s[3] = Pm!Put(Pin(c, "GPIO_EN"))
             /\ s[4] = Pm!W(Pin(c, "GPIO_MODE"), {c.function, c.direction})
             /\ s[5] = Pm!W(Pin(c, "GPIO_PULL"), {c.pull})
             /\ s[6] = Pm!W(Pin(c, "GPIO_VIN"), {c.vin_sel})
             /\ n = 10 => s[7] = Pm!W(Pin(c, "GPIO_DIG_OUT"), {c.out})
             /\ s[n - 2] = Pm!R(Pin(c, "GPIO_EN")) /\ s[n - 1] = Pm!Or({"EN"})
             /\ s[n] = Pm!Put(Pin(c, "GPIO_EN"))
<1> DEFINE a == Pm!R(Pin(c, "GPIO_EN"))
           b == Pm!AndNot({"EN"})
           d == Pm!Put(Pin(c, "GPIO_EN"))
           e == Pm!W(Pin(c, "GPIO_MODE"), {c.function, c.direction})
           f == Pm!W(Pin(c, "GPIO_PULL"), {c.pull})
           g == Pm!W(Pin(c, "GPIO_VIN"), {c.vin_sel})
           h == Pm!W(Pin(c, "GPIO_DIG_OUT"), {c.out})
           i == Pm!Or({"EN"})
           S == {a, b, d, e, f, g, h, i}
<1>1. PinSteps(c) = <<a, b, d>> \o <<e, f, g>> \o (IF c.direction = "OUT" THEN <<h>> ELSE <<>>)
                      \o <<a, i, d>>
  BY DEF PinSteps, Pm!pm8x41_gpio_config_sid, Pm!ClearBits, Pm!SetBits, Pin
<1> HIDE DEF a, b, d, e, f, g, h, i
<1>2. /\ a \in S /\ b \in S /\ d \in S /\ e \in S /\ f \in S /\ g \in S /\ h \in S /\ i \in S
  OBVIOUS
<1> HIDE DEF S
<1>3. CASE c.direction = "OUT"
  <2>1. PinSteps(c) = <<a, b, d>> \o <<e, f, g>> \o <<h>> \o <<a, i, d>>
    BY <1>1, <1>3
  <2>2. LET s == PinSteps(c) IN
          /\ s \in Seq(S) /\ Len(s) = 10
          /\ s[1] = a /\ s[2] = b /\ s[3] = d /\ s[4] = e /\ s[5] = f /\ s[6] = g
          /\ s[7] = h /\ s[8] = a /\ s[9] = i /\ s[10] = d
    BY <1>2, <2>1, PartsInOrder
  <2> QED
    BY <1>3, <2>2 DEF PinLength, a, b, d, e, f, g, h, i
<1>4. CASE c.direction # "OUT"
  <2>1. PinSteps(c) = <<a, b, d>> \o <<e, f, g>> \o <<>> \o <<a, i, d>>
    BY <1>1, <1>4
  <2>2. LET s == PinSteps(c) IN
          /\ s \in Seq(S) /\ Len(s) = 9
          /\ s[1] = a /\ s[2] = b /\ s[3] = d /\ s[4] = e /\ s[5] = f /\ s[6] = g
          /\ s[7] = a /\ s[8] = i /\ s[9] = d
    BY <1>2, <2>1, PartsInOrder
  <2> QED
    BY <1>4, <2>2 DEF PinLength, a, b, d, e, f, g, h, i
<1> QED
  BY <1>3, <1>4

LEMMA PinStarts ==
  ASSUME Resting, RunShape, NEW c \in Calls, Pm!Start(c)
  PROVE  PinSound'
<1>1. /\ run'.call = c /\ run'.prog = Pm!Program(c) /\ run'.before = pregs
      /\ pregs' = pregs
  BY CallStarts
<1> SUFFICES ASSUME c.f \in ConfigCalls PROVE PinSound'
  BY <1>1 DEF PinSound
<1>2. Pm!Program(c) = PinSteps(c)
  BY DEF ConfigCalls, PinSteps, PinOf, Pm!Program, Pm!pm8x41_gpio_config
<1>3. PICK S : PinSteps(c) \in Seq(S)
  BY PinOrder
<1>4. PmAt(PinSteps(c), 1)'
  BY <1>1, <1>2, <1>3, ProgramStarts
<1>5. PinLength(c) \in {9, 10}
  BY DEF PinLength
<1>6. PinHere(c, 1)'
  BY <1>1, <1>5 DEF PinHere
<1> QED
  BY <1>1, <1>4, <1>6 DEF PinSound

LEMMA PinStep ==
  ASSUME RunShape, PinSound, Pm!PmicStep, run.call.f \in ConfigCalls
  PROVE  PinSound'
<1> SUFFICES ASSUME ~run'.failed PROVE PinSound'
  BY DEF PinSound
<1>1. run.call.f # "none"
  BY DEF ConfigCalls
<1>2. PICK c \in Calls, k \in Nat : run.call = c /\ PmAt(PinSteps(c), k) /\ PinHere(c, k)
  BY <1>1, ShapeKept DEF PinSound
<1> DEFINE s == PinSteps(c)
           n == PinLength(c)
           En == Pin(c, "GPIO_EN")
           Mode == Pin(c, "GPIO_MODE")
           Pull == Pin(c, "GPIO_PULL")
           Vin == Pin(c, "GPIO_VIN")
           Level == Pin(c, "GPIO_DIG_OUT")
           mine == {En, Mode, Pull, Vin, Level}
<1>3. c.f \in ConfigCalls
  BY <1>2
<1>4. /\ (\E S : s \in Seq(S)) /\ Len(s) = n
      /\ s[1] = Pm!R(En) /\ s[2] = Pm!AndNot({"EN"}) /\ s[3] = Pm!Put(En)
      /\ s[4] = Pm!W(Mode, {c.function, c.direction}) /\ s[5] = Pm!W(Pull, {c.pull})
      /\ s[6] = Pm!W(Vin, {c.vin_sel}) /\ (n = 10 => s[7] = Pm!W(Level, {c.out}))
      /\ s[n - 2] = Pm!R(En) /\ s[n - 1] = Pm!Or({"EN"}) /\ s[n] = Pm!Put(En)
  BY PinOrder
<1>5. mine = {Pin(c, name) : name \in {"GPIO_EN", "GPIO_MODE", "GPIO_PULL", "GPIO_VIN",
                                       "GPIO_DIG_OUT"}}
  OBVIOUS
<1>6. /\ \A r \in mine : r \in Pm!Registers \ (Pm!ResetCtl \cup Pm!Secured) /\ r[2] # "SEC_ACCESS"
      /\ En # Mode /\ En # Pull /\ En # Vin /\ En # Level /\ Mode # Pull /\ Mode # Vin
      /\ Mode # Level /\ Pull # Vin /\ Pull # Level /\ Vin # Level
  BY <1>3, PinRegisters
<1>7. n \in {9, 10} /\ (n = 10 <=> c.direction = "OUT")
  BY DEF PinLength
<1>8. /\ \A r \in Pm!Registers \ mine : pregs[r] = run.before[r]
      /\ pregs[Mode] = (IF k < 5 THEN run.before[Mode] ELSE {c.function, c.direction})
      /\ pregs[Pull] = (IF k < 6 THEN run.before[Pull] ELSE {c.pull})
      /\ pregs[Vin] = (IF k < 7 THEN run.before[Vin] ELSE {c.vin_sel})
      /\ c.direction = "OUT" /\ k > 7 => pregs[Level] = {c.out}
      /\ k = 3 => "EN" \notin run.acc
      /\ k > 3 /\ k <= n => "EN" \notin pregs[En]
      /\ k = n => "EN" \in run.acc
  BY <1>2, <1>5 DEF PinHere
<1> HIDE DEF s
<1>9. /\ Runs /\ k \in 1 .. n /\ Head(run.prog) = s[k]
      /\ Goes => PmAt(s, k + 1)'
  BY <1>1, <1>2, <1>4, Placed DEF s
<1>10. SUFFICES Goes /\ PinHere(c, k + 1)'
  BY <1>2, <1>9 DEF PinSound, Goes, s
<1> DEFINE Next(m) ==
             /\ \A r \in Pm!Registers \ mine : pregs'[r] = run.before[r]
             /\ pregs'[Mode] = (IF m < 5 THEN run.before[Mode] ELSE {c.function, c.direction})
             /\ pregs'[Pull] = (IF m < 6 THEN run.before[Pull] ELSE {c.pull})
             /\ pregs'[Vin] = (IF m < 7 THEN run.before[Vin] ELSE {c.vin_sel})
             /\ c.direction = "OUT" /\ m > 7 => pregs'[Level] = {c.out}
             /\ m = 3 => "EN" \notin run'.acc
             /\ m > 3 /\ m <= n => "EN" \notin pregs'[En]
             /\ m = n => "EN" \in run'.acc
             /\ m = n + 1 => "EN" \in pregs'[En]
<1>11. SUFFICES Goes /\ Next(k + 1)
  BY <1>5 DEF PinHere, Goes
<1> HIDE DEF n, En, Mode, Pull, Vin, Level
<1>12. CASE k \in {1, n - 2}
  <2>1. Goes /\ pregs' = pregs /\ run'.acc = pregs[En]
    BY <1>4, <1>9, <1>12, Reads DEF Quiet
  <2> QED
    BY <1>7, <1>8, <1>12, <2>1
<1>13. CASE k = 2
  <2>1. Goes /\ pregs' = pregs /\ run'.acc = run.acc \ {"EN"}
    BY <1>4, <1>9, <1>13, AndNots DEF Quiet
  <2> QED
    BY <1>7, <1>8, <1>13, <2>1
<1>14. CASE k = n - 1
  <2>1. Goes /\ pregs' = pregs /\ run'.acc = run.acc \cup {"EN"}
    BY <1>4, <1>9, <1>14, Ors DEF Quiet
  <2> QED
    BY <1>7, <1>8, <1>14, <2>1
<1>15. CASE k \in {3, n}
  <2>1. Goes /\ Only(En, run.acc)
    BY <1>4, <1>6, <1>9, <1>15, Puts, PlainWrite
  <2> QED
    BY <1>6, <1>7, <1>8, <1>15, <2>1 DEF Only
<1>16. CASE k = 4
  <2>1. Goes /\ Only(Mode, {c.function, c.direction})
    BY <1>4, <1>6, <1>9, <1>16, Writes, PlainWrite DEF Goes, Runs
  <2> QED
    BY <1>6, <1>7, <1>8, <1>16, <2>1 DEF Only
<1>17. CASE k = 5
  <2>1. Goes /\ Only(Pull, {c.pull})
    BY <1>4, <1>6, <1>9, <1>17, Writes, PlainWrite
  <2> QED
    BY <1>6, <1>7, <1>8, <1>17, <2>1 DEF Only
<1>18. CASE k = 6
  <2>1. Goes /\ Only(Vin, {c.vin_sel})
    BY <1>4, <1>6, <1>9, <1>18, Writes, PlainWrite
  <2> QED
    BY <1>6, <1>7, <1>8, <1>18, <2>1 DEF Only
<1>19. CASE k = 7 /\ n = 10
  <2>1. Goes /\ Only(Level, {c.out})
    BY <1>4, <1>6, <1>9, <1>19, Writes, PlainWrite
  <2> QED
    BY <1>6, <1>7, <1>8, <1>19, <2>1 DEF Only
<1>20. k \in {1, 2, 3, 4, 5, 6, 7, n - 2, n - 1, n} /\ (k = 7 => n \in {9, 10})
  BY <1>7, <1>9
<1> QED
  BY <1>7, <1>20, <1>12, <1>13, <1>14, <1>15, <1>16, <1>17, <1>18, <1>19

-----------------------------------------------------------------------------
(* Pmic: shutdown_device and reboot_device.                                 *)

HoldCalls == {"ResetShutdown", "ResetCold", "ResetWarm", "ResetPlatformSpecific"}
HoldType(c) == IF c.f = "ResetShutdown" THEN "SHUTDOWN" ELSE "HARD_RESET"
HoldSteps(c) == Pm!pm8x41_v2_reset_configure(HoldType(c)) \o <<Pm!PS_HOLD>>

\* The type is written while the reset is off and settled, and is in force when
\* PS_HOLD drops.
HoldHere(c, k) ==
  /\ "S2_RESET_EN" \notin pregs[Ps2]
  /\ k \in 2 .. 6 => "S2_RESET_EN" \notin pregs[Ps]
  /\ k \in 3 .. 6 => Ps \in settled
  /\ k \in 4 .. 6 => pregs[Ps] = {HoldType(c)}
  /\ k = 5 => run.acc = {HoldType(c)}
  /\ k = 6 => run.acc = {HoldType(c), "S2_RESET_EN"}
  /\ k = 7 => pregs[Ps] = {HoldType(c), "S2_RESET_EN"}
  /\ k = 8 => msm = {HoldType(c)}
HoldSound ==
  run.call.f \in HoldCalls /\ ~run.failed =>
    \E c \in Calls, k \in Nat : run.call = c /\ PmAt(HoldSteps(c), k) /\ HoldHere(c, k)

LEMMA HoldOrder ==
  ASSUME NEW c
  PROVE  LET s == HoldSteps(c) IN
         /\ \E S : s \in Seq(S)
         /\ Len(s) = 7
         /\ s[1] = Pm!W(Ps, {}) /\ s[2] = Pm!Delay /\ s[3] = Pm!W(Ps, {HoldType(c)})
         /\ s[4] = Pm!R(Ps) /\ s[5] = Pm!Or({"S2_RESET_EN"}) /\ s[6] = Pm!Put(Ps)
         /\ s[7] = Pm!PS_HOLD
<1>1. ASSUME NEW S, NEW a \in S, NEW b \in S, NEW d \in S, NEW e \in S, NEW f \in S, NEW g \in S,
             NEW h \in S
      PROVE  LET s == <<a, b, d>> \o <<e, f, g>> \o <<h>> IN
             /\ s \in Seq(S) /\ Len(s) = 7 /\ s[1] = a /\ s[2] = b /\ s[3] = d /\ s[4] = e
             /\ s[5] = f /\ s[6] = g /\ s[7] = h
  <2>1. /\ <<a, b, d>> \in Seq(S) /\ <<e, f, g>> \in Seq(S) /\ <<h>> \in Seq(S)
        /\ Len(<<a, b, d>>) = 3 /\ Len(<<e, f, g>>) = 3 /\ Len(<<h>>) = 1
    OBVIOUS
  <2>2. <<a, b, d>> \o <<e, f, g>> \in Seq(S)
    BY <2>1
  <2>3. PICK t \in Seq(S) : t = <<a, b, d>> \o <<e, f, g>>
    BY <2>2
  <2>4. Len(t) = 6 /\ t[1] = a /\ t[2] = b /\ t[3] = d /\ t[4] = e /\ t[5] = f /\ t[6] = g
    BY <2>1, <2>3
  <2> QED
    BY <2>1, <2>3, <2>4
<1> DEFINE a == Pm!W(Ps, {})
           d == Pm!W(Ps, {HoldType(c)})
           e == Pm!R(Ps)
           f == Pm!Or({"S2_RESET_EN"})
           g == Pm!Put(Ps)
           S == {a, Pm!Delay, d, e, f, g, Pm!PS_HOLD}
<1>2. HoldSteps(c) = <<a, Pm!Delay, d>> \o <<e, f, g>> \o <<Pm!PS_HOLD>>
  BY DEF HoldSteps, Pm!pm8x41_v2_reset_configure, Pm!SetBits, Ps
<1>3. a \in S /\ Pm!Delay \in S /\ d \in S /\ e \in S /\ f \in S /\ g \in S /\ Pm!PS_HOLD \in S
  OBVIOUS
<1> HIDE DEF S, a, d, e, f, g
<1>4. LET s == HoldSteps(c) IN
      /\ s \in Seq(S) /\ Len(s) = 7 /\ s[1] = a /\ s[2] = Pm!Delay /\ s[3] = d /\ s[4] = e
      /\ s[5] = f /\ s[6] = g /\ s[7] = Pm!PS_HOLD
  BY <1>1, <1>2, <1>3
<1> QED
  BY <1>4 DEF a, d, e, f, g

LEMMA HoldStarts ==
  ASSUME Resting, RunShape, NEW c \in Calls, Pm!Start(c)
  PROVE  HoldSound'
<1>1. /\ run'.call = c /\ run'.prog = Pm!Program(c) /\ run'.before = pregs
      /\ pregs' = pregs
  BY CallStarts
<1> SUFFICES ASSUME c.f \in HoldCalls PROVE HoldSound'
  BY <1>1 DEF HoldSound
<1>2. Pm!Program(c) = HoldSteps(c)
  BY DEF HoldCalls, HoldSteps, HoldType, Pm!Program, Pm!shutdown_device, Pm!ResetCold, Pm!ResetWarm,
         Pm!ResetPlatformSpecific, Pm!reboot_device
<1>3. PICK S : HoldSteps(c) \in Seq(S)
  BY HoldOrder
<1>4. PmAt(HoldSteps(c), 1)'
  BY <1>1, <1>2, <1>3, ProgramStarts
<1>5. "S2_RESET_EN" \notin pregs[Ps2]
  BY DEF Pm!Start, Pm!Suits, HoldCalls, Ps2
<1>6. HoldHere(c, 1)'
  BY <1>1, <1>5 DEF HoldHere
<1> QED
  BY <1>1, <1>4, <1>6 DEF HoldSound

LEMMA HoldStep ==
  ASSUME RunShape, HoldSound, Pm!PmicStep, run.call.f \in HoldCalls
  PROVE  HoldSound'
<1> SUFFICES ASSUME ~run'.failed PROVE HoldSound'
  BY DEF HoldSound
<1>1. run.call.f # "none"
  BY DEF HoldCalls
<1>2. PICK c \in Calls, k \in Nat : run.call = c /\ PmAt(HoldSteps(c), k) /\ HoldHere(c, k)
  BY <1>1, ShapeKept DEF HoldSound
<1> DEFINE s == HoldSteps(c)
<1>3. /\ (\E S : s \in Seq(S)) /\ Len(s) = 7
      /\ s[1] = Pm!W(Ps, {}) /\ s[2] = Pm!Delay /\ s[3] = Pm!W(Ps, {HoldType(c)})
      /\ s[4] = Pm!R(Ps) /\ s[5] = Pm!Or({"S2_RESET_EN"}) /\ s[6] = Pm!Put(Ps)
      /\ s[7] = Pm!PS_HOLD
  BY HoldOrder
<1>4. HoldType(c) # "S2_RESET_EN"
  BY DEF HoldType
<1> HIDE DEF s
<1>5. /\ Runs /\ k \in 1 .. 7 /\ Head(run.prog) = s[k]
      /\ Goes => PmAt(s, k + 1)'
  BY <1>1, <1>2, <1>3, Placed DEF s
<1>6. SUFFICES Goes /\ HoldHere(c, k + 1)'
  BY <1>2, <1>5 DEF HoldSound, Goes, s
<1>7. Pm!EnabledIn(pregs, Ps) <=> "S2_RESET_EN" \in pregs[Ps]
  BY <1>2 DEF HoldHere, Pm!EnabledIn, Ps2
<1>8. CASE k = 1
  <2>1. Goes /\ Pm!RegWrite(Ps, {}, FALSE)
    BY <1>3, <1>5, <1>8, Writes
  <2>2. Only(Ps, {}) \/ Only(Ps, pregs[Ps] \ {"S2_RESET_EN"})
    <3>1. (pregs[Ps] \ {"S2_RESET_EN"}) \cup ({} \cap {"S2_RESET_EN"}) = pregs[Ps] \ {"S2_RESET_EN"}
      OBVIOUS
    <3> QED
      BY <2>1, <3>1, ResetRegisters, ResetWrite, ResetSwitch DEF Goes, Runs
  <2> QED
    BY <1>2, <1>8, <2>1, <2>2, ResetRegisters DEF HoldHere, Only
<1>9. CASE k = 2
  <2>1. Goes /\ pregs' = pregs /\ settled' = Pm!ResetCtl
    BY <1>3, <1>5, <1>9, Delays
  <2> QED
    BY <1>2, <1>9, <2>1, ResetRegisters DEF HoldHere
<1>10. CASE k \in {3, 6}
  <2>1. Pm!Off(Ps)
    BY <1>2, <1>7, <1>10 DEF HoldHere, Pm!Off
  <2>2. PICK v : v = IF k = 3 THEN {HoldType(c)} ELSE run.acc
    OBVIOUS
  <2>3. Goes /\ Pm!RegWrite(Ps, v, FALSE)
    BY <1>3, <1>5, <1>10, <2>2, Writes, Puts
  <2>4. Only(Ps, v) /\ Ps \in settled'
    BY <2>1, <2>3, Effect, ResetWrite, ResetRegisters DEF Runs, Pm!Off, Goes
  <2> QED
    BY <1>2, <1>4, <1>10, <2>2, <2>3, <2>4, ResetRegisters DEF HoldHere, Only
<1>11. CASE k = 4
  <2>1. Goes /\ Quiet /\ run'.acc = pregs[Ps]
    BY <1>3, <1>5, <1>11, Reads
  <2> QED
    BY <1>2, <1>11, <2>1 DEF HoldHere, Quiet
<1>12. CASE k = 5
  <2>1. Goes /\ Quiet /\ run'.acc = run.acc \cup {"S2_RESET_EN"}
    BY <1>3, <1>5, <1>12, Ors
  <2> QED
    BY <1>2, <1>12, <2>1 DEF HoldHere, Quiet
<1>13. CASE k = 7
  <2>1. /\ Goes /\ pregs' = pregs
        /\ msm' = IF Pm!EnabledIn(pregs, Ps) THEN pregs[Ps] \ {"S2_RESET_EN"} ELSE msm
    BY <1>3, <1>5, <1>13, Drops DEF Ps
  <2> QED
    BY <1>2, <1>4, <1>7, <1>13, <2>1 DEF HoldHere
<1> QED
  BY <1>5, <1>8, <1>9, <1>10, <1>11, <1>12, <1>13

-----------------------------------------------------------------------------
(* Pmic: pm8x41_resin_s2_reset_enable and pm8x41_v2_resin_status.           *)

ResinCalls == {"resin_s2_reset_enable", "v2_resin_status"}
ResinSteps(c) == IF c.f = "v2_resin_status" THEN Pm!pm8x41_v2_resin_status
                                            ELSE Pm!pm8x41_resin_s2_reset_enable
ResinLength(c) == IF c.f = "v2_resin_status" THEN 13 ELSE 8
RtSts == Pm!Pon("INT_RT_STS")

\* The type is written while the reset of the key is off and settled; to read
\* the status the reset is switched on and off again.
ResinHere(c, k) ==
  /\ k \in 2 .. 8 => "S2_RESET_EN" \notin pregs[Resin]
  /\ k \in 3 .. 8 => Resin \in settled
  /\ k \in 6 .. 8 => pregs[Resin] = {"TYPE_WARM"}
  /\ k = 7 => run.acc = {"TYPE_WARM"}
  /\ k = 8 => run.acc = {"TYPE_WARM", "S2_RESET_EN"}
  /\ k \in 9 .. 12 => pregs[Resin] = {"TYPE_WARM", "S2_RESET_EN"}
  /\ k = 11 => run.acc = pregs[RtSts]
  /\ k >= 12 => run.result = Pm!Flag("RESIN_BARK" \in pregs[RtSts])
  /\ k >= 13 => "S2_RESET_EN" \notin pregs[Resin]
ResinSound ==
  run.call.f \in ResinCalls /\ ~run.failed =>
    \E c \in Calls, k \in Nat : run.call = c /\ PmAt(ResinSteps(c), k) /\ ResinHere(c, k)

ResinOrdered(s) ==
  /\ s[1] = Pm!W(Resin, {}) /\ s[2] = Pm!Delay /\ s[3] = Pm!W(Pm!Pon("RESIN_S1_TIMER"), Pm!Num(0))
  /\ s[4] = Pm!W(Pm!Pon("RESIN_S2_TIMER"), Pm!Num(7)) /\ s[5] = Pm!W(Resin, {"TYPE_WARM"})
  /\ s[6] = Pm!R(Resin) /\ s[7] = Pm!Or({"S2_RESET_EN"}) /\ s[8] = Pm!Put(Resin)

LEMMA ResinOrder ==
  ASSUME NEW c
  PROVE  LET s == ResinSteps(c) IN
         /\ \E S : s \in Seq(S)
         /\ Len(s) = ResinLength(c)
         /\ ResinOrdered(s)
         /\ c.f = "v2_resin_status" =>
              /\ s[9] = Pm!Delay /\ s[10] = Pm!R(RtSts) /\ s[11] = Pm!Test({"RESIN_BARK"})
              /\ s[12] = Pm!W(Resin, {}) /\ s[13] = Pm!Delay
<1>1. ASSUME NEW S, NEW a \in S, NEW b \in S, NEW d \in S, NEW e \in S, NEW f \in S, NEW g \in S,
             NEW h \in S, NEW i \in S, NEW j \in S, NEW m \in S
      PROVE  LET s == <<a, b, d, e, f>> \o <<g, h, i>>
                 t == s \o <<b, j, m>> \o <<a, b>>
             IN  /\ s \in Seq(S) /\ Len(s) = 8 /\ s[1] = a /\ s[2] = b /\ s[3] = d /\ s[4] = e
                 /\ s[5] = f /\ s[6] = g /\ s[7] = h /\ s[8] = i
                 /\ t \in Seq(S) /\ Len(t) = 13 /\ (\A n \in 1 .. 8 : t[n] = s[n])
                 /\ t[9] = b /\ t[10] = j /\ t[11] = m /\ t[12] = a /\ t[13] = b
  <2>1. /\ <<a, b, d, e, f>> \in Seq(S) /\ <<g, h, i>> \in Seq(S) /\ <<b, j, m>> \in Seq(S)
        /\ <<a, b>> \in Seq(S) /\ Len(<<a, b, d, e, f>>) = 5 /\ Len(<<g, h, i>>) = 3
        /\ Len(<<b, j, m>>) = 3 /\ Len(<<a, b>>) = 2
    OBVIOUS
  <2>2. <<a, b, d, e, f>> \o <<g, h, i>> \in Seq(S)
    BY <2>1
  <2>3. PICK s \in Seq(S) : s = <<a, b, d, e, f>> \o <<g, h, i>>
    BY <2>2
  <2>4. /\ Len(s) = 8 /\ s[1] = a /\ s[2] = b /\ s[3] = d /\ s[4] = e /\ s[5] = f
        /\ s[6] = g /\ s[7] = h /\ s[8] = i
    BY <2>1, <2>3
  <2>5. s \o <<b, j, m>> \in Seq(S)
    BY <2>1, <2>3
  <2>6. PICK u \in Seq(S) : u = s \o <<b, j, m>>
    BY <2>5
  <2>7. /\ Len(u) = 11 /\ (\A n \in 1 .. 8 : u[n] = s[n]) /\ u[9] = b /\ u[10] = j /\ u[11] = m
    BY <2>1, <2>3, <2>4, <2>6
  <2>8. LET t == u \o <<a, b>> IN
        /\ t \in Seq(S) /\ Len(t) = 13 /\ (\A n \in 1 .. 8 : t[n] = s[n])
        /\ t[9] = b /\ t[10] = j /\ t[11] = m /\ t[12] = a /\ t[13] = b
    BY <2>1, <2>6, <2>7
  <2> QED
    BY <2>3, <2>4, <2>6, <2>8
<1> DEFINE a == Pm!W(Resin, {})
           b == Pm!Delay
           d == Pm!W(Pm!Pon("RESIN_S1_TIMER"), Pm!Num(0))
           e == Pm!W(Pm!Pon("RESIN_S2_TIMER"), Pm!Num(7))
           f == Pm!W(Resin, {"TYPE_WARM"})
           g == Pm!R(Resin)
           h == Pm!Or({"S2_RESET_EN"})
           i == Pm!Put(Resin)
           j == Pm!R(RtSts)
           m == Pm!Test({"RESIN_BARK"})
           S == {a, b, d, e, f, g, h, i, j, m}
<1>2. Pm!pm8x41_resin_s2_reset_enable = <<a, b, d, e, f>> \o <<g, h, i>>
  BY DEF Pm!pm8x41_resin_s2_reset_enable, Pm!SetBits, Resin
<1>3. Pm!pm8x41_v2_resin_status
        = (<<a, b, d, e, f>> \o <<g, h, i>>) \o <<b, j, m>> \o <<a, b>>
  BY <1>2 DEF Pm!pm8x41_v2_resin_status, Pm!pm8x41_resin_s2_reset_disable, Resin, RtSts
<1>4. /\ a \in S /\ b \in S /\ d \in S /\ e \in S /\ f \in S /\ g \in S /\ h \in S /\ i \in S
      /\ j \in S /\ m \in S
  OBVIOUS
<1> HIDE DEF S, a, b, d, e, f, g, h, i, j, m
<1>5. LET s == Pm!pm8x41_resin_s2_reset_enable
          t == Pm!pm8x41_v2_resin_status
      IN  /\ s \in Seq(S) /\ Len(s) = 8 /\ s[1] = a /\ s[2] = b /\ s[3] = d /\ s[4] = e
          /\ s[5] = f /\ s[6] = g /\ s[7] = h /\ s[8] = i
          /\ t \in Seq(S) /\ Len(t) = 13 /\ (\A n \in 1 .. 8 : t[n] = s[n])
          /\ t[9] = b /\ t[10] = j /\ t[11] = m /\ t[12] = a /\ t[13] = b
  BY <1>1, <1>2, <1>3, <1>4
<1>6. CASE c.f = "v2_resin_status"
  <2>1. ResinOrdered(ResinSteps(c))
    BY <1>5, <1>6 DEF ResinSteps, ResinOrdered, a, b, d, e, f, g, h, i
  <2> QED
    BY <1>5, <1>6, <2>1 DEF ResinSteps, ResinLength, a, b, j, m
<1>7. CASE c.f # "v2_resin_status"
  <2>1. ResinOrdered(ResinSteps(c))
    BY <1>5, <1>7 DEF ResinSteps, ResinOrdered, a, b, d, e, f, g, h, i
  <2> QED
    BY <1>5, <1>7, <2>1 DEF ResinSteps, ResinLength
<1> QED
  BY <1>6, <1>7

LEMMA ResinStarts ==
  ASSUME Resting, RunShape, NEW c \in Calls, Pm!Start(c)
  PROVE  ResinSound'
<1>1. run'.call = c /\ run'.prog = Pm!Program(c)
  BY CallStarts
<1> SUFFICES ASSUME c.f \in ResinCalls PROVE ResinSound'
  BY <1>1 DEF ResinSound
<1>2. Pm!Program(c) = ResinSteps(c)
  BY DEF ResinCalls, ResinSteps, Pm!Program
<1>3. PICK S : ResinSteps(c) \in Seq(S)
  BY ResinOrder
<1>4. PmAt(ResinSteps(c), 1)'
  BY <1>1, <1>2, <1>3, ProgramStarts
<1>5. ResinHere(c, 1)'
  BY DEF ResinHere
<1> QED
  BY <1>1, <1>4, <1>5 DEF ResinSound

LEMMA ResinStep ==
  ASSUME RunShape, ResinSound, Pm!PmicStep, run.call.f \in ResinCalls
  PROVE  ResinSound'
<1> SUFFICES ASSUME ~run'.failed PROVE ResinSound'
  BY DEF ResinSound
<1>1. run.call.f # "none"
  BY DEF ResinCalls
<1>2. PICK c \in Calls, k \in Nat : run.call = c /\ PmAt(ResinSteps(c), k) /\ ResinHere(c, k)
  BY <1>1, ShapeKept DEF ResinSound
<1> DEFINE s == ResinSteps(c)
<1>3. /\ (\E S : s \in Seq(S)) /\ Len(s) = ResinLength(c) /\ ResinOrdered(s)
      /\ ResinLength(c) \in {8, 13}
      /\ ResinLength(c) = 13 =>
              /\ s[9] = Pm!Delay /\ s[10] = Pm!R(RtSts) /\ s[11] = Pm!Test({"RESIN_BARK"})
              /\ s[12] = Pm!W(Resin, {}) /\ s[13] = Pm!Delay
  <2>1. ResinLength(c) \in {8, 13} /\ (ResinLength(c) = 13 => c.f = "v2_resin_status")
    BY DEF ResinLength
  <2> QED
    BY <2>1, ResinOrder
<1> HIDE DEF s
<1>4. /\ Runs /\ k \in 1 .. ResinLength(c) /\ Head(run.prog) = s[k]
      /\ Goes => PmAt(s, k + 1)'
  BY <1>1, <1>2, <1>3, Placed DEF s
<1>5. SUFFICES Goes /\ ResinHere(c, k + 1)'
  BY <1>2, <1>4 DEF ResinSound, Goes, s
<1>6. /\ Pm!EnabledIn(pregs, Resin) <=> "S2_RESET_EN" \in pregs[Resin]
      /\ RtSts \in Pm!Registers \ {Resin} /\ RunShape
  BY <1>4, ResetRegisters DEF Pm!EnabledIn, Ps, Ps2, Resin, RtSts, Pm!Pon, Pm!Registers, Runs
<1>7. CASE k \in {1, 12}
  <2>0. Head(run.prog) = Pm!W(Resin, {})
    BY <1>3, <1>4, <1>7 DEF ResinOrdered
  <2>1. Goes /\ Pm!RegWrite(Resin, {}, FALSE) /\ run'.result = run.result
    BY <1>4, <2>0, Writes
  <2>2. Only(Resin, {}) \/ Only(Resin, pregs[Resin] \ {"S2_RESET_EN"})
    <3>1. (pregs[Resin] \ {"S2_RESET_EN"}) \cup ({} \cap {"S2_RESET_EN"})
            = pregs[Resin] \ {"S2_RESET_EN"}
      OBVIOUS
    <3> QED
      BY <1>6, <2>1, <3>1, ResetRegisters, ResetWrite, ResetSwitch
  <2> QED
    BY <1>2, <1>6, <1>7, <2>1, <2>2 DEF ResinHere, Only
<1>8. CASE k \in {2, 9, 13}
  <2>1. Goes /\ pregs' = pregs /\ settled' = Pm!ResetCtl /\ run'.result = run.result
    BY <1>3, <1>4, <1>8, Delays DEF ResinOrdered
  <2> QED
    BY <1>2, <1>8, <2>1, ResetRegisters DEF ResinHere
<1>9. CASE k \in {3, 4}
  <2>1. PICK r, v : /\ s[k] = Pm!W(r, v) /\ r \in {Pm!Pon("RESIN_S1_TIMER"), Pm!Pon("RESIN_S2_TIMER")}
    BY <1>3, <1>9 DEF ResinOrdered
  <2>2. /\ r \in Pm!Registers \ (Pm!ResetCtl \cup Pm!Secured) /\ r[2] # "SEC_ACCESS" /\ r # Resin
        /\ r # Ps /\ r # Ps2
    BY <2>1 DEF Pm!Registers, Pm!ResetCtl, Pm!Secured, Pm!Pon, Pm!Smbb, Resin, Ps, Ps2
  <2>3. Goes /\ Pm!RegWrite(r, v, FALSE)
    BY <1>4, <2>1, Writes
  <2>4. Only(r, v) /\ pregs'[Resin] = pregs[Resin]
    BY <1>6, <2>2, <2>3, PlainWrite, ResetRegisters DEF Only
  <2>5. ~Pm!EnabledIn(pregs, Resin)
    BY <1>2, <1>6, <1>9 DEF ResinHere
  <2>6. Resin \in settled'
    <3>1. Resin \in settled
      BY <1>2, <1>9 DEF ResinHere
    <3> QED
      BY <2>2, <2>3, <2>5, <3>1, Effect
  <2> QED
    BY <1>2, <1>9, <2>3, <2>4, <2>6 DEF ResinHere
<1>10. CASE k \in {5, 8}
  <2>1. Pm!Off(Resin)
    BY <1>2, <1>6, <1>10 DEF ResinHere, Pm!Off
  <2>2. PICK v : v = IF k = 5 THEN {"TYPE_WARM"} ELSE run.acc
    OBVIOUS
  <2>3. Goes /\ Pm!RegWrite(Resin, v, FALSE)
    BY <1>3, <1>4, <1>10, <2>2, Writes, Puts DEF ResinOrdered
  <2>4. Only(Resin, v) /\ Resin \in settled'
    BY <1>6, <2>1, <2>3, Effect, ResetWrite, ResetRegisters DEF Pm!Off
  <2> QED
    BY <1>2, <1>10, <2>2, <2>3, <2>4 DEF ResinHere, Only
<1>11. CASE k \in {6, 10}
  <2>1. Goes /\ Quiet /\ run'.acc = IF k = 6 THEN pregs[Resin] ELSE pregs[RtSts]
    BY <1>3, <1>4, <1>11, Reads DEF ResinOrdered
  <2> QED
    BY <1>2, <1>11, <2>1 DEF ResinHere, Quiet
<1>12. CASE k = 7
  <2>1. Goes /\ Quiet /\ run'.acc = run.acc \cup {"S2_RESET_EN"}
    BY <1>3, <1>4, <1>12, Ors DEF ResinOrdered
  <2> QED
    BY <1>2, <1>12, <2>1 DEF ResinHere, Quiet
<1>13. CASE k = 11
  <2>1. /\ Goes /\ Quiet
        /\ run'.result = Pm!Flag(run.acc \cap {"RESIN_BARK"} # {})
    BY <1>3, <1>4, <1>13, Tests
  <2>2. run.acc = pregs[RtSts] /\ (run.acc \cap {"RESIN_BARK"} # {} <=> "RESIN_BARK" \in run.acc)
    BY <1>2, <1>13 DEF ResinHere
  <2>3. run'.result = Pm!Flag("RESIN_BARK" \in pregs'[RtSts])
    BY <2>1, <2>2 DEF Pm!Flag, Quiet
  <2> QED
    BY <1>2, <1>13, <2>1, <2>3 DEF ResinHere, Quiet
<1> QED
  BY <1>3, <1>4, <1>7, <1>8, <1>9, <1>10, <1>11, <1>12, <1>13

-----------------------------------------------------------------------------
(* Pmic: pm8x41_gpio_set, pm8x41_get_is_cold_boot.                          *)

Mode0 == <<0, "GPIO_MODE">>
LevelSteps(c) == Pm!pm8x41_gpio_set(c.value)
LevelHere(c, k) ==
  /\ k < 5 => pregs[Mode0] = run.before[Mode0]
  /\ k = 2 => run.acc = run.before[Mode0]
  /\ k = 3 => run.acc = run.before[Mode0] \ Pm!Functions
  /\ k = 4 => run.acc = (run.before[Mode0] \ Pm!Functions) \cup {c.value}
  /\ k = 5 => pregs[Mode0] = (run.before[Mode0] \ Pm!Functions) \cup {c.value}
LevelSound ==
  run.call.f = "gpio_set" /\ ~run.failed =>
    \E c \in Calls, k \in Nat : run.call = c /\ PmAt(LevelSteps(c), k) /\ LevelHere(c, k)

LEMMA LevelOrder ==
  ASSUME NEW c
  PROVE  LET s == LevelSteps(c) IN
         /\ \E S : s \in Seq(S)
         /\ Len(s) = 4 /\ s[1] = Pm!R(Mode0) /\ s[2] = Pm!AndNot(Pm!Functions)
         /\ s[3] = Pm!Or({c.value}) /\ s[4] = Pm!Put(Mode0)
<1> DEFINE a == Pm!R(Mode0)
           b == Pm!AndNot(Pm!Functions)
           d == Pm!Or({c.value})
           e == Pm!Put(Mode0)
           S == {a, b, d, e}
<1>1. LevelSteps(c) = <<a, b, d, e>>
  BY DEF LevelSteps, Pm!pm8x41_gpio_set, Pm!pm8x41_gpio_set_sid, Mode0
<1> HIDE DEF a, b, d, e
<1>2. /\ LevelSteps(c) \in Seq(S) /\ Len(LevelSteps(c)) = 4 /\ LevelSteps(c)[1] = a
      /\ LevelSteps(c)[2] = b /\ LevelSteps(c)[3] = d /\ LevelSteps(c)[4] = e
  BY <1>1
<1> QED
  BY <1>2 DEF a, b, d, e

LEMMA LevelStarts ==
  ASSUME Resting, RunShape, NEW c \in Calls, Pm!Start(c)
  PROVE  LevelSound'
<1>1. /\ run'.call = c /\ run'.prog = Pm!Program(c) /\ run'.before = pregs
      /\ pregs' = pregs
  BY CallStarts
<1> SUFFICES ASSUME c.f = "gpio_set" PROVE LevelSound'
  BY <1>1 DEF LevelSound
<1>2. Pm!Program(c) = LevelSteps(c)
  BY DEF LevelSteps, Pm!Program
<1>3. PICK S : LevelSteps(c) \in Seq(S)
  BY LevelOrder
<1>4. PmAt(LevelSteps(c), 1)'
  BY <1>1, <1>2, <1>3, ProgramStarts
<1>5. LevelHere(c, 1)'
  BY <1>1 DEF LevelHere
<1> QED
  BY <1>1, <1>4, <1>5 DEF LevelSound

LEMMA LevelStep ==
  ASSUME RunShape, LevelSound, Pm!PmicStep, run.call.f = "gpio_set"
  PROVE  LevelSound'
<1> SUFFICES ASSUME ~run'.failed PROVE LevelSound'
  BY DEF LevelSound
<1>1. PICK c \in Calls, k \in Nat : run.call = c /\ PmAt(LevelSteps(c), k) /\ LevelHere(c, k)
  BY ShapeKept DEF LevelSound
<1> DEFINE s == LevelSteps(c)
<1>2. /\ (\E S : s \in Seq(S)) /\ Len(s) = 4 /\ s[1] = Pm!R(Mode0)
      /\ s[2] = Pm!AndNot(Pm!Functions) /\ s[3] = Pm!Or({c.value}) /\ s[4] = Pm!Put(Mode0)
  BY LevelOrder
<1> HIDE DEF s
<1>3. /\ Runs /\ k \in 1 .. 4 /\ Head(run.prog) = s[k]
      /\ Goes => PmAt(s, k + 1)'
  BY <1>1, <1>2, Placed DEF s
<1>4. SUFFICES Goes /\ LevelHere(c, k + 1)'
  BY <1>1, <1>3 DEF LevelSound, Goes, s
<1>5. CASE k = 1
  <2>1. Goes /\ Quiet /\ run'.acc = pregs[Mode0]
    BY <1>2, <1>3, <1>5, Reads
  <2> QED
    BY <1>1, <1>5, <2>1 DEF LevelHere, Quiet, Goes
<1>6. CASE k = 2
  <2>1. Goes /\ Quiet /\ run'.acc = run.acc \ Pm!Functions
    BY <1>2, <1>3, <1>6, AndNots
  <2> QED
    BY <1>1, <1>6, <2>1 DEF LevelHere, Quiet, Goes
<1>7. CASE k = 3
  <2>1. Goes /\ Quiet /\ run'.acc = run.acc \cup {c.value}
    BY <1>2, <1>3, <1>7, Ors
  <2> QED
    BY <1>1, <1>7, <2>1 DEF LevelHere, Quiet, Goes
<1>8. CASE k = 4
  <2>1. Mode0 \in Pm!Registers \ (Pm!ResetCtl \cup Pm!Secured) /\ Mode0[2] # "SEC_ACCESS"
    BY DEF Mode0, Pm!Registers, Pm!ResetCtl, Pm!Secured, Pm!Pon, Pm!Smbb
  <2>2. Goes /\ Only(Mode0, run.acc)
    BY <1>2, <1>3, <1>8, <2>1, Puts, PlainWrite
  <2> QED
    BY <1>1, <1>8, <2>2 DEF LevelHere, Only, Goes
<1> QED
  BY <1>3, <1>5, <1>6, <1>7, <1>8

Warm1 == Pm!Pon("WARMBOOT1")
Warm2 == Pm!Pon("WARMBOOT2")
StopIf == [op |-> "stop_if"]
\* The second register is read when the first says nothing.
ColdHere(k) ==
  /\ k = 2 => run.acc = pregs[Warm1]
  /\ k \in 3 .. 5 => run.result = Pm!Flag("WARM" \in pregs[Warm1])
  /\ k \in 4 .. 5 => "WARM" \notin pregs[Warm1]
  /\ k = 5 => run.acc = pregs[Warm2]
  /\ k = 6 => run.result = Pm!Flag("WARM" \in pregs[Warm1] \cup pregs[Warm2])
ColdSound ==
  run.call.f = "get_is_cold_boot" /\ ~run.failed =>
    \E k \in Nat : PmAt(Pm!pm8x41_get_is_cold_boot, k) /\ ColdHere(k)

LEMMA ColdOrder ==
  LET s == Pm!pm8x41_get_is_cold_boot IN
  /\ \E S : s \in Seq(S)
  /\ Len(s) = 5 /\ s[1] = Pm!R(Warm1) /\ s[2] = Pm!Test({"WARM"}) /\ s[3] = StopIf
  /\ s[4] = Pm!R(Warm2) /\ s[5] = Pm!Test({"WARM"})
<1> DEFINE a == Pm!R(Warm1)
           b == Pm!Test({"WARM"})
           d == Pm!R(Warm2)
           s == Pm!pm8x41_get_is_cold_boot
           S == {a, b, StopIf, d}
<1>1. s = <<a, b, StopIf, d, b>>
  BY DEF Pm!pm8x41_get_is_cold_boot, StopIf, Warm1, Warm2
<1> HIDE DEF a, b, d, s
<1>2. /\ s \in Seq(S) /\ Len(s) = 5 /\ s[1] = a /\ s[2] = b /\ s[3] = StopIf /\ s[4] = d /\ s[5] = b
  BY <1>1
<1> QED
  BY <1>2 DEF a, b, d, s

LEMMA Stops ==
  ASSUME Runs, Head(run.prog) = StopIf
  PROVE  /\ Quiet /\ run'.call = run.call /\ run'.before = run.before /\ run'.result = run.result
         /\ IF run.result = 1 THEN run'.prog = <<>> ELSE Goes
<1>1. Head(run.prog).op = "stop_if"
  BY DEF StopIf
<1>2. ~Pm!Wait /\ ~(\E lost \in BOOLEAN : Pm!Command(lost))
  BY <1>1 DEF Pm!Wait, Pm!Command
<1>3. /\ Quiet
      /\ IF run.result = 1 THEN run' = [run EXCEPT !.prog = <<>>] ELSE run' = [run EXCEPT !.prog = Tail(@)]
  BY <1>1, <1>2, NoSecondCall DEF Pm!Compute, Pm!Next, Quiet
<1>4. CASE run.result = 1
  BY <1>3, <1>4 DEF Runs, RunShape
<1>5. CASE run.result # 1
  <2>1. /\ run' = [run EXCEPT !.prog = Tail(run.prog), !.failed = run'.failed, !.acc = run'.acc,
                              !.saved = run'.saved, !.vars = run'.vars, !.result = run'.result]
        /\ UNCHANGED <<run.failed, run.acc, run.saved, run.vars, run.result>>
    BY <1>3, <1>5 DEF Runs, RunShape
  <2>2. pregs' = [r \in Pm!Registers |-> pregs'[r]]
    BY <1>3 DEF Runs, RunShape, Quiet
  <2>3. Goes
    BY <2>1, <2>2, StepShape DEF Runs, RunShape
  <2> QED
    BY <1>3, <1>5, <2>1, <2>3 DEF Goes
<1> QED
  BY <1>4, <1>5

LEMMA ColdStarts ==
  ASSUME Resting, RunShape, NEW c \in Calls, Pm!Start(c)
  PROVE  ColdSound'
<1>1. run'.call = c /\ run'.prog = Pm!Program(c)
  BY CallStarts
<1> SUFFICES ASSUME c.f = "get_is_cold_boot" PROVE ColdSound'
  BY <1>1 DEF ColdSound
<1>2. Pm!Program(c) = Pm!pm8x41_get_is_cold_boot
  BY DEF Pm!Program
<1>3. PICK S : Pm!pm8x41_get_is_cold_boot \in Seq(S)
  BY ColdOrder
<1>4. PmAt(Pm!pm8x41_get_is_cold_boot, 1)'
  BY <1>1, <1>2, <1>3, ProgramStarts
<1>5. ColdHere(1)'
  BY DEF ColdHere
<1> QED
  BY <1>4, <1>5 DEF ColdSound

LEMMA ColdStep ==
  ASSUME RunShape, ColdSound, Pm!PmicStep, run.call.f = "get_is_cold_boot"
  PROVE  ColdSound'
<1> SUFFICES ASSUME ~run'.failed PROVE ColdSound'
  BY DEF ColdSound
<1> DEFINE s == Pm!pm8x41_get_is_cold_boot
<1>1. PICK k \in Nat : PmAt(s, k) /\ ColdHere(k)
  BY ShapeKept DEF ColdSound
<1>2. /\ (\E S : s \in Seq(S)) /\ Len(s) = 5 /\ s[1] = Pm!R(Warm1) /\ s[2] = Pm!Test({"WARM"})
      /\ s[3] = StopIf /\ s[4] = Pm!R(Warm2) /\ s[5] = Pm!Test({"WARM"})
  BY ColdOrder
<1> HIDE DEF s
<1>3. /\ Runs /\ k \in 1 .. 5 /\ Head(run.prog) = s[k]
      /\ Goes => PmAt(s, k + 1)'
  BY <1>1, <1>2, Placed
<1>4. ASSUME PmAt(s, k + 1)', ColdHere(k + 1)' PROVE ColdSound'
  BY <1>4 DEF ColdSound, s
<1>5. CASE k \in {1, 4}
  <2>1. Goes /\ Quiet /\ run'.acc = (IF k = 1 THEN pregs[Warm1] ELSE pregs[Warm2])
        /\ run'.result = run.result
    BY <1>2, <1>3, <1>5, Reads
  <2>2. ColdHere(k + 1)'
    BY <1>1, <1>5, <2>1 DEF ColdHere, Quiet
  <2> QED
    BY <1>3, <1>4, <2>1, <2>2
<1>6. CASE k \in {2, 5}
  <2>1. Goes /\ Quiet /\ run'.result = Pm!Flag(run.acc \cap {"WARM"} # {})
    BY <1>2, <1>3, <1>6, Tests
  <2>2. run'.result = Pm!Flag("WARM" \in run.acc)
    <3>1. run.acc \cap {"WARM"} # {} <=> "WARM" \in run.acc
      OBVIOUS
    <3> QED
      BY <2>1, <3>1 DEF Pm!Flag
  <2>3. ColdHere(k + 1)'
    BY <1>1, <1>6, <2>1, <2>2 DEF ColdHere, Quiet, Pm!Flag
  <2> QED
    BY <1>3, <1>4, <2>1, <2>3
<1>7. CASE k = 3
  <2>1. /\ Quiet /\ run'.result = run.result
        /\ IF run.result = 1 THEN run'.prog = <<>> ELSE Goes
    BY <1>2, <1>3, <1>7, Stops
  <2>2. run.result = 1 <=> "WARM" \in pregs[Warm1]
    BY <1>1, <1>7 DEF ColdHere, Pm!Flag
  <2>3. CASE run.result = 1
    <3>1. PmAt(s, Len(s) + 1)'
      BY <1>2, <2>1, <2>3, ProgramEnds
    <3>2. ColdHere(6)'
      BY <2>1, <2>2, <2>3 DEF ColdHere, Quiet, Pm!Flag
    <3> QED
      BY <1>2, <3>1, <3>2 DEF ColdSound, s
  <2>4. CASE run.result # 1
    <3>1. ColdHere(k + 1)'
      BY <1>1, <1>7, <2>1, <2>2, <2>4 DEF ColdHere, Quiet
    <3> QED
      BY <1>3, <1>4, <2>1, <2>4, <3>1
  <2> QED
    BY <2>3, <2>4
<1> QED
  BY <1>3, <1>5, <1>6, <1>7

-----------------------------------------------------------------------------
(* Pmic: the limits of the charger, pm8x41_ldo_set_voltage.                 *)

LEMMA NumberOf ==
  ASSUME NEW reg, NEW n, pregs[reg] = Pm!Num(n)
  PROVE  Pm!Number(reg) = n
<1>1. (CHOOSE v \in {<<"n", n>>} : TRUE) = <<"n", n>>
  OBVIOUS
<1> QED
  BY <1>1 DEF Pm!Number, Pm!Num

LimitCalls == {"iusb_max", "ibat_max", "vdd_max"}
LimitReg(c) == Pm!Smbb(CASE c.f = "iusb_max" -> "IUSB_MAX" [] c.f = "ibat_max" -> "IBAT_MAX"
                         [] c.f = "vdd_max" -> "VDD_MAX")
LimitMul(c) == CASE c.f = "iusb_max" -> Pm!iusb_max(c.ua) [] c.f = "ibat_max" -> Pm!ibat_max(c.ua)
                 [] c.f = "vdd_max" -> Pm!vdd_max(c.uv)
LimitSteps(c) == IF LimitMul(c) = -1 THEN <<Pm!Return(-1)>>
                 ELSE <<Pm!W(LimitReg(c), Pm!Num(LimitMul(c))), Pm!Return(0)>>
LimitHere(c, k) == IF LimitMul(c) = -1 THEN k = 2 => run.result = -1
                   ELSE k > 1 => pregs[LimitReg(c)] = Pm!Num(LimitMul(c))
LimitSound ==
  run.call.f \in LimitCalls /\ ~run.failed =>
    \E c \in Calls, k \in Nat : run.call = c /\ PmAt(LimitSteps(c), k) /\ LimitHere(c, k)

LEMMA LimitOrder ==
  ASSUME NEW c
  PROVE  LET s == LimitSteps(c) IN
         /\ \E S : s \in Seq(S)
         /\ IF LimitMul(c) = -1 THEN Len(s) = 1 /\ s[1] = Pm!Return(-1)
            ELSE /\ Len(s) = 2 /\ s[1] = Pm!W(LimitReg(c), Pm!Num(LimitMul(c)))
                 /\ s[2] = Pm!Return(0)
<1> DEFINE a == Pm!W(LimitReg(c), Pm!Num(LimitMul(c)))
           b == Pm!Return(0)
           d == Pm!Return(-1)
           S == {a, b, d}
<1>1. LimitSteps(c) = IF LimitMul(c) = -1 THEN <<d>> ELSE <<a, b>>
  BY DEF LimitSteps
<1> HIDE DEF a, b, d
<1>2. CASE LimitMul(c) = -1
  <2>1. LimitSteps(c) \in Seq(S) /\ Len(LimitSteps(c)) = 1 /\ LimitSteps(c)[1] = d
    BY <1>1, <1>2
  <2> QED
    BY <1>2, <2>1 DEF d
<1>3. CASE LimitMul(c) # -1
  <2>1. /\ LimitSteps(c) \in Seq(S) /\ Len(LimitSteps(c)) = 2 /\ LimitSteps(c)[1] = a
        /\ LimitSteps(c)[2] = b
    BY <1>1, <1>3
  <2> QED
    BY <1>3, <2>1 DEF a, b
<1> QED
  BY <1>2, <1>3

LEMMA LimitStarts ==
  ASSUME Resting, RunShape, NEW c \in Calls, Pm!Start(c)
  PROVE  LimitSound'
<1>1. run'.call = c /\ run'.prog = Pm!Program(c)
  BY CallStarts
<1> SUFFICES ASSUME c.f \in LimitCalls PROVE LimitSound'
  BY <1>1 DEF LimitSound
<1>2. Pm!Program(c) = LimitSteps(c)
  BY DEF LimitCalls, LimitSteps, LimitReg, LimitMul, Pm!Program, Pm!pm8x41_iusb_max_config,
         Pm!pm8x41_ibat_max_config, Pm!pm8x41_chgr_vdd_max_config, Pm!Limit
<1>3. PICK S : LimitSteps(c) \in Seq(S)
  BY LimitOrder
<1>4. PmAt(LimitSteps(c), 1)'
  BY <1>1, <1>2, <1>3, ProgramStarts
<1>5. LimitHere(c, 1)'
  BY DEF LimitHere
<1> QED
  BY <1>1, <1>4, <1>5 DEF LimitSound

LEMMA LimitStep ==
  ASSUME RunShape, LimitSound, Pm!PmicStep, run.call.f \in LimitCalls
  PROVE  LimitSound'
<1> SUFFICES ASSUME ~run'.failed PROVE LimitSound'
  BY DEF LimitSound
<1>1. run.call.f # "none"
  BY DEF LimitCalls
<1>2. PICK c \in Calls, k \in Nat : run.call = c /\ PmAt(LimitSteps(c), k) /\ LimitHere(c, k)
  BY <1>1, ShapeKept DEF LimitSound
<1> DEFINE s == LimitSteps(c)
<1>3. /\ \E S : s \in Seq(S)
      /\ IF LimitMul(c) = -1 THEN Len(s) = 1 /\ s[1] = Pm!Return(-1)
         ELSE /\ Len(s) = 2 /\ s[1] = Pm!W(LimitReg(c), Pm!Num(LimitMul(c)))
              /\ s[2] = Pm!Return(0)
  BY LimitOrder
<1> HIDE DEF s
<1>4. /\ Runs /\ k \in 1 .. Len(s) /\ Head(run.prog) = s[k]
      /\ Goes => PmAt(s, k + 1)'
  BY <1>1, <1>2, <1>3, Placed DEF s
<1>5. SUFFICES Goes /\ LimitHere(c, k + 1)'
  BY <1>2, <1>4 DEF LimitSound, Goes, s
<1>6. CASE LimitMul(c) = -1
  <2>0. Len(s) = 1 /\ s[1] = Pm!Return(-1)
    BY <1>3, <1>6
  <2>1. Head(run.prog) = Pm!Return(-1) /\ k = 1
    BY <1>4, <2>0
  <2>2. Goes /\ run'.result = -1
    BY <1>4, <2>1, Returns
  <2> QED
    BY <1>6, <2>1, <2>2 DEF LimitHere
<1>7. CASE LimitMul(c) # -1 /\ k = 1
  <2>1. /\ LimitReg(c) \in Pm!Registers \ (Pm!ResetCtl \cup Pm!Secured)
        /\ LimitReg(c)[2] # "SEC_ACCESS"
    BY <1>2 DEF LimitReg, LimitCalls, Pm!Registers, Pm!ResetCtl, Pm!Secured, Pm!Pon, Pm!Smbb
  <2>2. Goes /\ Only(LimitReg(c), Pm!Num(LimitMul(c)))
    BY <1>3, <1>4, <1>7, <2>1, Writes, PlainWrite
  <2> QED
    BY <1>7, <2>2 DEF LimitHere, Only
<1>8. CASE LimitMul(c) # -1 /\ k = 2
  <2>1. Goes /\ Quiet
    BY <1>3, <1>4, <1>8, Returns
  <2> QED
    BY <1>2, <1>8, <2>1 DEF LimitHere, Quiet
<1> QED
  BY <1>3, <1>4, <1>6, <1>7, <1>8

LEMMA InRange ==
  ASSUME NEW a \in Int, NEW b \in Int, NEW x
  PROVE  x \in a .. b <=> x \in Int /\ a <= x /\ x <= b
  OBVIOUS

\* The quotient by a step is off by less than a step.
LEMMA WithinAStep ==
  ASSUME NEW n \in Nat, NEW d \in Nat, d > 0
  PROVE  n \div d \in Nat /\ n - d * (n \div d) \in 0 .. d - 1
  OBVIOUS

LEMMA ChargerConstants ==
  /\ Pm!USB.min = 100000 /\ Pm!USB.max = 2500000 /\ Pm!USB.step = 100000
  /\ Pm!BAT.min \in Nat /\ Pm!BAT.max \in Nat /\ Pm!BAT.step \in Nat /\ Pm!BAT.step > 0
  /\ Pm!VDD.min \in Nat /\ Pm!VDD.max \in Nat /\ Pm!VDD.step \in Nat /\ Pm!VDD.step > 0
BY SMT DEF Pm!USB, Pm!BAT, Pm!VDD

\* What is programmed is not more than was asked for, but for an input current
\* between the first two steps.
LEMMA LimitsRoundDown ==
  ASSUME NEW x
  PROVE  /\ Pm!iusb_max(x) # -1 =>
              Pm!Amps(Pm!iusb_max(x)) <= x \/ (x < 150000 /\ Pm!iusb_max(x) = 1)
         /\ Pm!ibat_max(x) # -1 =>
              x - (Pm!BAT.min + Pm!BAT.step * Pm!ibat_max(x)) \in 0 .. Pm!BAT.step - 1
         /\ Pm!vdd_max(x) # -1 =>
              x - (Pm!VDD.min + Pm!VDD.step * Pm!vdd_max(x)) \in 0 .. Pm!VDD.step - 1
<1>1. ASSUME NEW min \in Nat, NEW max \in Nat, NEW step \in Nat, step > 0, x \in min .. max
      PROVE  /\ (x - min) \div step # -1
             /\ x - (min + step * ((x - min) \div step)) \in 0 .. step - 1
  <2>1. PICK n \in Nat : n = x - min
    BY <1>1
  <2>2. PICK q \in Nat : q = n \div step /\ n - step * q \in 0 .. step - 1
    BY <1>1, WithinAStep
  <2>3. x - (min + step * q) = n - step * q
    BY <1>1, <2>1, <2>2
  <2> QED
    BY <2>1, <2>2, <2>3
<1>2. Pm!ibat_max(x) # -1 => x - (Pm!BAT.min + Pm!BAT.step * Pm!ibat_max(x)) \in 0 .. Pm!BAT.step - 1
  BY <1>1, ChargerConstants, SMT DEF Pm!ibat_max
<1>3. Pm!vdd_max(x) # -1 => x - (Pm!VDD.min + Pm!VDD.step * Pm!vdd_max(x)) \in 0 .. Pm!VDD.step - 1
  BY <1>1, ChargerConstants, SMT DEF Pm!vdd_max
<1>4. Pm!iusb_max(x) # -1 =>
        Pm!Amps(Pm!iusb_max(x)) <= x \/ (x < 150000 /\ Pm!iusb_max(x) = 1)
  <2> SUFFICES ASSUME Pm!iusb_max(x) # -1
               PROVE  \/ Pm!Amps(Pm!iusb_max(x)) <= x
                      \/ x < 150000 /\ Pm!iusb_max(x) = 1
    BY SMT
  <2>1. PICK low \in Nat, high \in Nat : low = Pm!USB.min /\ high = Pm!USB.max
    BY ChargerConstants, SMT
  <2>2. low <= 100000 /\ 100000 <= low /\ 150000 <= high
    BY <2>1, ChargerConstants, SMT
  <2>3. 100000 \in low .. high /\ 150000 \in low .. high
    BY <2>2, InRange, SMT
  <2>4. /\ x \in low .. high
        /\ Pm!iusb_max(x) = IF x = 100000 THEN 0 ELSE IF x = 150000 THEN 1 ELSE x \div Pm!USB.step
    BY <2>1, <2>3, SMT DEF Pm!iusb_max
  <2>5. x \in Int /\ 100000 <= x
    <3>1. x \in Int /\ low <= x
      BY <2>4, InRange, SMT
    <3> QED
      BY <2>2, <3>1, SMT
  <2>6. CASE x = 100000
    BY <2>4, <2>6, SMT DEF Pm!Amps
  <2>7. CASE x # 100000 /\ x < 200000
    <3>1. Pm!iusb_max(x) = 1
      <4>1. x \div 100000 = 1
        BY <2>5, <2>7, SMT
      <4> QED
        BY <2>4, <2>5, <2>7, <4>1, ChargerConstants, SMT
    <3>2. Pm!Amps(1) = 150000
      BY SMT DEF Pm!Amps
    <3> QED
      BY <2>5, <3>1, <3>2, SMT
  <2>8. CASE x >= 200000
    <3>1. PICK n \in Nat : n = x \div 100000 /\ n >= 2 /\ 100000 * n <= x
      <4>1. x \div 100000 \in Nat /\ x \div 100000 >= 2 /\ 100000 * (x \div 100000) <= x
        BY <2>5, <2>8, SMT
      <4> QED
        BY <4>1, SMT
    <3>2. Pm!Amps(n) = 100000 * n
      BY <3>1, SMT DEF Pm!Amps
    <3>3. Pm!iusb_max(x) = n
      BY <2>4, <2>5, <2>8, <3>1, ChargerConstants, SMT
    <3> QED
      BY <3>1, <3>2, <3>3, SMT
  <2> QED
    BY <2>5, <2>6, <2>7, <2>8, SMT
<1> QED
  BY <1>2, <1>3, <1>4, SMT

LdoSteps(c) == Pm!pm8x41_ldo_set_voltage(c.type, c.voltage)
LdoHere(c, k) ==
  LET range == Pm!LdoRange(c.type, c.voltage) IN
  /\ k > 2 => pregs[<<1, "LDO_RANGE">>] = Pm!Num(range)
  /\ k > 3 => pregs[<<1, "LDO_STEP">>] = Pm!Num(Pm!LdoMult(range, c.voltage))
LdoSound ==
  run.call.f = "ldo_set_voltage" /\ ~run.failed =>
    \E c \in Calls, k \in Nat : run.call = c /\ PmAt(LdoSteps(c), k) /\ LdoHere(c, k)

LEMMA LdoOrder ==
  ASSUME NEW c
  PROVE  LET s == LdoSteps(c)
             range == Pm!LdoRange(c.type, c.voltage)
         IN  /\ \E S : s \in Seq(S)
             /\ Len(s) = 3 /\ s[1] = Pm!W(<<1, "LDO_POWER_MODE">>, {"NORMAL"})
             /\ s[2] = Pm!W(<<1, "LDO_RANGE">>, Pm!Num(range))
             /\ s[3] = Pm!W(<<1, "LDO_STEP">>, Pm!Num(Pm!LdoMult(range, c.voltage)))
<1> DEFINE range == Pm!LdoRange(c.type, c.voltage)
           a == Pm!W(<<1, "LDO_POWER_MODE">>, {"NORMAL"})
           b == Pm!W(<<1, "LDO_RANGE">>, Pm!Num(range))
           d == Pm!W(<<1, "LDO_STEP">>, Pm!Num(Pm!LdoMult(range, c.voltage)))
           S == {a, b, d}
<1>1. LdoSteps(c) = <<a, b, d>>
  BY DEF LdoSteps, Pm!pm8x41_ldo_set_voltage
<1> HIDE DEF a, b, d
<1>2. /\ LdoSteps(c) \in Seq(S) /\ Len(LdoSteps(c)) = 3 /\ LdoSteps(c)[1] = a
      /\ LdoSteps(c)[2] = b /\ LdoSteps(c)[3] = d
  BY <1>1
<1> QED
  BY <1>2 DEF a, b, d

LEMMA LdoStarts ==
  ASSUME Resting, RunShape, NEW c \in Calls, Pm!Start(c)
  PROVE  LdoSound'
<1>1. run'.call = c /\ run'.prog = Pm!Program(c)
  BY CallStarts
<1> SUFFICES ASSUME c.f = "ldo_set_voltage" PROVE LdoSound'
  BY <1>1 DEF LdoSound
<1>2. Pm!Program(c) = LdoSteps(c)
  BY DEF LdoSteps, Pm!Program
<1>3. PICK S : LdoSteps(c) \in Seq(S)
  BY LdoOrder
<1>4. PmAt(LdoSteps(c), 1)'
  BY <1>1, <1>2, <1>3, ProgramStarts
<1>5. LdoHere(c, 1)'
  BY DEF LdoHere
<1> QED
  BY <1>1, <1>4, <1>5 DEF LdoSound

LEMMA LdoStep ==
  ASSUME RunShape, LdoSound, Pm!PmicStep, run.call.f = "ldo_set_voltage"
  PROVE  LdoSound'
<1> SUFFICES ASSUME ~run'.failed PROVE LdoSound'
  BY DEF LdoSound
<1>1. PICK c \in Calls, k \in Nat : run.call = c /\ PmAt(LdoSteps(c), k) /\ LdoHere(c, k)
  BY ShapeKept DEF LdoSound
<1> DEFINE s == LdoSteps(c)
           range == Pm!LdoRange(c.type, c.voltage)
           mult == Pm!LdoMult(range, c.voltage)
<1>2. /\ \E S : s \in Seq(S)
      /\ Len(s) = 3 /\ s[1] = Pm!W(<<1, "LDO_POWER_MODE">>, {"NORMAL"})
      /\ s[2] = Pm!W(<<1, "LDO_RANGE">>, Pm!Num(range))
      /\ s[3] = Pm!W(<<1, "LDO_STEP">>, Pm!Num(mult))
  BY LdoOrder
<1>3. /\ k > 2 => pregs[<<1, "LDO_RANGE">>] = Pm!Num(range)
      /\ k > 3 => pregs[<<1, "LDO_STEP">>] = Pm!Num(mult)
  BY <1>1 DEF LdoHere
<1> HIDE DEF s
<1>4. /\ Runs /\ k \in 1 .. 3 /\ Head(run.prog) = s[k]
      /\ Goes => PmAt(s, k + 1)'
  BY <1>1, <1>2, Placed DEF s
<1>5. SUFFICES /\ Goes
               /\ k + 1 > 2 => pregs'[<<1, "LDO_RANGE">>] = Pm!Num(range)
               /\ k + 1 > 3 => pregs'[<<1, "LDO_STEP">>] = Pm!Num(mult)
  BY <1>1, <1>4 DEF LdoSound, LdoHere, Goes, s
<1> HIDE DEF range, mult
<1>6. \A name \in {"LDO_POWER_MODE", "LDO_RANGE", "LDO_STEP"} :
        /\ <<1, name>> \in Pm!Registers \ (Pm!ResetCtl \cup Pm!Secured)
        /\ <<1, name>>[2] # "SEC_ACCESS"
  BY DEF Pm!Registers, Pm!ResetCtl, Pm!Secured, Pm!Pon, Pm!Smbb
<1>7. CASE k = 1
  <2>1. Goes
    BY <1>2, <1>4, <1>7, Writes
  <2> QED
    BY <1>7, <2>1
<1>8. CASE k = 2
  <2>1. Goes /\ Only(<<1, "LDO_RANGE">>, Pm!Num(range))
    BY <1>2, <1>4, <1>6, <1>8, Writes, PlainWrite
  <2> QED
    BY <1>8, <2>1 DEF Only
<1>9. CASE k = 3
  <2>1. Goes /\ Only(<<1, "LDO_STEP">>, Pm!Num(mult))
    BY <1>2, <1>4, <1>6, <1>9, Writes, PlainWrite
  <2> QED
    BY <1>3, <1>6, <1>9, <2>1 DEF Only
<1> QED
  BY <1>4, <1>7, <1>8, <1>9

\* A voltage is reached to within a step of its range.
LEMMA VoltageReached ==
  ASSUME NEW c \in Calls, c.f = "ldo_set_voltage"
  PROVE  LET range == Pm!LdoRange(c.type, c.voltage) IN
         c.voltage - Pm!Volts(range, Pm!LdoMult(range, c.voltage)) \in 0 .. Pm!LdoStep(range) - 1
<1> DEFINE range == Pm!LdoRange(c.type, c.voltage)
           v == c.voltage
<1>1. c.type \in {"PLDO", "NLDO"} /\ v \in Nat /\ Pm!LdoMult(range, v) \in 0 .. 255
  BY PlatformAssumption, SMT DEF Pm!CallsAssumption
<1>2. range \in {2, 3, 4}
  BY <1>1, SMT DEF Pm!LdoRange
<1> HIDE DEF range, v
<1>3. PICK vmin \in Nat, step \in Nat \ {0} : /\ vmin = Pm!LdoVmin(range) /\ step = Pm!LdoStep(range)
                                              /\ step \in {12500, 25000, 50000}
  BY <1>2, SMT DEF Pm!LdoVmin, Pm!LdoStep
<1>4. PICK m \in 0 .. 255 : m = (v - vmin) \div step /\ m = Pm!LdoMult(range, v)
  BY <1>1, <1>3, SMT DEF Pm!LdoMult
<1>5. v - (vmin + step * m) \in 0 .. step - 1
  BY <1>1, <1>3, <1>4, SMT
<1>6. v - Pm!Volts(range, Pm!LdoMult(range, v)) \in 0 .. Pm!LdoStep(range) - 1
  BY <1>3, <1>4, <1>5, SMT DEF Pm!Volts
<1> QED
  BY <1>6, SMT DEF range, v

-----------------------------------------------------------------------------
(* Pmic: pm8xxx_is_battery_broken and pmi8994_is_battery_broken.            *)

Sec == Pm!Smbb("SEC_ACCESS")

\* A write changes one register at most.
LEMMA OthersKept ==
  ASSUME RunShape, NEW reg, NEW val, Pm!RegWrite(reg, val, FALSE)
  PROVE  \A r \in Pm!Registers \ {reg} : pregs'[r] = pregs[r]
<1>1. pregs' = Pm!Written(reg, val)
  BY DEF Pm!RegWrite
<1> DEFINE bits == (pregs[reg] \ {"S2_RESET_EN"}) \cup (val \cap {"S2_RESET_EN"})
<1>2. pregs' = pregs \/ pregs' = [pregs EXCEPT ![reg] = bits] \/ pregs' = [pregs EXCEPT ![reg] = val]
  BY <1>1 DEF Pm!Written
<1> HIDE DEF bits
<1> QED
  BY <1>2 DEF RunShape

\* A secured register takes a write after an unlock.
LEMMA Unlocks ==
  ASSUME NEW val, Pm!RegWrite(Sec, val, FALSE)
  PROVE  pregs' = pregs /\ unlocked' = TRUE
<1>1. Sec \notin Pm!Secured /\ Sec \notin Pm!ResetCtl /\ Sec[2] = "SEC_ACCESS"
  BY DEF Sec, Pm!Smbb, Pm!Pon, Pm!Secured, Pm!ResetCtl
<1>2. Pm!Written(Sec, val) = pregs
  BY <1>1 DEF Pm!Written
<1> QED
  BY <1>1, <1>2 DEF Pm!RegWrite

LEMMA SecuredWrite ==
  ASSUME RunShape, NEW reg \in Pm!Secured, unlocked = TRUE, NEW val, Pm!RegWrite(reg, val, FALSE)
  PROVE  Only(reg, val)
<1>1. reg \in Pm!Registers /\ reg \notin Pm!ResetCtl /\ reg[2] # "SEC_ACCESS"
  BY DEF Pm!Secured, Pm!ResetCtl, Pm!Registers, Pm!Smbb, Pm!Pon
<1> DEFINE now == [pregs EXCEPT ![reg] = val]
<1>2. Pm!Written(reg, val) = now
  BY <1>1 DEF Pm!Written
<1> QED
  BY <1>1, <1>2, Effect, Overwritten

Ibat == Pm!Smbb("IBAT_ATC")
Vbat == Pm!Smbb("VBAT_DET")
Trkl == Pm!Smbb("TRKL_CHG_TEST")
Chg == Pm!Smbb("CHG_CTRL")
Comp == Pm!Smbb("COMP_OVR0")
Vcp == Pm!Smbb("VCP")
Tsts == Pm!Smbb("VBAT_IN_TSTS")

LEMMA SmbbRegisters ==
  /\ {Ibat, Vbat, Chg, Vcp, Tsts} \subseteq Pm!Registers \ (Pm!ResetCtl \cup Pm!Secured)
  /\ Pm!Secured = {Comp, Trkl} /\ Trkl \in Pm!Registers /\ Comp \in Pm!Registers
  /\ \A r \in {Ibat, Vbat, Chg, Vcp, Tsts} : r[2] # "SEC_ACCESS"
  /\ Ibat # Vbat /\ Ibat # Trkl /\ Ibat # Chg /\ Ibat # Comp /\ Ibat # Vcp /\ Ibat # Tsts
  /\ Vbat # Trkl /\ Vbat # Chg /\ Vbat # Comp /\ Vbat # Vcp /\ Vbat # Tsts
  /\ Trkl # Chg /\ Trkl # Comp /\ Trkl # Vcp /\ Trkl # Tsts
  /\ Chg # Comp /\ Chg # Vcp /\ Comp # Tsts /\ Vcp # Tsts
BY DEF Ibat, Vbat, Trkl, Chg, Comp, Vcp, Tsts, Pm!Smbb, Pm!Pon, Pm!Registers, Pm!ResetCtl, Pm!Secured

\* The detection limits are saved, changed and restored; the forced trickle
\* charge is switched on and off behind an unlock of its own.
BatteryHere(k) ==
  /\ run.before[Trkl] = {}
  /\ pregs[Trkl] = IF k \in 10 .. 14 THEN {"FORCED_ON"} ELSE {}
  /\ pregs[Chg] = run.before[Chg]
  /\ k >= 2 => run.saved[Ibat] = run.before[Ibat]
  /\ k >= 3 => run.saved[Vbat] = run.before[Vbat]
  /\ k <= 3 \/ k > 16 => pregs[Ibat] = run.before[Ibat]
  /\ k <= 4 \/ k > 17 => pregs[Vbat] = run.before[Vbat]
  /\ k \in {6, 9, 14} => unlocked = TRUE
  /\ k = 12 => run.acc = pregs[Tsts]
  /\ k >= 13 => run.result = Pm!Flag("VBAT_DET_HI" \in pregs[Tsts])
BatterySound ==
  run.call.f = "pm8xxx_is_battery_broken" /\ ~run.failed =>
    \E k \in Nat : PmAt(Pm!pm8xxx_is_battery_broken, k) /\ BatteryHere(k)

BatteryOrdered(s) ==
  /\ s[1] = Pm!Save(Ibat) /\ s[2] = Pm!Save(Vbat) /\ s[3] = Pm!W(Ibat, Pm!Num(0))
  /\ s[4] = Pm!W(Vbat, Pm!Num(53)) /\ s[5] = Pm!W(Sec, {"UNLOCK"})
  /\ s[6] = Pm!W(Comp, {"DIS_VTRKL_FAULT"}) /\ s[7] = Pm!W(Vcp, {}) /\ s[8] = Pm!W(Sec, {"UNLOCK"})
  /\ s[9] = Pm!W(Trkl, {"FORCED_ON"}) /\ s[10] = Pm!Delay /\ s[11] = Pm!R(Tsts)
  /\ s[12] = Pm!Test({"VBAT_DET_HI"}) /\ s[13] = Pm!W(Sec, {"UNLOCK"}) /\ s[14] = Pm!W(Trkl, {})
  /\ s[15] = Pm!W(Vcp, {"ENABLE"}) /\ s[16] = Pm!Restore(Ibat) /\ s[17] = Pm!Restore(Vbat)

LEMMA BatteryOrder ==
  LET s == Pm!pm8xxx_is_battery_broken IN
  (\E S : s \in Seq(S)) /\ Len(s) = 17 /\ BatteryOrdered(s)
<1> DEFINE s == Pm!pm8xxx_is_battery_broken
           a == Pm!Save(Ibat)
           b == Pm!Save(Vbat)
           d == Pm!W(Ibat, Pm!Num(0))
           e == Pm!W(Vbat, Pm!Num(53))
           f == Pm!W(Sec, {"UNLOCK"})
           g == Pm!W(Comp, {"DIS_VTRKL_FAULT"})
           h == Pm!W(Vcp, {})
           i == Pm!W(Trkl, {"FORCED_ON"})
           j == Pm!R(Tsts)
           l == Pm!Test({"VBAT_DET_HI"})
           m == Pm!W(Trkl, {})
           n == Pm!W(Vcp, {"ENABLE"})
           o == Pm!Restore(Ibat)
           p == Pm!Restore(Vbat)
           S == {a, b, d, e, f, g, h, i, j, l, m, n, o, p, Pm!Delay}
<1>1. s = <<a, b, d, e, f, g, h, f, i, Pm!Delay, j, l, f, m, n, o, p>>
  BY DEF Pm!pm8xxx_is_battery_broken, Ibat, Vbat, Trkl, Comp, Vcp, Tsts, Sec
<1> HIDE DEF s, a, b, d, e, f, g, h, i, j, l, m, n, o, p
<1>2. /\ s \in Seq(S) /\ Len(s) = 17 /\ s[1] = a /\ s[2] = b /\ s[3] = d /\ s[4] = e /\ s[5] = f
      /\ s[6] = g /\ s[7] = h /\ s[8] = f /\ s[9] = i /\ s[10] = Pm!Delay /\ s[11] = j
      /\ s[12] = l /\ s[13] = f /\ s[14] = m /\ s[15] = n /\ s[16] = o /\ s[17] = p
  BY <1>1
<1>3. BatteryOrdered(s)
  BY <1>2 DEF BatteryOrdered, a, b, d, e, f, g, h, i, j, l, m, n, o, p
<1> QED
  BY <1>2, <1>3 DEF s

LEMMA BatteryStarts ==
  ASSUME Resting, RunShape, NEW c \in Calls, Pm!Start(c)
  PROVE  BatterySound'
<1>1. /\ run'.call = c /\ run'.prog = Pm!Program(c) /\ run'.before = pregs /\ pregs' = pregs
  BY CallStarts
<1> SUFFICES ASSUME c.f = "pm8xxx_is_battery_broken" PROVE BatterySound'
  BY <1>1 DEF BatterySound
<1>2. Pm!Program(c) = Pm!pm8xxx_is_battery_broken
  BY DEF Pm!Program
<1>3. PICK S : Pm!pm8xxx_is_battery_broken \in Seq(S)
  BY BatteryOrder
<1>4. PmAt(Pm!pm8xxx_is_battery_broken, 1)'
  BY <1>1, <1>2, <1>3, ProgramStarts
<1>5. pregs[Trkl] = {}
  <2>1. Trkl \in Pm!Registers /\ Trkl[2] = "TRKL_CHG_TEST" /\ Trkl # Ps /\ Trkl # Ps2
    BY SmbbRegisters DEF Trkl, Pm!Smbb, Ps, Ps2, Pm!Pon
  <2>2. Pm!Blank[Trkl] = {} /\ Pm!Configured[Trkl] = {}
    BY <2>1 DEF Pm!Blank, Pm!Configured
  <2>3. /\ Pm!Armed("PS_HOLD_CTL")[Trkl] = Pm!Configured[Trkl]
        /\ Pm!Armed("PS_HOLD_CTL2")[Trkl] = Pm!Configured[Trkl]
    BY <2>1 DEF Pm!Armed, Pm!Configured, Ps, Ps2
  <2> QED
    BY <2>2, <2>3 DEF Resting
<1>6. BatteryHere(1)'
  BY <1>1, <1>5 DEF BatteryHere
<1> QED
  BY <1>4, <1>6 DEF BatterySound

LEMMA BatteryStep ==
  ASSUME RunShape, BatterySound, Pm!PmicStep, run.call.f = "pm8xxx_is_battery_broken"
  PROVE  BatterySound'
<1> SUFFICES ASSUME ~run'.failed PROVE BatterySound'
  BY DEF BatterySound
<1> DEFINE s == Pm!pm8xxx_is_battery_broken
<1>1. PICK k \in Nat : PmAt(s, k) /\ BatteryHere(k)
  BY ShapeKept DEF BatterySound
<1>2. (\E S : s \in Seq(S)) /\ Len(s) = 17 /\ BatteryOrdered(s)
  BY BatteryOrder
<1> HIDE DEF s
<1>3. /\ Runs /\ k \in 1 .. 17 /\ Head(run.prog) = s[k]
      /\ Goes => PmAt(s, k + 1)'
  BY <1>1, <1>2, Placed
<1>4. SUFFICES Goes /\ BatteryHere(k + 1)'
  BY <1>3 DEF BatterySound, s
<1>5. CASE k \in {1, 2}
  <2>1. PICK r : r = IF k = 1 THEN Ibat ELSE Vbat
    OBVIOUS
  <2>2. Head(run.prog) = Pm!Save(r)
    BY <1>2, <1>3, <1>5, <2>1 DEF BatteryOrdered
  <2>3. Goes /\ Quiet /\ run'.saved = [run.saved EXCEPT ![r] = pregs[r]]
    BY <1>3, <2>2, Saves
  <2>4. run'.saved[r] = pregs[r] /\ \A q \in Pm!Registers \ {r} : run'.saved[q] = run.saved[q]
    BY <2>1, <2>3, SmbbRegisters DEF RunShape
  <2> QED
    BY <1>1, <1>5, <2>1, <2>3, <2>4, SmbbRegisters DEF BatteryHere, Quiet, Goes
<1>6. CASE k \in {3, 4, 7, 15, 16, 17}
  <2>1. PICK r : r = IF k \in {3, 16} THEN Ibat ELSE IF k \in {4, 17} THEN Vbat ELSE Vcp
    OBVIOUS
  <2>2. \E v : /\ Goes /\ Only(r, v) /\ run'.saved = run.saved /\ run'.result = run.result
               /\ k \in {16, 17} => v = run.saved[r]
    <3>1. CASE k \in {3, 4, 7, 15}
      <4>1. PICK v : Head(run.prog) = Pm!W(r, v)
        BY <1>2, <1>3, <2>1, <3>1 DEF BatteryOrdered
      <4>2. /\ Goes /\ Pm!RegWrite(r, v, FALSE) /\ run'.saved = run.saved
            /\ run'.result = run.result
        BY <1>3, <4>1, Writes
      <4>3. r \in Pm!Registers \ (Pm!ResetCtl \cup Pm!Secured) /\ r[2] # "SEC_ACCESS"
        BY <2>1, SmbbRegisters
      <4>4. Only(r, v)
        BY <4>2, <4>3, PlainWrite
      <4> QED
        BY <3>1, <4>2, <4>4
    <3>2. CASE k \in {16, 17}
      <4>1. Head(run.prog) = Pm!Restore(r)
        BY <1>2, <1>3, <2>1, <3>2 DEF BatteryOrdered
      <4> QED
        BY <1>3, <2>1, <3>2, <4>1, Restores, PlainWrite, SmbbRegisters
    <3> QED
      BY <1>6, <3>1, <3>2
  <2>3. PICK v : /\ Goes /\ Only(r, v) /\ run'.saved = run.saved /\ run'.result = run.result
                 /\ k \in {16, 17} => v = run.saved[r]
    BY <2>2
  <2>4. CASE k \in {3, 16}
    BY <1>1, <2>1, <2>3, <2>4, SmbbRegisters DEF BatteryHere, Only, Goes
  <2>5. CASE k \in {4, 17}
    BY <1>1, <2>1, <2>3, <2>5, SmbbRegisters DEF BatteryHere, Only, Goes
  <2>6. CASE k \in {7, 15}
    BY <1>1, <2>1, <2>3, <2>6, SmbbRegisters DEF BatteryHere, Only, Goes
  <2> QED
    BY <1>6, <2>4, <2>5, <2>6
<1>7. CASE k \in {5, 8, 13}
  <2>9. Head(run.prog) = Pm!W(Sec, {"UNLOCK"})
    BY <1>2, <1>3, <1>7 DEF BatteryOrdered
  <2>1. /\ Goes /\ Pm!RegWrite(Sec, {"UNLOCK"}, FALSE)
        /\ run'.saved = run.saved /\ run'.result = run.result
    BY <1>3, <2>9, Writes
  <2>2. pregs' = pregs /\ unlocked' = TRUE
    BY <2>1, Unlocks
  <2> QED
    BY <1>1, <1>7, <2>1, <2>2 DEF BatteryHere, Goes
<1>8. CASE k = 6
  <2>9. Head(run.prog) = Pm!W(Comp, {"DIS_VTRKL_FAULT"})
    BY <1>2, <1>3, <1>8 DEF BatteryOrdered
  <2>1. /\ Goes /\ Pm!RegWrite(Comp, {"DIS_VTRKL_FAULT"}, FALSE)
        /\ run'.saved = run.saved /\ run'.result = run.result
    BY <1>3, <2>9, Writes
  <2>2. \A r \in Pm!Registers \ {Comp} : pregs'[r] = pregs[r]
    BY <2>1, OthersKept
  <2> QED
    BY <1>1, <1>8, <2>1, <2>2, SmbbRegisters DEF BatteryHere, Goes
<1>9. CASE k \in {9, 14}
  <2>1. PICK v : v = IF k = 9 THEN {"FORCED_ON"} ELSE {}
    OBVIOUS
  <2>9. Head(run.prog) = Pm!W(Trkl, v)
    BY <1>2, <1>3, <1>9, <2>1 DEF BatteryOrdered
  <2>2. /\ Goes /\ Pm!RegWrite(Trkl, v, FALSE)
        /\ run'.saved = run.saved /\ run'.result = run.result
    BY <1>3, <2>9, Writes
  <2>3. Only(Trkl, v)
    BY <1>1, <1>9, <2>2, SecuredWrite, SmbbRegisters DEF BatteryHere
  <2> QED
    BY <1>1, <1>9, <2>1, <2>2, <2>3, SmbbRegisters DEF BatteryHere, Only, Goes
<1>10. CASE k = 10
  <2>1. Goes /\ pregs' = pregs /\ run'.saved = run.saved
    BY <1>2, <1>3, <1>10, Delays DEF BatteryOrdered
  <2> QED
    BY <1>1, <1>10, <2>1 DEF BatteryHere, Goes
<1>11. CASE k = 11
  <2>1. Goes /\ Quiet /\ run'.acc = pregs[Tsts] /\ run'.saved = run.saved
    BY <1>2, <1>3, <1>11, Reads DEF BatteryOrdered
  <2> QED
    BY <1>1, <1>11, <2>1 DEF BatteryHere, Quiet, Goes
<1>12. CASE k = 12
  <2>1. /\ Goes /\ Quiet /\ run'.saved = run.saved
        /\ run'.result = Pm!Flag(run.acc \cap {"VBAT_DET_HI"} # {})
    BY <1>2, <1>3, <1>12, Tests DEF BatteryOrdered
  <2>2. run.acc \cap {"VBAT_DET_HI"} # {} <=> "VBAT_DET_HI" \in pregs[Tsts]
    BY <1>1, <1>12 DEF BatteryHere
  <2>3. run'.result = Pm!Flag("VBAT_DET_HI" \in pregs'[Tsts])
    BY <2>1, <2>2 DEF Pm!Flag, Quiet
  <2> QED
    BY <1>1, <1>12, <2>1, <2>3 DEF BatteryHere, Quiet, Goes
<1> QED
  BY <1>3, <1>5, <1>6, <1>7, <1>8, <1>9, <1>10, <1>11, <1>12

Trim == <<2, "TRIM_OPTIONS">>
Cfg2 == <<2, "CHGR_CFG2">>
Fcc == <<2, "FCC_CFG">>
Fv == <<2, "FV_CFG">>

\* The charge current is saved, changed and restored; the termination and the
\* poller are switched off and on.
TaperHere(k) ==
  /\ k <= 8 \/ k > 17 => pregs[Fcc] = run.before[Fcc]
  /\ k >= 8 => run.saved[Fcc] = run.before[Fcc]
  /\ k = 16 => "TERM_EN" \in run.acc
  /\ k >= 17 => "TERM_EN" \in pregs[Cfg2]
  /\ k = 20 => "POLLER_EN" \in run.acc
  /\ k = 21 => "POLLER_EN" \in pregs[Trim]
TaperSound ==
  run.call.f = "pmi8994_is_battery_broken" /\ ~run.failed =>
    \E k \in Nat : PmAt(Pm!pmi8994_is_battery_broken, k) /\ TaperHere(k)

TaperOrdered(s) ==
  /\ s[1] = Pm!R(Trim) /\ s[2] = Pm!AndNot({"POLLER_EN"}) /\ s[3] = Pm!Put(Trim)
  /\ s[4] = Pm!R(Cfg2) /\ s[5] = Pm!AndNot({"TERM_EN"}) /\ s[6] = Pm!Put(Cfg2)
  /\ s[7] = Pm!Save(Fcc) /\ s[8] = Pm!W(Fcc, Pm!Num(0)) /\ s[9] = Pm!W(Fv, Pm!Num(63))
  /\ s[10] = Pm!Delay /\ s[11] = Pm!R(<<2, "INT_RT_STS">>) /\ s[12] = Pm!Test({"TAPER"})
  /\ s[13] = Pm!W(Fv, Pm!Num(43))
  /\ s[14] = Pm!R(Cfg2) /\ s[15] = Pm!Or({"TERM_EN"}) /\ s[16] = Pm!Put(Cfg2)
  /\ s[17] = Pm!Restore(Fcc)
  /\ s[18] = Pm!R(Trim) /\ s[19] = Pm!Or({"POLLER_EN"}) /\ s[20] = Pm!Put(Trim)

LEMMA TaperOrder ==
  LET s == Pm!pmi8994_is_battery_broken IN
  (\E S : s \in Seq(S)) /\ Len(s) = 20 /\ TaperOrdered(s)
<1>1. ASSUME NEW S, NEW a \in S, NEW b \in S, NEW d \in S, NEW e \in S, NEW f \in S, NEW g \in S,
             NEW h \in S, NEW i \in S, NEW j \in S, NEW l \in S, NEW m \in S, NEW n \in S,
             NEW o \in S, NEW p \in S, NEW q \in S, NEW r \in S
      PROVE  LET s == <<a, b, d>> \o <<e, f, g>> \o <<h, i, j, l, m, n, o>> \o <<e, p, g>> \o <<q>>
                       \o <<a, r, d>>
             IN  /\ s \in Seq(S) /\ Len(s) = 20
                 /\ s[1] = a /\ s[2] = b /\ s[3] = d /\ s[4] = e /\ s[5] = f /\ s[6] = g
                 /\ s[7] = h /\ s[8] = i /\ s[9] = j /\ s[10] = l /\ s[11] = m /\ s[12] = n
                 /\ s[13] = o /\ s[14] = e /\ s[15] = p /\ s[16] = g /\ s[17] = q
                 /\ s[18] = a /\ s[19] = r /\ s[20] = d
  <2>1. /\ <<a, b, d>> \in Seq(S) /\ <<e, f, g>> \in Seq(S) /\ <<e, p, g>> \in Seq(S)
        /\ <<q>> \in Seq(S) /\ <<a, r, d>> \in Seq(S) /\ <<h, i, j, l, m, n, o>> \in Seq(S)
        /\ Len(<<a, b, d>>) = 3 /\ Len(<<e, f, g>>) = 3 /\ Len(<<e, p, g>>) = 3 /\ Len(<<q>>) = 1
        /\ Len(<<a, r, d>>) = 3 /\ Len(<<h, i, j, l, m, n, o>>) = 7
    OBVIOUS
  <2>2. <<a, b, d>> \o <<e, f, g>> \in Seq(S)
    BY <2>1
  <2>3. PICK t \in Seq(S) : t = <<a, b, d>> \o <<e, f, g>>
    BY <2>2
  <2>4. Len(t) = 6 /\ t[1] = a /\ t[2] = b /\ t[3] = d /\ t[4] = e /\ t[5] = f /\ t[6] = g
    BY <2>1, <2>3
  <2>5. t \o <<h, i, j, l, m, n, o>> \in Seq(S)
    BY <2>1, <2>3
  <2>6. PICK u \in Seq(S) : u = t \o <<h, i, j, l, m, n, o>>
    BY <2>5
  <2>7. /\ Len(u) = 13 /\ (\A x \in 1 .. 6 : u[x] = t[x]) /\ u[7] = h /\ u[8] = i /\ u[9] = j
        /\ u[10] = l /\ u[11] = m /\ u[12] = n /\ u[13] = o
    BY <2>1, <2>3, <2>4, <2>6
  <2>8. u \o <<e, p, g>> \in Seq(S)
    BY <2>1, <2>6
  <2>9. PICK v \in Seq(S) : v = u \o <<e, p, g>>
    BY <2>8
  <2>10. /\ Len(v) = 16 /\ (\A x \in 1 .. 13 : v[x] = u[x]) /\ v[14] = e /\ v[15] = p /\ v[16] = g
    BY <2>1, <2>6, <2>7, <2>9
  <2>11. v \o <<q>> \in Seq(S)
    BY <2>1, <2>9
  <2>12. PICK w \in Seq(S) : w = v \o <<q>>
    BY <2>11
  <2>13. Len(w) = 17 /\ (\A x \in 1 .. 16 : w[x] = v[x]) /\ w[17] = q
    BY <2>1, <2>9, <2>10, <2>12
  <2>14. w \o <<a, r, d>> \in Seq(S)
    BY <2>1, <2>12
  <2>15. PICK s \in Seq(S) : s = w \o <<a, r, d>>
    BY <2>14
  <2>16. Len(s) = 20 /\ (\A x \in 1 .. 17 : s[x] = w[x]) /\ s[18] = a /\ s[19] = r /\ s[20] = d
    <3>1. PICK z \in Seq(S) : z = <<a, r, d>> /\ Len(z) = 3 /\ z[1] = a /\ z[2] = r /\ z[3] = d
      BY <2>1
    <3>2. s = w \o z /\ w \in Seq(S) /\ z \in Seq(S)
      BY <2>12, <2>15, <3>1
    <3>3. /\ Len(s) = Len(w) + Len(z)
          /\ \A x \in 1 .. Len(w) : s[x] = w[x]
          /\ \A x \in 1 .. Len(z) : s[Len(w) + x] = z[x]
      BY ONLY <3>2
    <3>4. Len(w) = 17 /\ s[17 + 1] = z[1] /\ s[17 + 2] = z[2] /\ s[17 + 3] = z[3]
      BY <2>13, <3>1, <3>3
    <3> QED
      BY <3>1, <3>3, <3>4
  <2>17. s = <<a, b, d>> \o <<e, f, g>> \o <<h, i, j, l, m, n, o>> \o <<e, p, g>> \o <<q>>
             \o <<a, r, d>>
    BY <2>3, <2>6, <2>9, <2>12, <2>15
  <2>18. /\ s[1] = a /\ s[2] = b /\ s[3] = d /\ s[4] = e /\ s[5] = f /\ s[6] = g
         /\ s[7] = h /\ s[8] = i /\ s[9] = j /\ s[10] = l /\ s[11] = m /\ s[12] = n
         /\ s[13] = o /\ s[14] = e /\ s[15] = p /\ s[16] = g /\ s[17] = q
    BY <2>4, <2>7, <2>10, <2>13, <2>16
  <2> QED
    BY <2>15, <2>16, <2>17, <2>18
<1> DEFINE s == Pm!pmi8994_is_battery_broken
           a == Pm!R(Trim)
           b == Pm!AndNot({"POLLER_EN"})
           d == Pm!Put(Trim)
           e == Pm!R(Cfg2)
           f == Pm!AndNot({"TERM_EN"})
           g == Pm!Put(Cfg2)
           h == Pm!Save(Fcc)
           i == Pm!W(Fcc, Pm!Num(0))
           j == Pm!W(Fv, Pm!Num(63))
           l == Pm!Delay
           m == Pm!R(<<2, "INT_RT_STS">>)
           n == Pm!Test({"TAPER"})
           o == Pm!W(Fv, Pm!Num(43))
           p == Pm!Or({"TERM_EN"})
           q == Pm!Restore(Fcc)
           r == Pm!Or({"POLLER_EN"})
           S == {a, b, d, e, f, g, h, i, j, l, m, n, o, p, q, r}
<1>2. s = <<a, b, d>> \o <<e, f, g>> \o <<h, i, j, l, m, n, o>> \o <<e, p, g>> \o <<q>>
          \o <<a, r, d>>
  BY DEF Pm!pmi8994_is_battery_broken, Pm!ClearBits, Pm!SetBits, Trim, Cfg2, Fcc, Fv
<1>3. /\ a \in S /\ b \in S /\ d \in S /\ e \in S /\ f \in S /\ g \in S /\ h \in S /\ i \in S
      /\ j \in S /\ l \in S /\ m \in S /\ n \in S /\ o \in S /\ p \in S /\ q \in S /\ r \in S
  OBVIOUS
<1> HIDE DEF s, S, a, b, d, e, f, g, h, i, j, l, m, n, o, p, q, r
<1>4. /\ s \in Seq(S) /\ Len(s) = 20
      /\ s[1] = a /\ s[2] = b /\ s[3] = d /\ s[4] = e /\ s[5] = f /\ s[6] = g
      /\ s[7] = h /\ s[8] = i /\ s[9] = j /\ s[10] = l /\ s[11] = m /\ s[12] = n
      /\ s[13] = o /\ s[14] = e /\ s[15] = p /\ s[16] = g /\ s[17] = q
      /\ s[18] = a /\ s[19] = r /\ s[20] = d
  BY <1>1, <1>2, <1>3
<1>5. TaperOrdered(s)
  BY <1>4 DEF TaperOrdered, a, b, d, e, f, g, h, i, j, l, m, n, o, p, q, r
<1> QED
  BY <1>4, <1>5 DEF s

LEMMA TaperStarts ==
  ASSUME Resting, RunShape, NEW c \in Calls, Pm!Start(c)
  PROVE  TaperSound'
<1>1. /\ run'.call = c /\ run'.prog = Pm!Program(c) /\ run'.before = pregs /\ pregs' = pregs
  BY CallStarts
<1> SUFFICES ASSUME c.f = "pmi8994_is_battery_broken" PROVE TaperSound'
  BY <1>1 DEF TaperSound
<1>2. Pm!Program(c) = Pm!pmi8994_is_battery_broken
  BY DEF Pm!Program
<1>3. PICK S : Pm!pmi8994_is_battery_broken \in Seq(S)
  BY TaperOrder
<1>4. PmAt(Pm!pmi8994_is_battery_broken, 1)'
  BY <1>1, <1>2, <1>3, ProgramStarts
<1>5. TaperHere(1)'
  BY <1>1 DEF TaperHere
<1> QED
  BY <1>4, <1>5 DEF TaperSound

LEMMA TaperRegisters ==
  /\ {Trim, Cfg2, Fcc, Fv} \subseteq Pm!Registers \ (Pm!ResetCtl \cup Pm!Secured)
  /\ \A r \in {Trim, Cfg2, Fcc, Fv} : r[2] # "SEC_ACCESS"
  /\ Trim # Cfg2 /\ Trim # Fcc /\ Trim # Fv /\ Cfg2 # Fcc /\ Cfg2 # Fv /\ Fcc # Fv
BY DEF Trim, Cfg2, Fcc, Fv, Pm!Smbb, Pm!Pon, Pm!Registers, Pm!ResetCtl, Pm!Secured

LEMMA TaperStep ==
  ASSUME RunShape, TaperSound, Pm!PmicStep, run.call.f = "pmi8994_is_battery_broken"
  PROVE  TaperSound'
<1> SUFFICES ASSUME ~run'.failed PROVE TaperSound'
  BY DEF TaperSound
<1> DEFINE s == Pm!pmi8994_is_battery_broken
<1>1. PICK k \in Nat : PmAt(s, k) /\ TaperHere(k)
  BY ShapeKept DEF TaperSound
<1>2. (\E S : s \in Seq(S)) /\ Len(s) = 20 /\ TaperOrdered(s)
  BY TaperOrder
<1> HIDE DEF s
<1>3. /\ Runs /\ k \in 1 .. 20 /\ Head(run.prog) = s[k]
      /\ Goes => PmAt(s, k + 1)'
  BY <1>1, <1>2, Placed
<1>4. SUFFICES Goes /\ TaperHere(k + 1)'
  BY <1>3 DEF TaperSound, s
\* Reads, delays and computations write nothing.
<1>5. CASE k \in {1, 4, 11, 14, 18}
  <2>1. PICK r : Head(run.prog) = Pm!R(r)
    BY <1>2, <1>3, <1>5 DEF TaperOrdered
  <2>2. Goes /\ Quiet /\ run'.saved = run.saved
    BY <1>3, <2>1, Reads
  <2> QED
    BY <1>1, <1>5, <2>2 DEF TaperHere, Quiet, Goes
<1>6. CASE k \in {2, 5}
  <2>1. PICK bits : Head(run.prog) = Pm!AndNot(bits)
    BY <1>2, <1>3, <1>6 DEF TaperOrdered
  <2>2. Goes /\ Quiet /\ run'.saved = run.saved
    BY <1>3, <2>1, AndNots
  <2> QED
    BY <1>1, <1>6, <2>2 DEF TaperHere, Quiet, Goes
<1>7. CASE k \in {15, 19}
  <2>1. PICK bit : bit = IF k = 15 THEN "TERM_EN" ELSE "POLLER_EN"
    OBVIOUS
  <2>2. Head(run.prog) = Pm!Or({bit})
    BY <1>2, <1>3, <1>7, <2>1 DEF TaperOrdered
  <2>3. Goes /\ Quiet /\ run'.saved = run.saved /\ run'.acc = run.acc \cup {bit}
    BY <1>3, <2>2, Ors
  <2> QED
    BY <1>1, <1>7, <2>1, <2>3 DEF TaperHere, Quiet, Goes
<1>8. CASE k = 12
  <2>1. Head(run.prog) = Pm!Test({"TAPER"})
    BY <1>2, <1>3, <1>8 DEF TaperOrdered
  <2>2. Goes /\ Quiet /\ run'.saved = run.saved
    BY <1>3, <2>1, Tests
  <2> QED
    BY <1>1, <1>8, <2>2 DEF TaperHere, Quiet, Goes
<1>9. CASE k = 10
  <2>1. Head(run.prog) = Pm!Delay
    BY <1>2, <1>3, <1>9 DEF TaperOrdered
  <2>2. Goes /\ pregs' = pregs /\ run'.saved = run.saved
    BY <1>3, <2>1, Delays
  <2> QED
    BY <1>1, <1>9, <2>2 DEF TaperHere, Goes
<1>10. CASE k = 7
  <2>1. Head(run.prog) = Pm!Save(Fcc)
    BY <1>2, <1>3, <1>10 DEF TaperOrdered
  <2>2. Goes /\ Quiet /\ run'.saved = [run.saved EXCEPT ![Fcc] = pregs[Fcc]]
    BY <1>3, <2>1, Saves
  <2>3. run'.saved[Fcc] = pregs[Fcc]
    BY <2>2, TaperRegisters DEF RunShape
  <2> QED
    BY <1>1, <1>10, <2>2, <2>3 DEF TaperHere, Quiet, Goes
<1>11. CASE k \in {3, 6, 16, 20}
  <2>1. PICK r : r = IF k \in {3, 20} THEN Trim ELSE Cfg2
    OBVIOUS
  <2>2. Head(run.prog) = Pm!Put(r)
    BY <1>2, <1>3, <1>11, <2>1 DEF TaperOrdered
  <2>3. Goes /\ Pm!RegWrite(r, run.acc, FALSE) /\ run'.saved = run.saved
    BY <1>3, <2>2, Puts
  <2>4. r \in Pm!Registers \ (Pm!ResetCtl \cup Pm!Secured) /\ r[2] # "SEC_ACCESS"
    BY <2>1, TaperRegisters
  <2>5. Only(r, run.acc)
    BY <2>3, <2>4, PlainWrite
  <2> QED
    BY <1>1, <1>11, <2>1, <2>3, <2>5, TaperRegisters DEF TaperHere, Only, Goes
<1>12. CASE k \in {8, 9, 13}
  <2>1. PICK r, v : Head(run.prog) = Pm!W(r, v) /\ r = IF k = 8 THEN Fcc ELSE Fv
    BY <1>2, <1>3, <1>12 DEF TaperOrdered
  <2>2. Goes /\ Pm!RegWrite(r, v, FALSE) /\ run'.saved = run.saved
    BY <1>3, <2>1, Writes
  <2>3. \A q \in Pm!Registers \ {r} : pregs'[q] = pregs[q]
    BY <2>2, OthersKept
  <2> QED
    BY <1>1, <1>12, <2>1, <2>2, <2>3, TaperRegisters DEF TaperHere, Goes
<1>13. CASE k = 17
  <2>1. Head(run.prog) = Pm!Restore(Fcc)
    BY <1>2, <1>3, <1>13 DEF TaperOrdered
  <2>2. Goes /\ Pm!RegWrite(Fcc, run.saved[Fcc], FALSE) /\ run'.saved = run.saved
    BY <1>3, <2>1, Restores
  <2>3. Only(Fcc, run.saved[Fcc])
    BY <2>2, PlainWrite, TaperRegisters
  <2> QED
    BY <1>1, <1>13, <2>2, <2>3, TaperRegisters DEF TaperHere, Only, Goes
<1> QED
  BY <1>3, <1>5, <1>6, <1>7, <1>8, <1>9, <1>10, <1>11, <1>12, <1>13

-----------------------------------------------------------------------------
(* Pmic: pm8x41_adc_channel_read.                                           *)

ChanSel == Pm!Smbb("VADC_CHAN_SEL")
Sample == [op |-> "sample"]
Conv == Pm!Poll(Pm!Smbb("VADC_STATUS"), {"EOC"})

LEMMA Polls ==
  ASSUME Runs, Head(run.prog) = Conv
  PROVE  Goes /\ UNCHANGED <<pregs, run.acc, run.saved, run.vars, run.result>>
<1>1. Head(run.prog).op = "poll"
  BY DEF Conv, Pm!Poll
<1>2. ~Pm!Compute /\ ~(\E lost \in BOOLEAN : Pm!Command(lost))
  BY <1>1 DEF Pm!Compute, Pm!Command
<1>3. pregs' = pregs /\ run' = [run EXCEPT !.prog = Tail(@)]
  BY <1>1, <1>2, NoSecondCall DEF Pm!Wait, Pm!Next
<1>4. /\ run' = [run EXCEPT !.prog = Tail(run.prog), !.failed = run'.failed, !.acc = run'.acc,
                            !.saved = run'.saved, !.vars = run'.vars, !.result = run'.result]
      /\ UNCHANGED <<run.failed, run.acc, run.saved, run.vars, run.result>>
  BY <1>3 DEF Runs, RunShape
<1>5. pregs' = [r \in Pm!Registers |-> pregs'[r]]
  BY <1>3 DEF Runs, RunShape
<1>6. Goes
  BY <1>4, <1>5, StepShape DEF Runs, RunShape
<1> QED
  BY <1>3, <1>4, <1>6

LEMMA Samples ==
  ASSUME Runs, Head(run.prog) = Sample, NEW chan, pregs[ChanSel] = Pm!Num(chan)
  PROVE  /\ Goes /\ Quiet
         /\ run'.vars = Append(run.vars, Pm!adc_limit_result_range(Codes[chan]))
<1>1. Head(run.prog).op = "sample"
  BY DEF Sample
<1>2. PICK lost \in BOOLEAN : Pm!Command(lost)
  BY <1>1, ByCommand DEF Commands
<1>3. PICK f \in BOOLEAN : f = (run.failed \/ lost) /\ (run.failed => f) /\ (f = FALSE => lost = FALSE)
  BY Loss DEF Runs
<1>4. PICK v : v = Pm!adc_limit_result_range(IF lost \/ pregs[ChanSel] = {} THEN 0
                                             ELSE Codes[Pm!Number(ChanSel)])
  OBVIOUS
<1>5. /\ Quiet
      /\ run' = [[[run EXCEPT !.failed = f] EXCEPT !.vars = Append(@, v)] EXCEPT !.prog = Tail(@)]
  BY <1>1, <1>2, <1>3, <1>4 DEF Pm!Command, Pm!Next, Pm!Losing, Quiet, ChanSel
<1>6. /\ run' = [run EXCEPT !.prog = Tail(run.prog), !.failed = run'.failed, !.acc = run'.acc,
                            !.saved = run'.saved, !.vars = run'.vars, !.result = run'.result]
      /\ run'.failed = f /\ run'.vars = Append(run.vars, v) /\ run'.saved = run.saved
  BY <1>5 DEF Runs, RunShape
<1>7. pregs' = [r \in Pm!Registers |-> pregs'[r]] /\ run'.saved = [r \in Pm!Registers |-> run'.saved[r]]
  BY <1>5, <1>6 DEF Runs, RunShape, Quiet
<1>8. Goes
  BY <1>3, <1>6, <1>7, StepShape
<1>9. lost = FALSE
  BY <1>3, <1>6 DEF Runs
<1>10. Pm!Number(ChanSel) = chan /\ pregs[ChanSel] # {}
  BY NumberOf DEF Pm!Num
<1> QED
  BY <1>4, <1>5, <1>6, <1>8, <1>9, <1>10

Calibrate(calib) == [op |-> "calibrate", calib |-> calib]
LEMMA Calibrates ==
  ASSUME Runs, NEW calib, Head(run.prog) = Calibrate(calib)
  PROVE  /\ Goes /\ Quiet /\ run'.vars = run.vars
         /\ run'.result = Pm!vadc_calibrate(run.vars[1], calib, run.vars[2], run.vars[3])
<1>1. Head(run.prog).op = "calibrate" /\ Head(run.prog).calib = calib
  BY DEF Calibrate
<1>2. ~Pm!Wait /\ ~(\E lost \in BOOLEAN : Pm!Command(lost))
  BY <1>1 DEF Pm!Wait, Pm!Command
<1> DEFINE v == Pm!vadc_calibrate(run.vars[1], calib, run.vars[2], run.vars[3])
<1>3. Quiet /\ run' = [[run EXCEPT !.result = v] EXCEPT !.prog = Tail(@)]
  BY <1>1, <1>2, NoSecondCall DEF Pm!Compute, Pm!Next, Quiet
<1> HIDE DEF v
<1>4. /\ run' = [run EXCEPT !.prog = Tail(run.prog), !.failed = run'.failed, !.acc = run'.acc,
                            !.saved = run'.saved, !.vars = run'.vars, !.result = run'.result]
      /\ run'.result = v
      /\ UNCHANGED <<run.failed, run.saved, run.vars, run.acc>>
  BY <1>3 DEF Runs, RunShape
<1>5. pregs' = [r \in Pm!Registers |-> pregs'[r]]
  BY <1>3 DEF Runs, RunShape, Quiet
<1>6. Goes
  BY <1>4, <1>5, StepShape DEF Runs, RunShape
<1> QED
  BY <1>3, <1>4, <1>6 DEF v

(* The order of the steps *)

AdcConfigured(s, at0, chan) ==
  /\ s[at0 + 1] = Pm!W(Pm!Smbb("VADC_MODE"), Pm!Num(0)) /\ s[at0 + 2] = Pm!W(ChanSel, Pm!Num(chan))
  /\ s[at0 + 3] = Pm!W(Pm!Smbb("VADC_EN"), {"EN"})
  /\ s[at0 + 4] = Pm!W(Pm!Smbb("VADC_CONV_REQ"), {"REQ"}) /\ s[at0 + 5] = Conv
  /\ s[at0 + 6] = Sample /\ s[at0 + 7] = Pm!W(Pm!Smbb("VADC_EN"), {"LOW_BITS"})

LEMMA ConfigureOrder ==
  ASSUME NEW chan
  PROVE  LET s == Pm!adc_configure(chan) IN
         \E S : s \in Seq(S) /\ Len(s) = 7 /\ AdcConfigured(s, 0, chan)
<1>1. ASSUME NEW S, NEW a \in S, NEW b \in S, NEW d \in S, NEW e \in S, NEW f \in S, NEW g \in S,
             NEW h \in S
      PROVE  LET s == <<a, b, d>> \o <<e, f, g>> \o <<h>> IN
             /\ s \in Seq(S) /\ Len(s) = 7 /\ s[1] = a /\ s[2] = b /\ s[3] = d /\ s[4] = e
             /\ s[5] = f /\ s[6] = g /\ s[7] = h
  <2>1. /\ <<a, b, d>> \in Seq(S) /\ <<e, f, g>> \in Seq(S) /\ <<h>> \in Seq(S)
        /\ Len(<<a, b, d>>) = 3 /\ Len(<<e, f, g>>) = 3 /\ Len(<<h>>) = 1
    OBVIOUS
  <2>2. <<a, b, d>> \o <<e, f, g>> \in Seq(S)
    BY <2>1
  <2>3. PICK t \in Seq(S) : t = <<a, b, d>> \o <<e, f, g>>
    BY <2>2
  <2>4. Len(t) = 6 /\ t[1] = a /\ t[2] = b /\ t[3] = d /\ t[4] = e /\ t[5] = f /\ t[6] = g
    BY <2>1, <2>3
  <2> QED
    BY <2>1, <2>3, <2>4
<1> DEFINE a == Pm!W(Pm!Smbb("VADC_MODE"), Pm!Num(0))
           b == Pm!W(ChanSel, Pm!Num(chan))
           d == Pm!W(Pm!Smbb("VADC_EN"), {"EN"})
           e == Pm!W(Pm!Smbb("VADC_CONV_REQ"), {"REQ"})
           h == Pm!W(Pm!Smbb("VADC_EN"), {"LOW_BITS"})
           S == {a, b, d, e, Conv, Sample, h}
           s == Pm!adc_configure(chan)
<1>2. s = <<a, b, d>> \o <<e, Conv, Sample>> \o <<h>>
  BY DEF Pm!adc_configure, Pm!adc_measure, ChanSel, Conv, Sample
<1>3. a \in S /\ b \in S /\ d \in S /\ e \in S /\ Conv \in S /\ Sample \in S /\ h \in S
  OBVIOUS
<1> HIDE DEF S, a, b, d, e, h, s
<1>4. /\ s \in Seq(S) /\ Len(s) = 7 /\ s[1] = a /\ s[2] = b /\ s[3] = d /\ s[4] = e
      /\ s[5] = Conv /\ s[6] = Sample /\ s[7] = h
  BY <1>1, <1>2, <1>3
<1>5. AdcConfigured(s, 0, chan)
  BY <1>4 DEF AdcConfigured, a, b, d, e, h
<1> QED
  BY <1>4, <1>5 DEF s

AdcConf(c) == Pm!get_channel_prop(c.chan)
AdcChan(c, i) == CASE i = 1 -> AdcConf(c).chan [] i = 2 -> Pm!ReferenceChannels(AdcConf(c).calib)[1]
                   [] i = 3 -> Pm!ReferenceChannels(AdcConf(c).calib)[2]
AdcSteps(c) == Pm!pm8x41_adc_channel_read(c.chan)

LEMMA Concatenated ==
  ASSUME NEW S, NEW x \in Seq(S), NEW y \in Seq(S)
  PROVE  /\ x \o y \in Seq(S) /\ Len(x \o y) = Len(x) + Len(y)
         /\ \A i \in 1 .. Len(x) : (x \o y)[i] = x[i]
         /\ \A i \in 1 .. Len(y) : (x \o y)[Len(x) + i] = y[i]
OBVIOUS

LEMMA Joined ==
  ASSUME NEW S, NEW x \in Seq(S), NEW y \in Seq(S), Len(y) = 7
  PROVE  LET s == x \o y
             m == Len(x) IN
         /\ s \in Seq(S) /\ Len(s) = m + 7 /\ \A i \in 1 .. m : s[i] = x[i]
         /\ s[m + 1] = y[1] /\ s[m + 2] = y[2] /\ s[m + 3] = y[3] /\ s[m + 4] = y[4]
         /\ s[m + 5] = y[5] /\ s[m + 6] = y[6] /\ s[m + 7] = y[7]
<1> DEFINE s == x \o y
           m == Len(x)
<1>1. s \in Seq(S) /\ Len(s) = m + Len(y) /\ (\A i \in 1 .. m : s[i] = x[i])
      /\ \A i \in 1 .. Len(y) : s[m + i] = y[i]
  <2>1. x \in Seq(S) /\ y \in Seq(S)
    OBVIOUS
  <2> QED
    BY ONLY <2>1, Concatenated DEF s, m
<1> HIDE DEF s, m
<1>2. ASSUME NEW i \in 1 .. 7 PROVE s[m + i] = y[i]
  BY <1>1
<1>4. /\ s[m + 1] = y[1] /\ s[m + 2] = y[2] /\ s[m + 3] = y[3] /\ s[m + 4] = y[4]
      /\ s[m + 5] = y[5] /\ s[m + 6] = y[6] /\ s[m + 7] = y[7]
  BY ONLY <1>2
<1> QED
  BY <1>1, <1>4 DEF s, m

LEMMA AdcOrder ==
  ASSUME NEW c
  PROVE  LET s == AdcSteps(c) IN
         /\ \E S : s \in Seq(S)
         /\ Len(s) = 22
         /\ AdcConfigured(s, 0, AdcChan(c, 1)) /\ AdcConfigured(s, 7, AdcChan(c, 2))
         /\ AdcConfigured(s, 14, AdcChan(c, 3)) /\ s[22] = Calibrate(AdcConf(c).calib)
<1>1. PICK a, A : /\ a = Pm!adc_configure(AdcChan(c, 1)) /\ a \in Seq(A) /\ Len(a) = 7
                  /\ AdcConfigured(a, 0, AdcChan(c, 1))
  BY ConfigureOrder
<1>2. PICK b, B : /\ b = Pm!adc_configure(AdcChan(c, 2)) /\ b \in Seq(B) /\ Len(b) = 7
                  /\ AdcConfigured(b, 0, AdcChan(c, 2))
  BY ConfigureOrder
<1>3. PICK d, D : /\ d = Pm!adc_configure(AdcChan(c, 3)) /\ d \in Seq(D) /\ Len(d) = 7
                  /\ AdcConfigured(d, 0, AdcChan(c, 3))
  BY ConfigureOrder
<1> DEFINE e == Calibrate(AdcConf(c).calib)
           S == A \cup B \cup D \cup {e}
<1>0. /\ AdcChan(c, 1) = AdcConf(c).chan /\ AdcChan(c, 2) = Pm!ReferenceChannels(AdcConf(c).calib)[1]
      /\ AdcChan(c, 3) = Pm!ReferenceChannels(AdcConf(c).calib)[2]
  BY DEF AdcChan
<1>4. AdcSteps(c) = a \o b \o d \o <<e>>
  <2>1. AdcSteps(c) = Pm!adc_configure(AdcConf(c).chan)
                      \o Pm!adc_configure(Pm!ReferenceChannels(AdcConf(c).calib)[1])
                      \o Pm!adc_configure(Pm!ReferenceChannels(AdcConf(c).calib)[2]) \o <<e>>
    BY DEF AdcSteps, Pm!pm8x41_adc_channel_read, AdcConf, Calibrate
  <2> QED
    BY ONLY <1>0, <1>1, <1>2, <1>3, <2>1
<1> HIDE DEF e
<1>5. a \in Seq(S) /\ b \in Seq(S) /\ d \in Seq(S) /\ <<e>> \in Seq(S) /\ Len(<<e>>) = 1 /\ <<e>>[1] = e
  BY <1>1, <1>2, <1>3
<1> HIDE DEF S
<1>6. PICK t \in Seq(S) : t = a \o b
  BY ONLY <1>5, Concatenated
<1>7. /\ Len(t) = 14 /\ (\A i \in 1 .. 7 : t[i] = a[i]) /\ t[7 + 1] = b[1] /\ t[7 + 2] = b[2]
      /\ t[7 + 3] = b[3] /\ t[7 + 4] = b[4] /\ t[7 + 5] = b[5] /\ t[7 + 6] = b[6]
      /\ t[7 + 7] = b[7]
  <2>1. Len(a) = 7 /\ Len(b) = 7 /\ 7 + 7 = 14
    BY ONLY <1>1, <1>2
  <2> QED
    BY ONLY <1>5, <1>6, <2>1, Joined
<1>8. PICK u \in Seq(S) : u = t \o d
  BY ONLY <1>5, <1>6, Concatenated
<1>9. /\ Len(u) = 21 /\ (\A i \in 1 .. 14 : u[i] = t[i]) /\ u[14 + 1] = d[1] /\ u[14 + 2] = d[2]
      /\ u[14 + 3] = d[3] /\ u[14 + 4] = d[4] /\ u[14 + 5] = d[5] /\ u[14 + 6] = d[6]
      /\ u[14 + 7] = d[7]
  <2>1. Len(t) = 14 /\ Len(d) = 7 /\ 14 + 7 = 21
    BY ONLY <1>3, <1>7
  <2> QED
    <3>1. /\ Len(u) = Len(t) + 7 /\ (\A i \in 1 .. Len(t) : u[i] = t[i]) /\ u[Len(t) + 1] = d[1]
          /\ u[Len(t) + 2] = d[2] /\ u[Len(t) + 3] = d[3] /\ u[Len(t) + 4] = d[4]
          /\ u[Len(t) + 5] = d[5] /\ u[Len(t) + 6] = d[6] /\ u[Len(t) + 7] = d[7]
      <4>1. t \in Seq(S) /\ d \in Seq(S) /\ Len(d) = 7
        BY <1>5, <1>6, <2>1
      <4> QED
        BY ONLY <1>8, <4>1, Joined
    <3> QED
      BY ONLY <2>1, <3>1
<1>10. PICK s \in Seq(S) : s = u \o <<e>>
  BY ONLY <1>5, <1>8, Concatenated
<1>15. Len(s) = 22 /\ (\A i \in 1 .. 21 : s[i] = u[i]) /\ s[22] = e
  <2>1. /\ Len(s) = Len(u) + Len(<<e>>) /\ (\A i \in 1 .. Len(u) : s[i] = u[i])
        /\ \A i \in 1 .. Len(<<e>>) : s[Len(u) + i] = <<e>>[i]
    BY ONLY <1>5, <1>8, <1>10, Concatenated
  <2>2. Len(u) = 21 /\ Len(<<e>>) = 1 /\ <<e>>[1] = e /\ 21 + 1 = 22 /\ 1 \in 1 .. 1
    BY ONLY <1>5, <1>9
  <2> QED
    BY ONLY <2>1, <2>2
<1>16. /\ s[1] = a[1] /\ s[2] = a[2] /\ s[3] = a[3] /\ s[4] = a[4] /\ s[5] = a[5] /\ s[6] = a[6]
       /\ s[7] = a[7]
  BY ONLY <1>7, <1>9, <1>15
<1>17. /\ s[7 + 1] = t[7 + 1] /\ s[7 + 2] = t[7 + 2] /\ s[7 + 3] = t[7 + 3] /\ s[7 + 4] = t[7 + 4]
       /\ s[7 + 5] = t[7 + 5] /\ s[7 + 6] = t[7 + 6] /\ s[7 + 7] = t[7 + 7]
  BY ONLY <1>9, <1>15
<1>18. /\ s[14 + 1] = u[14 + 1] /\ s[14 + 2] = u[14 + 2] /\ s[14 + 3] = u[14 + 3]
       /\ s[14 + 4] = u[14 + 4] /\ s[14 + 5] = u[14 + 5] /\ s[14 + 6] = u[14 + 6]
       /\ s[14 + 7] = u[14 + 7]
  BY ONLY <1>15
<1>11. AdcConfigured(s, 0, AdcChan(c, 1))
  <2>1. AdcConfigured(a, 0, AdcChan(c, 1))
    BY <1>1
  <2> QED
    BY ONLY <1>16, <2>1 DEF AdcConfigured
<1>12. AdcConfigured(s, 7, AdcChan(c, 2))
  BY ONLY <1>2, <1>7, <1>17 DEF AdcConfigured
<1>13. AdcConfigured(s, 14, AdcChan(c, 3))
  BY ONLY <1>3, <1>9, <1>18 DEF AdcConfigured
<1>14. s = AdcSteps(c)
  BY ONLY <1>4, <1>6, <1>8, <1>10
<1> QED
  BY ONLY <1>10, <1>15, <1>11, <1>12, <1>13, <1>14 DEF e

(* The channels and their references *)

AdcCodes == Pm!Channels \cup {9, 10, 14, 15}

LEMMA ChannelInTable ==
  ASSUME NEW ch
  PROVE  /\ Pm!get_channel_prop(ch) \in {[chan |-> 49, calib |-> "RATIO"], [chan |-> 6, calib |-> "ABS"],
                                         [chan |-> 39, calib |-> "ABS"]}
         /\ ch \in Pm!Channels => Pm!get_channel_prop(ch).chan = ch
<1> DEFINE Of == {i \in 1 .. 3 : Pm!adc_data[i].chan = ch}
           first == CHOOSE i \in Of : \A j \in Of : i <= j
<1>1. /\ Pm!adc_data[1] = [chan |-> 49, calib |-> "RATIO"] /\ Pm!adc_data[2] = [chan |-> 6, calib |-> "ABS"]
      /\ Pm!adc_data[3] = [chan |-> 39, calib |-> "ABS"]
  BY DEF Pm!adc_data
<1>2. Pm!get_channel_prop(ch) = Pm!adc_data[IF Of = {} THEN 3 ELSE first]
  BY DEF Pm!get_channel_prop
<1>3. ASSUME Of # {} PROVE first \in Of
  <2>1. \E i \in Of : \A j \in Of : i <= j
    <3>1. \A i \in Of : i \in 1 .. 3
      OBVIOUS
    <3> HIDE DEF Of
    <3>2. CASE 1 \in Of
      BY <3>1, <3>2
    <3>3. CASE 1 \notin Of /\ 2 \in Of
      BY <3>1, <3>3
    <3>4. CASE 1 \notin Of /\ 2 \notin Of
      BY <1>3, <3>1, <3>4
    <3> QED
      BY <3>2, <3>3, <3>4
  <2> HIDE DEF Of
  <2> QED
    BY <2>1
<1>4. ch \in Pm!Channels => Of # {}
  BY DEF Pm!Channels
<1>5. PICK n : n = IF Of = {} THEN 3 ELSE first
  OBVIOUS
<1>6. n \in 1 .. 3 /\ (Of # {} => n \in Of)
  <2>1. Of \subseteq 1 .. 3
    OBVIOUS
  <2> HIDE DEF Of, first
  <2> QED
    <3>1. CASE Of = {}
      BY <1>5, <3>1
    <3>2. CASE Of # {}
      <4>1. n = first /\ first \in Of
        BY <1>3, <1>5, <3>2
      <4> QED
        BY <2>1, <4>1
    <3> QED
      BY <3>1, <3>2
<1>7. n \in Of => Pm!adc_data[n].chan = ch
  OBVIOUS
<1> HIDE DEF Of, first
<1>8. Pm!get_channel_prop(ch) = Pm!adc_data[n]
  BY <1>2, <1>5
<1> QED
  BY <1>1, <1>4, <1>6, <1>7, <1>8

LEMMA AdcChannels ==
  ASSUME NEW c, NEW i \in 1 .. 3
  PROVE  AdcChan(c, i) \in AdcCodes
<1>1. AdcConf(c) \in {[chan |-> 49, calib |-> "RATIO"], [chan |-> 6, calib |-> "ABS"],
                      [chan |-> 39, calib |-> "ABS"]}
  BY ChannelInTable DEF AdcConf
<1>2. {49, 6, 39} \subseteq Pm!Channels
  <2>1. /\ Pm!adc_data[1].chan = 49 /\ Pm!adc_data[2].chan = 6 /\ Pm!adc_data[3].chan = 39
        /\ 1 \in 1 .. 3 /\ 2 \in 1 .. 3 /\ 3 \in 1 .. 3
    BY DEF Pm!adc_data
  <2> QED
    BY <2>1 DEF Pm!Channels
<1>3. /\ Pm!ReferenceChannels(AdcConf(c).calib)[1] \in {10, 15}
      /\ Pm!ReferenceChannels(AdcConf(c).calib)[2] \in {9, 14}
  BY DEF Pm!ReferenceChannels
<1>4. AdcConf(c).chan \in Pm!Channels
  BY <1>1, <1>2
<1>5. i = 1 \/ i = 2 \/ i = 3
  OBVIOUS
<1> QED
  BY <1>3, <1>4, <1>5 DEF AdcChan, AdcCodes

LEMMA CodesRead ==
  ASSUME NEW chan \in AdcCodes
  PROVE  Codes[chan] \in Int /\ Pm!adc_limit_result_range(Codes[chan]) = Codes[chan]
BY PlatformAssumption DEF AdcCodes, Pm!CodesAssumption

LEMMA Cancelled ==
  ASSUME NEW a \in Int, NEW b \in Int, NEW d \in Nat, d > 0, d * a <= d * b
  PROVE  a <= b
<1> SUFFICES ASSUME a > b PROVE FALSE
  OBVIOUS
<1>1. PICK e \in Nat : a = b + 1 + e
  <2>1. a - b - 1 \in Nat /\ a = b + 1 + (a - b - 1)
    OBVIOUS
  <2> QED
    BY <2>1
<1>2. d * (b + 1 + e) = d * b + d + d * e
  BY SMT
<1>3. d * e >= 0
  BY SMT
<1>4. d * b \in Int /\ d * e \in Int
  OBVIOUS
<1> QED
  BY <1>1, <1>2, <1>3, <1>4

\* The gain of the converter is rounded before it is used.
LEMMA GainRounds ==
  ASSUME NEW y \in Nat, NEW d \in Nat, d > 0, NEW q \in Int, NEW p \in Int,
         NEW r \in 0 .. d - 1, NEW s \in 0 .. d - 1, NEW g \in Int, d * q = 100 * g - r, d * p = y * g - s
  PROVE  -y <= y * q - 100 * p /\ y * q - 100 * p <= 100
<1> DEFINE z == y * q - 100 * p
<1>1. d * z = y * (d * q) - 100 * (d * p)
  BY SMT
<1>2. y * (d * q) = 100 * (y * g) - y * r
  BY SMT
<1>3. d * z = 100 * s - y * r
  BY <1>1, <1>2, SMT
<1>4. y * r >= 0 /\ y * r <= d * y
  BY SMT
<1>5. d * (-y) = -(d * y) /\ d * 100 = 100 * d
  BY SMT
<1>6. z \in Int /\ y * r \in Int /\ d * y \in Int /\ d * z \in Int
  OBVIOUS
<1> HIDE DEF z
<1>7. d * (-y) <= d * z /\ d * z <= d * 100
  BY <1>3, <1>4, <1>5, <1>6
<1>8. -y <= z
  BY <1>6, <1>7, Cancelled
<1>9. z <= 100
  BY <1>6, <1>7, Cancelled
<1> QED
  BY <1>8, <1>9 DEF z

\* The quotient and the rest of a number that may be large.
LEMMA Divided ==
  ASSUME NEW n \in Nat, NEW d \in Nat, d > 0
  PROVE  /\ n \div d \in Int
         /\ \E r \in 0 .. d - 1 : d * (n \div d) = n - r
<1>1. n \div d \in Nat /\ n - d * (n \div d) \in 0 .. d - 1
  BY WithinAStep
<1>2. d * (n \div d) = n - (n - d * (n \div d))
  BY <1>1, SMT
<1> QED
  BY <1>1, <1>2

Gap == 625000

LEMMA ReadingExact ==
  ASSUME NEW x \in Int, NEW h \in Int, NEW l \in Int, l < h, l <= x
  PROVE  Pm!Abs(Pm!vadc_calibrate(x, "ABS", h, l) - 3 * Pm!Ideal(x, h, l, Gap, Gap))
             <= 3 * (x - l + 100)
<1>1. PICK y \in Nat, d \in Nat : y = x - l /\ d = h - l /\ d > 0
  BY SMT
<1>2. PICK G \in Nat : G = Gap /\ G = 625000
  BY SMT DEF Gap
<1>3. PICK g \in Nat : g = 6250 /\ G = 100 * g /\ G \div 100 = g
  BY <1>2, SMT
<1>4. PICK q \in Int, r \in 0 .. d - 1 : q = G \div d /\ d * q = G - r
  BY <1>1, <1>2, Divided
<1>5. y * g \in Nat
  BY SMT
<1>6. PICK p \in Int, s \in 0 .. d - 1 : p = (y * g) \div d /\ d * p = y * g - s
  BY <1>1, <1>5, Divided
<1>7. Pm!vadc_calibrate(x, "ABS", h, l) = 3 * (y * q + G)
  BY <1>1, <1>2, <1>4 DEF Pm!vadc_calibrate
<1>8. Pm!Ideal(x, h, l, Gap, Gap) = G + 100 * p
  BY <1>1, <1>2, <1>3, <1>6 DEF Pm!Ideal
<1>9. -y <= y * q - 100 * p /\ y * q - 100 * p <= 100
  BY <1>1, <1>3, <1>4, <1>6, GainRounds
<1>10. PICK z \in Int : z = y * q
  BY SMT
<1>11. 3 * (z + G) - 3 * (G + 100 * p) = 3 * (z - 100 * p)
  BY SMT
<1>12. -(3 * (y + 100)) <= 3 * (z - 100 * p) /\ 3 * (z - 100 * p) <= 3 * (y + 100)
  BY <1>9, <1>10, SMT
<1>13. Pm!Abs(3 * (z - 100 * p)) <= 3 * (y + 100)
  BY <1>12, SMT DEF Pm!Abs
<1> QED
  BY <1>1, <1>7, <1>8, <1>10, <1>11, <1>13

(* What holds at each step *)

\* The k-th step reads the converter of the i-th channel once its number is
\* selected; the readings come one after the other.
AdcHere(c, k) ==
  /\ run.vars \in Seq(Int)
  /\ k <= 6 => Len(run.vars) = 0
  /\ k \in 7 .. 13 => Len(run.vars) = 1
  /\ k \in 14 .. 20 => Len(run.vars) = 2
  /\ k > 20 => Len(run.vars) = 3
  /\ k > 6 => run.vars[1] = Codes[AdcChan(c, 1)]
  /\ k > 13 => run.vars[2] = Codes[AdcChan(c, 2)]
  /\ k > 20 => run.vars[3] = Codes[AdcChan(c, 3)]
  /\ k \in 3 .. 6 => pregs[ChanSel] = Pm!Num(AdcChan(c, 1))
  /\ k \in 10 .. 13 => pregs[ChanSel] = Pm!Num(AdcChan(c, 2))
  /\ k \in 17 .. 20 => pregs[ChanSel] = Pm!Num(AdcChan(c, 3))
  /\ k = 23 => run.result = Pm!vadc_calibrate(Codes[AdcChan(c, 1)], AdcConf(c).calib,
                                              Codes[AdcChan(c, 2)], Codes[AdcChan(c, 3)])
AdcSound ==
  run.call.f = "adc_channel_read" /\ ~run.failed =>
    \E c \in Calls, k \in Nat : run.call = c /\ PmAt(AdcSteps(c), k) /\ AdcHere(c, k)

LEMMA AdcStarts ==
  ASSUME Resting, RunShape, NEW c \in Calls, Pm!Start(c)
  PROVE  AdcSound'
<1>1. run'.call = c /\ run'.prog = Pm!Program(c)
  BY CallStarts
<1> SUFFICES ASSUME c.f = "adc_channel_read" PROVE AdcSound'
  BY <1>1 DEF AdcSound
<1>2. Pm!Program(c) = AdcSteps(c)
  BY DEF AdcSteps, Pm!Program
<1>3. PICK S : AdcSteps(c) \in Seq(S)
  BY AdcOrder
<1>4. PmAt(AdcSteps(c), 1)'
  BY <1>1, <1>2, <1>3, ProgramStarts
<1>5. run' = [Pm!NoRun EXCEPT !.call = c, !.prog = Pm!Program(c), !.before = pregs]
  BY DEF Pm!Start
<1>6. run'.vars = <<>>
  BY <1>5 DEF Pm!NoRun
<1>7. AdcHere(c, 1)'
  BY <1>6 DEF AdcHere
<1> QED
  BY <1>1, <1>4, <1>7 DEF AdcSound

\* The registers of a configuration but the channel: their writes are no reset,
\* and no reading changes.
AdcWrites(k) == k \in {1, 3, 4, 7, 8, 10, 11, 14, 15, 17, 18, 21}

LEMMA AdcStep ==
  ASSUME RunShape, AdcSound, Pm!PmicStep, run.call.f = "adc_channel_read"
  PROVE  AdcSound'
<1> SUFFICES ASSUME ~run'.failed PROVE AdcSound'
  BY DEF AdcSound
<1>1. run.call.f # "none"
  OBVIOUS
<1>2. PICK c \in Calls, k \in Nat : run.call = c /\ PmAt(AdcSteps(c), k) /\ AdcHere(c, k)
  BY <1>1, ShapeKept DEF AdcSound
<1> DEFINE s == AdcSteps(c)
<1>3. /\ (\E S : s \in Seq(S)) /\ Len(s) = 22
      /\ AdcConfigured(s, 0, AdcChan(c, 1)) /\ AdcConfigured(s, 7, AdcChan(c, 2))
      /\ AdcConfigured(s, 14, AdcChan(c, 3)) /\ s[22] = Calibrate(AdcConf(c).calib)
  BY AdcOrder
<1> HIDE DEF s
<1>4. /\ Runs /\ k \in 1 .. 22 /\ Head(run.prog) = s[k]
      /\ Goes => PmAt(s, k + 1)'
  BY <1>1, <1>2, <1>3, Placed DEF s
<1>5. SUFFICES Goes /\ AdcHere(c, k + 1)'
  BY <1>2, <1>4 DEF AdcSound, Goes, s
<1>6. CASE AdcWrites(k)
  <2>1. \E reg \in {Pm!Smbb("VADC_MODE"), Pm!Smbb("VADC_EN"), Pm!Smbb("VADC_CONV_REQ")} :
            \E v : Head(run.prog) = Pm!W(reg, v)
    BY <1>3, <1>4, <1>6 DEF AdcWrites, AdcConfigured
  <2>2. PICK reg \in {Pm!Smbb("VADC_MODE"), Pm!Smbb("VADC_EN"), Pm!Smbb("VADC_CONV_REQ")} :
            \E v : Head(run.prog) = Pm!W(reg, v)
    BY <2>1
  <2>6. PICK v : Head(run.prog) = Pm!W(reg, v)
    BY <2>2
  <2>3. /\ reg \in Pm!Registers \ (Pm!ResetCtl \cup Pm!Secured)
        /\ reg[2] # "SEC_ACCESS" /\ reg # ChanSel /\ ChanSel \in Pm!Registers
    BY DEF Pm!Registers, Pm!ResetCtl, Pm!Secured, Pm!Pon, Pm!Smbb, ChanSel
  <2>4. Goes /\ Only(reg, v) /\ UNCHANGED run.vars
    BY <1>4, <2>3, <2>6, Writes, PlainWrite
  <2>5. pregs'[ChanSel] = pregs[ChanSel]
    BY <2>3, <2>4 DEF Only
  <2> QED
    BY <1>2, <1>6, <2>4, <2>5 DEF AdcHere, AdcWrites
<1>7. CASE k \in {2, 9, 16}
  <2>1. PICK chan : chan = AdcChan(c, IF k = 2 THEN 1 ELSE IF k = 9 THEN 2 ELSE 3)
    OBVIOUS
  <2>2. Head(run.prog) = Pm!W(ChanSel, Pm!Num(chan))
    BY <1>3, <1>4, <1>7, <2>1 DEF AdcConfigured
  <2>3. /\ ChanSel \in Pm!Registers \ (Pm!ResetCtl \cup Pm!Secured) /\ ChanSel[2] # "SEC_ACCESS"
    BY DEF Pm!Registers, Pm!ResetCtl, Pm!Secured, Pm!Pon, Pm!Smbb, ChanSel
  <2>4. Goes /\ Only(ChanSel, Pm!Num(chan)) /\ UNCHANGED run.vars
    BY <1>4, <2>2, <2>3, Writes, PlainWrite
  <2>5. pregs'[ChanSel] = Pm!Num(chan)
    BY <2>4 DEF Only
  <2>6. CASE k = 2
    <3>1. chan = AdcChan(c, 1)
      BY <2>1, <2>6
    <3> QED
      BY <1>2, <2>4, <2>5, <2>6, <3>1 DEF AdcHere
  <2>7. CASE k = 9
    <3>1. chan = AdcChan(c, 2)
      BY <2>1, <2>7
    <3> QED
      BY <1>2, <2>4, <2>5, <2>7, <3>1 DEF AdcHere
  <2>8. CASE k = 16
    <3>1. chan = AdcChan(c, 3)
      BY <2>1, <2>8
    <3> QED
      BY <1>2, <2>4, <2>5, <2>8, <3>1 DEF AdcHere
  <2> QED
    BY <1>7, <2>6, <2>7, <2>8
<1>8. CASE k \in {5, 12, 19}
  <2>1. Head(run.prog) = Conv
    BY <1>3, <1>4, <1>8 DEF AdcConfigured
  <2>2. Goes /\ UNCHANGED <<pregs, run.vars>>
    BY <1>4, <2>1, Polls
  <2> QED
    BY <1>2, <1>8, <2>2 DEF AdcHere
<1>9. CASE k \in {6, 13, 20}
  <2>1. Head(run.prog) = Sample
    BY <1>3, <1>4, <1>9 DEF AdcConfigured
  <2>2. CASE k = 6
    <3>1. pregs[ChanSel] = Pm!Num(AdcChan(c, 1)) /\ Len(run.vars) = 0 /\ run.vars \in Seq(Int)
      BY <1>2, <2>2 DEF AdcHere
    <3>2. PICK x \in Int : x = Codes[AdcChan(c, 1)] /\ x = Pm!adc_limit_result_range(Codes[AdcChan(c, 1)])
      BY AdcChannels, CodesRead
    <3>3. Goes /\ Quiet /\ run'.vars = Append(run.vars, x)
      BY <1>4, <2>1, <3>1, <3>2, Samples
    <3>4. /\ run'.vars \in Seq(Int) /\ Len(run'.vars) = 1 /\ run'.vars[1] = x
          /\ \A i \in 1 .. 0 : run'.vars[i] = run.vars[i]
      BY <3>1, <3>2, <3>3
    <3> QED
      BY <1>2, <2>2, <3>2, <3>3, <3>4 DEF AdcHere
  <2>3. CASE k = 13
    <3>1. pregs[ChanSel] = Pm!Num(AdcChan(c, 2)) /\ Len(run.vars) = 1 /\ run.vars \in Seq(Int)
      BY <1>2, <2>3 DEF AdcHere
    <3>2. PICK x \in Int : x = Codes[AdcChan(c, 2)] /\ x = Pm!adc_limit_result_range(Codes[AdcChan(c, 2)])
      BY AdcChannels, CodesRead
    <3>3. Goes /\ Quiet /\ run'.vars = Append(run.vars, x)
      BY <1>4, <2>1, <3>1, <3>2, Samples
    <3>4. /\ run'.vars \in Seq(Int) /\ Len(run'.vars) = 2 /\ run'.vars[2] = x
          /\ \A i \in 1 .. 1 : run'.vars[i] = run.vars[i]
      BY <3>1, <3>2, <3>3
    <3> QED
      BY <1>2, <2>3, <3>2, <3>3, <3>4 DEF AdcHere
  <2>4. CASE k = 20
    <3>1. pregs[ChanSel] = Pm!Num(AdcChan(c, 3)) /\ Len(run.vars) = 2 /\ run.vars \in Seq(Int)
      BY <1>2, <2>4 DEF AdcHere
    <3>2. PICK x \in Int : x = Codes[AdcChan(c, 3)] /\ x = Pm!adc_limit_result_range(Codes[AdcChan(c, 3)])
      BY AdcChannels, CodesRead
    <3>3. Goes /\ Quiet /\ run'.vars = Append(run.vars, x)
      BY <1>4, <2>1, <3>1, <3>2, Samples
    <3>4. /\ run'.vars \in Seq(Int) /\ Len(run'.vars) = 3 /\ run'.vars[3] = x
          /\ \A i \in 1 .. 2 : run'.vars[i] = run.vars[i]
      BY <3>1, <3>2, <3>3
    <3> QED
      BY <1>2, <2>4, <3>2, <3>3, <3>4 DEF AdcHere
  <2> QED
    BY <1>9, <2>2, <2>3, <2>4
<1>10. CASE k = 22
  <2>1. Head(run.prog) = Calibrate(AdcConf(c).calib)
    BY <1>3, <1>4, <1>10
  <2>2. /\ Goes /\ Quiet /\ run'.vars = run.vars
        /\ run'.result = Pm!vadc_calibrate(run.vars[1], AdcConf(c).calib, run.vars[2], run.vars[3])
    BY <1>4, <2>1, Calibrates
  <2> QED
    BY <1>2, <1>10, <2>2 DEF AdcHere
<1> QED
  BY <1>4, <1>6, <1>7, <1>8, <1>9, <1>10 DEF AdcWrites

\* The channel of a call is read against its references.
ReadingNear(c) ==
  LET exact == 3 * Pm!Ideal(Codes[c.chan], Codes[10], Codes[9], Gap, Gap)
  IN  Pm!Abs(run.result - exact) <= 3 * (Codes[c.chan] - Codes[9] + 100)
LEMMA ReadingCalibrated ==
  ASSUME NEW c \in Calls, c.f = "adc_channel_read", AdcConf(c).calib = "ABS", AdcHere(c, 23)
  PROVE  ReadingNear(c)
<1>1. c.chan \in Pm!Channels
  BY PlatformAssumption DEF Pm!CallsAssumption
<1>2. AdcChan(c, 1) = c.chan /\ AdcChan(c, 2) = 10 /\ AdcChan(c, 3) = 9
  BY <1>1, ChannelInTable DEF AdcChan, AdcConf, Pm!ReferenceChannels
<1>3. run.result = Pm!vadc_calibrate(Codes[c.chan], "ABS", Codes[10], Codes[9])
  BY <1>2 DEF AdcHere
<1>4. /\ Codes[c.chan] \in Int /\ Codes[10] \in Int /\ Codes[9] \in Int /\ Codes[9] < Codes[10]
      /\ Codes[9] <= Codes[c.chan]
  BY <1>1, PlatformAssumption DEF Pm!CodesAssumption
<1>5. PICK x \in Int, h \in Int, l \in Int :
          x = Codes[c.chan] /\ h = Codes[10] /\ l = Codes[9] /\ l < h /\ l <= x
  BY <1>4
<1>6. Pm!Abs(Pm!vadc_calibrate(x, "ABS", h, l) - 3 * Pm!Ideal(x, h, l, Gap, Gap))
          <= 3 * (x - l + 100)
  BY <1>5, ReadingExact
<1> QED
  BY ONLY <1>3, <1>5, <1>6 DEF ReadingNear

-----------------------------------------------------------------------------
(* Pmic: pm_pwm_config.                                                     *)

LEMMA Doublings ==
  /\ \A i \in 1 .. 8 : Pm!Doubled[i] \in Nat
  /\ \A i, j \in 1 .. 8 : i <= j => Pm!Doubled[i] <= Pm!Doubled[j]
BY SMT DEF Pm!Doubled

LEMMA Prescaled ==
  ASSUME NEW c \in Pm!Clk, NEW d \in Pm!Div
  PROVE  Pm!pt_t(d, c) \in Nat
<1>1. Pm!ClockPeriod[c] \in Nat
  BY SMT DEF Pm!ClockPeriod, Pm!Clk
<1>2. Pm!PreDivide[d] \in Nat
  BY SMT DEF Pm!PreDivide, Pm!Div
<1> QED
  BY <1>1, <1>2, SMT DEF Pm!pt_t

LEMMA Distance ==
  ASSUME NEW n \in Int, NEW c \in Pm!Clk, NEW d \in Pm!Div, NEW m \in 0 .. 7
  PROVE  \E x \in Nat : /\ x = Pm!pt_t(d, c) * Pm!Doubled[m + 1]
                        /\ Pm!Err(n, c, d, m) = IF n - x < 0 THEN x - n ELSE n - x
                        /\ Pm!Err(n, c, d, m) \in Nat
<1>1. Pm!pt_t(d, c) \in Nat /\ m + 1 \in 1 .. 8
  BY Prescaled
<1>2. Pm!Doubled[m + 1] \in Nat
  BY <1>1, Doublings
<1>3. PICK x \in Nat : x = Pm!pt_t(d, c) * Pm!Doubled[m + 1]
  BY <1>1, <1>2
<1>4. Pm!Err(n, c, d, m) = Pm!Abs(n - x)
  BY <1>3 DEF Pm!Err
<1> QED
  BY <1>3, <1>4 DEF Pm!Abs

\* Once the error grows the period is passed, and each doubling passes it further.
LEMMA ErrorTurns ==
  ASSUME NEW n \in Int, NEW c \in Pm!Clk, NEW d \in Pm!Div, NEW k \in 1 .. 7, NEW m \in k .. 7,
         Pm!Err(n, c, d, k) > Pm!Err(n, c, d, k - 1)
  PROVE  Pm!Err(n, c, d, k) <= Pm!Err(n, c, d, m)
<1> DEFINE p == Pm!pt_t(d, c)
<1>1. p \in Nat
  BY Prescaled
<1>2. /\ k \in 0 .. 7 /\ k - 1 \in 0 .. 7 /\ m \in 0 .. 7
      /\ k + 1 \in 1 .. 8 /\ (k - 1) + 1 \in 1 .. 8 /\ m + 1 \in 1 .. 8
      /\ (k - 1) + 1 <= k + 1 /\ k + 1 <= m + 1
  OBVIOUS
<1>3. PICK a \in Nat, b \in Nat, e \in Nat :
          /\ a = Pm!Doubled[(k - 1) + 1] /\ b = Pm!Doubled[k + 1] /\ e = Pm!Doubled[m + 1]
          /\ a <= b /\ b <= e
  BY <1>2, Doublings
<1> HIDE DEF p
<1>4. PICK x \in Nat : x = p * a
  BY <1>1
<1>5. PICK y \in Nat : y = p * b
  BY <1>1
<1>6. PICK z \in Nat : z = p * e
  BY <1>1
<1>7. x <= y /\ y <= z
  <2>1. a * p <= b * p /\ b * p <= e * p
    BY <1>1, <1>3, TimesKeepsOrder
  <2>2. a * p = p * a /\ b * p = p * b /\ e * p = p * e
    BY <1>1
  <2> QED
    BY <1>4, <1>5, <1>6, <2>1, <2>2
<1>8. Pm!Err(n, c, d, k - 1) = IF n - x < 0 THEN x - n ELSE n - x
  <2>1. PICK v \in Nat : /\ v = Pm!pt_t(d, c) * Pm!Doubled[(k - 1) + 1]
                         /\ Pm!Err(n, c, d, k - 1) = IF n - v < 0 THEN v - n ELSE n - v
    BY <1>2, Distance
  <2>2. v = x
    BY ONLY <1>3, <1>4, <2>1 DEF p
  <2> QED
    BY ONLY <2>1, <2>2
<1>9. Pm!Err(n, c, d, k) = IF n - y < 0 THEN y - n ELSE n - y
  <2>1. PICK v \in Nat : /\ v = Pm!pt_t(d, c) * Pm!Doubled[k + 1]
                         /\ Pm!Err(n, c, d, k) = IF n - v < 0 THEN v - n ELSE n - v
    BY <1>2, Distance
  <2>2. v = y
    BY ONLY <1>3, <1>5, <2>1 DEF p
  <2> QED
    BY ONLY <2>1, <2>2
<1>10. Pm!Err(n, c, d, m) = IF n - z < 0 THEN z - n ELSE n - z
  <2>1. PICK v \in Nat : /\ v = Pm!pt_t(d, c) * Pm!Doubled[m + 1]
                         /\ Pm!Err(n, c, d, m) = IF n - v < 0 THEN v - n ELSE n - v
    BY <1>2, Distance
  <2>2. v = z
    BY ONLY <1>3, <1>6, <2>1 DEF p
  <2> QED
    BY ONLY <2>1, <2>2
<1> QED
  BY <1>7, <1>8, <1>9, <1>10

\* The loop stops behind the first exponent that was worse: none behind it is better.
LEMMA TriedIsBest ==
  ASSUME NEW n \in Int, NEW c \in Pm!Clk, NEW d \in Pm!Div, NEW m \in 0 .. 7
  PROVE  \E t \in Pm!Tried(n, c, d) : Pm!Err(n, c, d, t) <= Pm!Err(n, c, d, m)
<1> DEFINE e(i) == Pm!Err(n, c, d, i)
<1>1. \A i \in 0 .. 7 : e(i) \in Nat
  BY Distance
<1>2. Pm!Tried(n, c, d) = {i \in 0 .. 7 : \A k \in 1 .. i - 1 : e(k) <= e(k - 1)}
  BY DEF Pm!Tried
<1>3. CASE \A k \in 1 .. m - 1 : e(k) <= e(k - 1)
  <2>1. m \in Pm!Tried(n, c, d) /\ e(m) <= e(m)
    BY <1>1, <1>2, <1>3
  <2> QED
    BY <2>1
<1>4. ASSUME NEW k0 \in 1 .. m - 1, ~(e(k0) <= e(k0 - 1))
      PROVE  \E t \in Pm!Tried(n, c, d) : e(t) <= e(m)
  <2> DEFINE K == {k \in 1 .. m - 1 : ~(e(k) <= e(k - 1))}
  <2>0. k0 \in K
    BY <1>4
  <2>1. K \in SUBSET Nat /\ K # {}
    <3>1. \A k \in K : k \in Nat
      OBVIOUS
    <3> HIDE DEF K
    <3> QED
      BY <2>0, <3>1
  <2>2. PICK k \in K : \A i \in K : k <= i
    BY <2>1, LeastElement
  <2>3. k \in 1 .. m - 1 /\ ~(e(k) <= e(k - 1))
    BY <2>2
  <2>4. \A i \in 1 .. k - 1 : e(i) <= e(i - 1)
    <3>1. SUFFICES ASSUME NEW i \in 1 .. k - 1, ~(e(i) <= e(i - 1)) PROVE FALSE
      OBVIOUS
    <3>2. i \in 1 .. m - 1
      BY <2>3
    <3>3. i \in K
      BY <3>1, <3>2
    <3> HIDE DEF K
    <3> QED
      BY <2>2, <2>3, <3>3
  <2>5. k \in 1 .. 7 /\ k \in 0 .. 7 /\ k - 1 \in 0 .. 7 /\ m \in k .. 7
    BY <2>3
  <2>6. e(k) > e(k - 1)
    BY <1>1, <2>3, <2>5
  <2> HIDE DEF K
  <2>7. e(k) <= e(m)
    BY <2>5, <2>6, ErrorTurns
  <2>8. k \in Pm!Tried(n, c, d)
    BY <1>2, <2>4, <2>5
  <2> QED
    BY <2>7, <2>8
<1> QED
  BY <1>3, <1>4

LEMMA FirstSetting ==
  ASSUME NEW B \in SUBSET Pm!Settings, B # {}
  PROVE  \E s \in B : \A t \in B : s = t \/ Pm!Before(s, t)
<1>1. \A s \in B : /\ s = [clk |-> s.clk, div |-> s.div, m |-> s.m]
                   /\ s.clk \in Nat /\ s.div \in Nat /\ s.m \in Nat
  BY DEF Pm!Settings, Pm!Clk, Pm!Div
<1> DEFINE C == {s.clk : s \in B}
<1>2. PICK c \in C : \A x \in C : c <= x
  <2>1. C \in SUBSET Nat /\ C # {}
    BY <1>1
  <2> HIDE DEF C
  <2> QED
    BY <2>1, LeastElement
<1> DEFINE BC == {s \in B : s.clk = c}
           D == {s.div : s \in BC}
<1>3. PICK d \in D : \A x \in D : d <= x
  <2>1. \E s \in B : s.clk = c
    BY <1>2
  <2>2. D \in SUBSET Nat /\ D # {}
    BY <1>1, <2>1
  <2> HIDE DEF D
  <2> QED
    BY <2>2, LeastElement
<1> DEFINE BD == {s \in B : s.clk = c /\ s.div = d}
           M == {s.m : s \in BD}
<1>4. PICK m \in M : \A x \in M : m <= x
  <2>1. \E s \in B : s.clk = c /\ s.div = d
    BY <1>3
  <2>2. M \in SUBSET Nat /\ M # {}
    BY <1>1, <2>1
  <2> HIDE DEF M
  <2> QED
    BY <2>2, LeastElement
<1>5. PICK s \in B : s.clk = c /\ s.div = d /\ s.m = m
  BY <1>4
<1>6. ASSUME NEW t \in B PROVE s = t \/ Pm!Before(s, t)
  <2>1. c <= t.clk
    BY <1>2
  <2>2. t.clk = c => d <= t.div
    BY <1>3
  <2>3. t.clk = c /\ t.div = d => m <= t.m
    BY <1>4
  <2>4. /\ t = [clk |-> t.clk, div |-> t.div, m |-> t.m] /\ t.clk \in Nat /\ t.div \in Nat /\ t.m \in Nat
        /\ s = [clk |-> c, div |-> d, m |-> m] /\ c \in Nat /\ d \in Nat /\ m \in Nat
    BY <1>1, <1>5
  <2>5. t.clk = c /\ t.div = d /\ t.m = m => s = t
    BY <2>4
  <2> QED
    BY <1>5, <2>1, <2>2, <2>3, <2>4, <2>5 DEF Pm!Before
<1> QED
  BY <1>6

LEMMA PeriodCounts ==
  ASSUME NEW p \in Nat
  PROVE  Pm!PeriodN(p) \in Int
<1>1. Pm!Eighth(p) \in Int
  <2>1. (p * 125) \div 64 \in Int /\ ((p \div 64) * 125) % 536870912 \in Int
    BY SMT
  <2> QED
    BY <2>1 DEF Pm!Eighth
<1>2. Pm!PwmSize(p) \in {6, 9} /\ (p * 125) \div 8 \in Int /\ 8 * Pm!Eighth(p) \in Int
  BY <1>1, SMT DEF Pm!PwmSize
<1>3. p < 4294967 \/ p >= 4294967
  BY SMT
<1> HIDE DEF Pm!Eighth, Pm!PwmSize
<1> QED
  BY <1>1, <1>2, <1>3 DEF Pm!PeriodN

\* What the period loses when it is divided in 32 bits, unless it wraps.
LEMMA PeriodNearTrue ==
  ASSUME NEW p \in Nat, ~Pm!PeriodWraps(p)
  PROVE  LET n == Pm!PeriodN(p)
             t == Pm!TruePeriodN(p, Pm!PwmSize(p))
         IN  t \in Int /\ n <= t /\ t <= n + Pm!Lost(p) /\ Pm!Lost(p) \in Nat
<1> DEFINE q == p \div 64
           r == p % 64
           e == p \div 8
           f == p % 8
<1>1. /\ q \in Nat /\ r \in 0 .. 63 /\ p = 64 * q + r
      /\ e \in Nat /\ f \in 0 .. 7 /\ p = 8 * e + f
  BY SMT
<1> HIDE DEF q, r, e, f
<1>2. PICK u, v \in Int : u = (r * 125) \div 64 /\ v = (f * 125) \div 8
  BY <1>1, SMT
<1>3. 64 * u <= r * 125 /\ r * 125 < 64 * u + 64 /\ 8 * v <= f * 125 /\ f * 125 < 8 * v + 8
  BY <1>1, <1>2, SMT
<1>4. Pm!TruePeriodN(p, 9) = q * 125 + u /\ Pm!TruePeriodN(p, 6) = e * 125 + v
  BY <1>2 DEF Pm!TruePeriodN, q, r, e, f
<1>5. CASE p < 4294967
  <2>1. (p * 125) \div 64 = q * 125 + u /\ (p * 125) \div 8 = e * 125 + v
    BY <1>1, <1>3, SMT
  <2>2. Pm!Eighth(p) = q * 125 + u /\ Pm!Lost(p) = 0
    BY <1>5, <2>1 DEF Pm!Eighth, Pm!Lost
  <2>3. q * 125 + u < 93749952
    <3>1. 64 * q + r < 4294967
      BY <1>1, <1>5
    <3>2. q < 70000 /\ u < 200
      BY <1>1, <1>2, <1>3, <3>1, SMT
    <3>3. q * 125 \in Int /\ q * 125 <= 8750000
      BY ONLY <1>1, <3>2, SMT
    <3>4. PICK w \in Int : w = q * 125
      BY <3>3
    <3>5. w + u < 93749952
      BY <3>2, <3>3, <3>4, SMT
    <3> QED
      BY <1>1, <3>4, <3>5, SMT
  <2>4. Pm!PwmSize(p) = 6
    <3>1. PICK x \in Int : x = q * 125 + u
      BY <1>1, SMT
    <3>2. x < 93749952 /\ Pm!Eighth(p) = x
      BY <1>1, <2>2, <2>3, <3>1, SMT
    <3>3. ~(x >= 93749952)
      BY <3>2, SMT
    <3> QED
      BY <3>2, <3>3, SMT DEF Pm!PwmSize
  <2>5. Pm!PeriodN(p) = e * 125 + v
    BY <1>5, <2>1, <2>4 DEF Pm!PeriodN
  <2> QED
    BY <1>1, <1>2, <1>4, <2>2, <2>4, <2>5
<1>6. CASE ~(p < 4294967)
  <2>1. q * 125 < 536870912
    <3>1. p < 274877952
      BY SMT DEF Pm!PeriodWraps
    <3>2. 64 * q < 274877952
      BY <1>1, <3>1, SMT
    <3> QED
      BY <1>1, <3>2, SMT
  <2>2. (q * 125) % 536870912 = q * 125
    BY <1>1, <2>1, SMT
  <2>3. Pm!Eighth(p) = q * 125 /\ Pm!Lost(p) = 1000
    BY <1>6, <2>2 DEF Pm!Eighth, Pm!Lost, q
  <2>4. CASE Pm!PwmSize(p) = 9
    <3>1. Pm!PeriodN(p) = q * 125
      BY <2>3, <2>4 DEF Pm!PeriodN
    <3>2. 0 <= u /\ u <= 1000
      BY <1>1, <1>3, SMT
    <3> QED
      BY <1>1, <1>2, <1>4, <2>3, <2>4, <3>1, <3>2
  <2>5. CASE Pm!PwmSize(p) = 6
    <3>1. p >= 4294967
      BY <1>6, SMT
    <3>2. Pm!PeriodN(p) = 8 * (q * 125)
      BY <1>6, <2>3, <2>5, <3>1 DEF Pm!PeriodN
    <3>3. 8 * (q * 125) <= e * 125 + v /\ e * 125 + v <= 8 * (q * 125) + 1000
      BY <1>1, <1>2, <1>3, SMT
    <3> QED
      BY <1>1, <1>2, <1>4, <2>3, <2>5, <3>2, <3>3
  <2> QED
    BY <2>4, <2>5 DEF Pm!PwmSize
<1> QED
  BY <1>5, <1>6

\* No setting of the registers comes closer than the one the loops find.
LEMMA PeriodClosest ==
  ASSUME NEW p \in Nat
  PROVE  LET b == Pm!pm_pwm_calc_period(p)
             n == Pm!PeriodN(p) IN
         /\ b \in Pm!Settings
         /\ \A s \in Pm!Settings : Pm!Err(n, b.clk, b.div, b.m) <= Pm!Err(n, s.clk, s.div, s.m)
<1> DEFINE n == Pm!PeriodN(p)
           E(s) == Pm!Err(n, s.clk, s.div, s.m)
           S == {s \in Pm!Settings : s.m \in Pm!Tried(n, s.clk, s.div)}
           Errors == {E(s) : s \in S}
           least == CHOOSE e \in Errors : \A s \in S : e <= E(s)
           Best == {s \in S : E(s) = least}
           b == CHOOSE s \in Best : \A t \in Best : s = t \/ Pm!Before(s, t)
<1>1. Pm!pm_pwm_calc_period(p) = b
  BY DEF Pm!pm_pwm_calc_period
<1>2. n \in Int
  BY PeriodCounts
<1> HIDE DEF n
<1>3. ASSUME NEW s \in Pm!Settings
      PROVE  s.clk \in Pm!Clk /\ s.div \in Pm!Div /\ s.m \in 0 .. 7 /\ E(s) \in Nat
  <2>1. s.clk \in Pm!Clk /\ s.div \in Pm!Div /\ s.m \in 0 .. 7
    BY DEF Pm!Settings
  <2> QED
    BY <1>2, <2>1, Distance
<1>4. \A s \in Pm!Settings : \E t \in S : E(t) <= E(s)
  <2> SUFFICES ASSUME NEW s \in Pm!Settings PROVE \E t \in S : E(t) <= E(s)
    OBVIOUS
  <2>1. PICK m \in Pm!Tried(n, s.clk, s.div) : Pm!Err(n, s.clk, s.div, m) <= Pm!Err(n, s.clk, s.div, s.m)
    BY <1>2, <1>3, TriedIsBest
  <2>2. m \in 0 .. 7
    BY <2>1 DEF Pm!Tried
  <2>3. PICK t : t = [clk |-> s.clk, div |-> s.div, m |-> m]
    OBVIOUS
  <2>4. t.clk = s.clk /\ t.div = s.div /\ t.m = m /\ t \in Pm!Settings
    BY <1>3, <2>2, <2>3 DEF Pm!Settings
  <2> QED
    BY <2>1, <2>4
<1>5. S # {}
  <2>1. [clk |-> 0, div |-> 0, m |-> 0] \in Pm!Settings
    BY DEF Pm!Settings, Pm!Clk, Pm!Div
  <2> HIDE DEF S, E
  <2> QED
    BY <1>4, <2>1
<1>6. least \in Errors /\ \A s \in S : least <= E(s)
  <2>1. Errors \in SUBSET Nat /\ Errors # {}
    <3>1. \A s \in S : E(s) \in Nat
      BY <1>3
    <3> HIDE DEF S, E
    <3> QED
      BY <1>5, <3>1
  <2>2. PICK e \in Errors : \A x \in Errors : e <= x
    <3> HIDE DEF Errors
    <3> QED
      BY <2>1, LeastElement
  <2>3. \A s \in S : E(s) \in Errors
    OBVIOUS
  <2>4. \A s \in S : e <= E(s)
    <3> HIDE DEF S, E, Errors
    <3> QED
      BY <2>2, <2>3
  <2> HIDE DEF S, E, Errors
  <2> QED
    BY <2>2, <2>4
<1>7. Best \in SUBSET Pm!Settings /\ Best # {}
  <2>1. PICK s \in S : E(s) = least
    <3>1. least \in Errors
      BY <1>6
    <3> HIDE DEF least
    <3> QED
      BY <3>1
  <2>2. s \in Best
    <3> HIDE DEF S, E, least
    <3> QED
      BY <2>1
  <2>3. \A t \in Best : t \in Pm!Settings
    <3> HIDE DEF E, least
    <3> QED
      OBVIOUS
  <2> HIDE DEF Best
  <2> QED
    BY <2>2, <2>3
<1>8. b \in Best
  <2>1. \E s \in Best : \A t \in Best : s = t \/ Pm!Before(s, t)
    <3> HIDE DEF Best
    <3> QED
      BY <1>7, FirstSetting
  <2> HIDE DEF Best
  <2> QED
    BY <2>1
<1> HIDE DEF b
<1>9. b \in S /\ E(b) = least
  <2> HIDE DEF S, E, least
  <2> QED
    BY <1>8
<1>10. b \in Pm!Settings
  BY <1>9
<1>11. \A s \in Pm!Settings : E(b) <= E(s)
  <2> SUFFICES ASSUME NEW s \in Pm!Settings PROVE E(b) <= E(s)
    OBVIOUS
  <2>1. PICK t \in S : E(t) <= E(s)
    BY <1>4
  <2>2. t \in Pm!Settings
    OBVIOUS
  <2>3. E(b) <= E(t)
    <3> HIDE DEF S, E, least
    <3> QED
      BY <1>6, <1>9
  <2>4. E(b) \in Nat /\ E(t) \in Nat /\ E(s) \in Nat
    BY <1>3, <1>10, <2>2
  <2> HIDE DEF E
  <2> QED
    BY <2>1, <2>3, <2>4
<1> QED
  BY <1>1, <1>10, <1>11 DEF n

PwmBest(c) == Pm!pm_pwm_calc_period(c.period)
PwmSize(c) == Pm!PwmSize(c.period)
SizeClk == <<1, "PWM_SIZE_CLK">>
Prediv == <<1, "PWM_PREDIV">>
PwmClock(c) == {<<"size", PwmSize(c)>>, <<"clk", PwmBest(c).clk + 1>>}
PwmDivider(c) == {<<"div", PwmBest(c).div>>, <<"m", PwmBest(c).m>>}
PwmValue(c) == Pm!Num(Pm!pm_pwm_calc_pwm_value(PwmSize(c), c.period, c.duty))
PwmRefused(c) == Pm!PwmRefused(c.duty, c.period)
PwmSteps(c) == Pm!pm_pwm_config(c.duty, c.period)
PwmHere(c, k) ==
  IF PwmRefused(c) THEN k = 2 => run.result = -1
  ELSE /\ k > 1 => pregs[SizeClk] = PwmClock(c)
       /\ k > 2 => pregs[Prediv] = PwmDivider(c)
PwmSound ==
  run.call.f = "pwm_config" /\ ~run.failed =>
    \E c \in Calls, k \in Nat : run.call = c /\ PmAt(PwmSteps(c), k) /\ PwmHere(c, k)

LEMMA PwmOrder ==
  ASSUME NEW c
  PROVE  LET s == PwmSteps(c) IN
         /\ \E S : s \in Seq(S)
         /\ IF PwmRefused(c) THEN Len(s) = 1 /\ s[1] = Pm!Return(-1)
            ELSE /\ Len(s) = 5 /\ s[1] = Pm!W(SizeClk, PwmClock(c))
                 /\ s[2] = Pm!W(Prediv, PwmDivider(c))
                 /\ s[3] = Pm!W(<<1, "PWM_VALUE">>, PwmValue(c))
                 /\ s[4] = Pm!W(<<1, "PWM_SYNC">>, {"SYNC"})
                 /\ s[5] = Pm!Return(0)
<1> DEFINE a == Pm!W(SizeClk, PwmClock(c))
           b == Pm!W(Prediv, PwmDivider(c))
           d == Pm!W(<<1, "PWM_VALUE">>, PwmValue(c))
           e == Pm!W(<<1, "PWM_SYNC">>, {"SYNC"})
           f == Pm!Return(0)
           g == Pm!Return(-1)
           S == {a, b, d, e, f, g}
<1>1. PwmSteps(c) = IF PwmRefused(c) THEN <<g>> ELSE <<a, b, d, e, f>>
  BY DEF PwmSteps, PwmRefused, Pm!pm_pwm_config, PwmClock, PwmDivider, PwmValue, PwmBest, PwmSize,
         SizeClk, Prediv
<1> HIDE DEF a, b, d, e, f, g
<1>2. CASE PwmRefused(c)
  <2>1. PwmSteps(c) \in Seq(S) /\ Len(PwmSteps(c)) = 1 /\ PwmSteps(c)[1] = g
    BY <1>1, <1>2
  <2> QED
    BY <1>2, <2>1 DEF g
<1>3. CASE ~PwmRefused(c)
  <2>1. /\ PwmSteps(c) \in Seq(S) /\ Len(PwmSteps(c)) = 5 /\ PwmSteps(c)[1] = a
        /\ PwmSteps(c)[2] = b /\ PwmSteps(c)[3] = d /\ PwmSteps(c)[4] = e /\ PwmSteps(c)[5] = f
    BY <1>1, <1>3
  <2> QED
    BY <1>3, <2>1 DEF a, b, d, e, f
<1> QED
  BY <1>2, <1>3

LEMMA PwmStarts ==
  ASSUME Resting, RunShape, NEW c \in Calls, Pm!Start(c)
  PROVE  PwmSound'
<1>1. run'.call = c /\ run'.prog = Pm!Program(c)
  BY CallStarts
<1> SUFFICES ASSUME c.f = "pwm_config" PROVE PwmSound'
  BY <1>1 DEF PwmSound
<1>2. Pm!Program(c) = PwmSteps(c)
  BY DEF PwmSteps, Pm!Program
<1>3. PICK S : PwmSteps(c) \in Seq(S)
  BY PwmOrder
<1>4. PmAt(PwmSteps(c), 1)'
  BY <1>1, <1>2, <1>3, ProgramStarts
<1>5. PwmHere(c, 1)'
  BY DEF PwmHere
<1> QED
  BY <1>1, <1>4, <1>5 DEF PwmSound

LEMMA PwmStep ==
  ASSUME RunShape, PwmSound, Pm!PmicStep, run.call.f = "pwm_config"
  PROVE  PwmSound'
<1> SUFFICES ASSUME ~run'.failed PROVE PwmSound'
  BY DEF PwmSound
<1>1. run.call.f # "none"
  OBVIOUS
<1>2. PICK c \in Calls, k \in Nat : run.call = c /\ PmAt(PwmSteps(c), k) /\ PwmHere(c, k)
  BY <1>1, ShapeKept DEF PwmSound
<1> DEFINE s == PwmSteps(c)
<1>3. /\ \E S : s \in Seq(S)
      /\ IF PwmRefused(c) THEN Len(s) = 1 /\ s[1] = Pm!Return(-1)
         ELSE /\ Len(s) = 5 /\ s[1] = Pm!W(SizeClk, PwmClock(c))
              /\ s[2] = Pm!W(Prediv, PwmDivider(c))
              /\ s[3] = Pm!W(<<1, "PWM_VALUE">>, PwmValue(c))
              /\ s[4] = Pm!W(<<1, "PWM_SYNC">>, {"SYNC"})
              /\ s[5] = Pm!Return(0)
  BY PwmOrder
<1> HIDE DEF s
<1>4. /\ Runs /\ k \in 1 .. Len(s) /\ Head(run.prog) = s[k]
      /\ Goes => PmAt(s, k + 1)'
  BY <1>1, <1>2, <1>3, Placed DEF s
<1>5. SUFFICES Goes /\ PwmHere(c, k + 1)'
  BY <1>2, <1>4 DEF PwmSound, Goes, s
<1>6. CASE PwmRefused(c)
  <2>0. Len(s) = 1 /\ s[1] = Pm!Return(-1)
    BY <1>3, <1>6
  <2>1. Head(run.prog) = Pm!Return(-1) /\ k = 1
    BY <1>4, <2>0
  <2>2. Goes /\ run'.result = -1
    BY <1>4, <2>1, Returns
  <2> QED
    BY <1>6, <2>1, <2>2 DEF PwmHere
<1>7. CASE ~PwmRefused(c)
  <2>1. k \in 1 .. 5 /\ Len(s) = 5
    BY <1>3, <1>4, <1>7
  <2>2. ASSUME NEW name \in {"PWM_SIZE_CLK", "PWM_PREDIV", "PWM_VALUE", "PWM_SYNC"}
        PROVE  <<1, name>> \in Pm!Registers \ (Pm!ResetCtl \cup Pm!Secured) /\ <<1, name>>[2] # "SEC_ACCESS"
    BY DEF Pm!Registers, Pm!ResetCtl, Pm!Secured, Pm!Pon, Pm!Smbb
  <2>3. CASE k = 1
    <3>1. Head(run.prog) = Pm!W(SizeClk, PwmClock(c))
      BY <1>3, <1>4, <1>7, <2>3
    <3>2. Goes /\ Only(SizeClk, PwmClock(c))
      BY <1>4, <2>2, <3>1, Writes, PlainWrite DEF SizeClk
    <3> QED
      BY <1>7, <2>3, <3>2 DEF PwmHere, Only
  <2>4. CASE k \in 2 .. 4
    <3>1. \E name \in {"PWM_PREDIV", "PWM_VALUE", "PWM_SYNC"} : \E v :
            /\ Head(run.prog) = Pm!W(<<1, name>>, v)
            /\ name = "PWM_PREDIV" => v = PwmDivider(c)
            /\ k = 2 => name = "PWM_PREDIV"
      BY <1>3, <1>4, <1>7, <2>4 DEF Prediv
    <3>6. PICK name \in {"PWM_PREDIV", "PWM_VALUE", "PWM_SYNC"} : \E v :
            /\ Head(run.prog) = Pm!W(<<1, name>>, v)
            /\ name = "PWM_PREDIV" => v = PwmDivider(c)
            /\ k = 2 => name = "PWM_PREDIV"
      BY <3>1
    <3>7. PICK v : /\ Head(run.prog) = Pm!W(<<1, name>>, v)
                   /\ name = "PWM_PREDIV" => v = PwmDivider(c)
                   /\ k = 2 => name = "PWM_PREDIV"
      BY <3>6
    <3>2. Goes /\ Only(<<1, name>>, v)
      BY <1>4, <2>2, <3>7, Writes, PlainWrite
    <3>3. SizeClk \in Pm!Registers /\ Prediv \in Pm!Registers /\ SizeClk # <<1, name>>
          /\ (Prediv = <<1, name>> <=> name = "PWM_PREDIV")
      BY <2>2 DEF SizeClk, Prediv
    <3>4. pregs'[SizeClk] = PwmClock(c)
      BY <1>2, <1>7, <2>4, <3>2, <3>3 DEF PwmHere, Only
    <3>5. pregs'[Prediv] = PwmDivider(c)
      BY <1>2, <1>7, <2>4, <3>2, <3>3, <3>7 DEF PwmHere, Only
    <3> QED
      BY <1>7, <3>2, <3>4, <3>5 DEF PwmHere
  <2>5. CASE k = 5
    <3>1. Goes /\ Quiet
      BY <1>3, <1>4, <1>7, <2>5, Returns
    <3> QED
      BY <1>2, <1>7, <2>5, <3>1 DEF PwmHere, Quiet
  <2> QED
    BY <2>1, <2>3, <2>4, <2>5
<1> QED
  BY <1>6, <1>7

LEMMA PeriodReached ==
  ASSUME NEW c, ~PwmRefused(c), pregs[SizeClk] = PwmClock(c), pregs[Prediv] = PwmDivider(c)
  PROVE  Pm!PeriodBest(c)
<1>1. c.period \in Nat
  <2>1. PICK low \in Int, top \in Int :
            low = Pm!PM_PWM_PERIOD_MIN /\ top = Pm!PM_PWM_PERIOD_MAX /\ low = 7
    BY SMT DEF Pm!PM_PWM_PERIOD_MIN, Pm!PM_PWM_PERIOD_MAX
  <2>2. c.period \in low .. top
    BY <2>1 DEF PwmRefused, Pm!PwmRefused
  <2> QED
    BY <2>1, <2>2
<1>2. PICK b : b = PwmBest(c)
  OBVIOUS
<1>3. b \in Pm!Settings
      /\ \A s \in Pm!Settings : Pm!Err(Pm!PeriodN(c.period), b.clk, b.div, b.m)
                                   <= Pm!Err(Pm!PeriodN(c.period), s.clk, s.div, s.m)
  BY <1>1, <1>2, PeriodClosest DEF PwmBest
<1>4. b.clk \in Int /\ (b.clk + 1) - 1 = b.clk
  BY <1>3 DEF Pm!Settings, Pm!Clk
<1>11. ASSUME NEW x, NEW y PROVE (CHOOSE v \in {<<"size", x>>, <<"clk", y>>} : v[1] = "size") = <<"size", x>>
  OBVIOUS
<1>5. ASSUME NEW x, NEW y PROVE (CHOOSE v \in {<<"size", x>>, <<"clk", y>>} : v[1] = "clk") = <<"clk", y>>
  OBVIOUS
<1>6. ASSUME NEW x, NEW y PROVE (CHOOSE v \in {<<"div", x>>, <<"m", y>>} : v[1] = "div") = <<"div", x>>
  OBVIOUS
<1>7. ASSUME NEW x, NEW y PROVE (CHOOSE v \in {<<"div", x>>, <<"m", y>>} : v[1] = "m") = <<"m", y>>
  OBVIOUS
<1>8. (CHOOSE v \in pregs[<<1, "PWM_SIZE_CLK">>] : v[1] = "clk")[2] = b.clk + 1
  <2>1. PICK x, y : x = PwmSize(c) /\ y = b.clk + 1
    OBVIOUS
  <2>2. pregs[<<1, "PWM_SIZE_CLK">>] = {<<"size", x>>, <<"clk", y>>}
    BY <1>2, <2>1 DEF SizeClk, PwmClock
  <2>3. (CHOOSE v \in pregs[<<1, "PWM_SIZE_CLK">>] : v[1] = "clk") = <<"clk", y>>
    BY <1>5, <2>2
  <2>4. <<"clk", y>>[2] = y
    OBVIOUS
  <2> QED
    BY ONLY <2>1, <2>3, <2>4, Zenon
<1>9. (CHOOSE v \in pregs[<<1, "PWM_PREDIV">>] : v[1] = "div")[2] = b.div
  <2>1. PICK x, y : x = b.div /\ y = b.m
    OBVIOUS
  <2>2. pregs[<<1, "PWM_PREDIV">>] = {<<"div", x>>, <<"m", y>>}
    BY <1>2, <2>1 DEF Prediv, PwmDivider
  <2>3. (CHOOSE v \in pregs[<<1, "PWM_PREDIV">>] : v[1] = "div") = <<"div", x>>
    BY <1>6, <2>2
  <2>4. <<"div", x>>[2] = x
    OBVIOUS
  <2> QED
    BY ONLY <2>1, <2>3, <2>4, Zenon
<1>10. (CHOOSE v \in pregs[<<1, "PWM_PREDIV">>] : v[1] = "m")[2] = b.m
  <2>1. PICK x, y : x = b.div /\ y = b.m
    OBVIOUS
  <2>2. pregs[<<1, "PWM_PREDIV">>] = {<<"div", x>>, <<"m", y>>}
    BY <1>2, <2>1 DEF Prediv, PwmDivider
  <2>3. (CHOOSE v \in pregs[<<1, "PWM_PREDIV">>] : v[1] = "m") = <<"m", y>>
    BY <1>7, <2>2
  <2>4. <<"m", y>>[2] = y
    OBVIOUS
  <2> QED
    BY ONLY <2>1, <2>3, <2>4, Zenon
<1>12. (CHOOSE v \in pregs[<<1, "PWM_SIZE_CLK">>] : v[1] = "size")[2] = PwmSize(c)
  <2>1. PICK x, y : x = PwmSize(c) /\ y = b.clk + 1
    OBVIOUS
  <2>2. pregs[<<1, "PWM_SIZE_CLK">>] = {<<"size", x>>, <<"clk", y>>}
    BY <1>2, <2>1 DEF SizeClk, PwmClock
  <2>3. (CHOOSE v \in pregs[<<1, "PWM_SIZE_CLK">>] : v[1] = "size") = <<"size", x>>
    BY <1>11, <2>2
  <2>4. <<"size", x>>[2] = x
    OBVIOUS
  <2> QED
    BY ONLY <2>1, <2>3, <2>4, Zenon
<1>13. /\ Pm!PwmSetting("PWM_SIZE_CLK", "size") = PwmSize(c) /\ Pm!PwmSetting("PWM_SIZE_CLK", "clk") - 1 = b.clk
       /\ Pm!PwmSetting("PWM_PREDIV", "div") = b.div /\ Pm!PwmSetting("PWM_PREDIV", "m") = b.m
  BY <1>4, <1>8, <1>9, <1>10, <1>12 DEF Pm!PwmSetting
<1> SUFFICES ASSUME ~Pm!PeriodWraps(c.period), NEW s \in Pm!Settings
             PROVE  Pm!Err(Pm!TruePeriodN(c.period, PwmSize(c)), b.clk, b.div, b.m)
                        <= Pm!Err(Pm!TruePeriodN(c.period, PwmSize(c)), s.clk, s.div, s.m)
                           + 2 * Pm!Lost(c.period)
  BY <1>13 DEF Pm!PeriodBest
<1>14. PICK n \in Int, t \in Int, l \in Nat :
         /\ n = Pm!PeriodN(c.period) /\ t = Pm!TruePeriodN(c.period, PwmSize(c)) /\ l = Pm!Lost(c.period)
         /\ n <= t /\ t <= n + l
  BY <1>1, PeriodCounts, PeriodNearTrue DEF PwmSize
<1>15. ASSUME NEW x \in Pm!Settings
       PROVE  \E d \in Nat : /\ Pm!Err(n, x.clk, x.div, x.m) = IF n - d < 0 THEN d - n ELSE n - d
                             /\ Pm!Err(t, x.clk, x.div, x.m) = IF t - d < 0 THEN d - t ELSE t - d
  <2>1. x.clk \in Pm!Clk /\ x.div \in Pm!Div /\ x.m \in 0 .. 7
    BY DEF Pm!Settings
  <2>2. PICK d \in Nat : /\ d = Pm!pt_t(x.div, x.clk) * Pm!Doubled[x.m + 1]
                        /\ Pm!Err(n, x.clk, x.div, x.m) = IF n - d < 0 THEN d - n ELSE n - d
    BY <2>1, Distance
  <2>3. PICK g \in Nat : /\ g = Pm!pt_t(x.div, x.clk) * Pm!Doubled[x.m + 1]
                        /\ Pm!Err(t, x.clk, x.div, x.m) = IF t - g < 0 THEN g - t ELSE t - g
    BY <2>1, Distance
  <2>4. d = g
    BY ONLY <2>2, <2>3, Zenon
  <2> QED
    BY ONLY <2>2, <2>3, <2>4
<1>16. PICK y \in Nat : /\ Pm!Err(n, b.clk, b.div, b.m) = IF n - y < 0 THEN y - n ELSE n - y
                       /\ Pm!Err(t, b.clk, b.div, b.m) = IF t - y < 0 THEN y - t ELSE t - y
  BY <1>3, <1>15
<1>17. PICK z \in Nat : /\ Pm!Err(n, s.clk, s.div, s.m) = IF n - z < 0 THEN z - n ELSE n - z
                       /\ Pm!Err(t, s.clk, s.div, s.m) = IF t - z < 0 THEN z - t ELSE t - z
  BY <1>15
<1>18. Pm!Err(n, b.clk, b.div, b.m) <= Pm!Err(n, s.clk, s.div, s.m)
  BY <1>3, <1>14
<1> QED
  BY ONLY <1>14, <1>16, <1>17, <1>18

-----------------------------------------------------------------------------
(* Pmic: what holds in every state of every call.                           *)

PmicSound ==
  /\ RunShape /\ (run.call.f = "none" => Resting)
  /\ ResetSound /\ PinSound /\ HoldSound /\ ResinSound /\ LevelSound /\ ColdSound
  /\ LimitSound /\ LdoSound /\ BatterySound /\ TaperSound /\ AdcSound /\ PwmSound

LEMMA PmicStarts ==
  ASSUME Pm!Init
  PROVE  PmicSound
<1>1. Resting /\ run = Pm!NoRun
  BY DEF Pm!Init, Resting
<1>2. run.call.f = "none" /\ RunShape
  <2>1. run.call = [f |-> "none"]
    BY <1>1 DEF Pm!NoRun
  <2>2. Pm!Blank = [r \in Pm!Registers |-> Pm!Blank[r]]
    BY DEF Pm!Blank
  <2>3. pregs = [r \in Pm!Registers |-> pregs[r]]
    <3>1. ASSUME NEW where PROVE Pm!Armed(where) = [r \in Pm!Registers |-> Pm!Armed(where)[r]]
      <4>1. PICK F : F = Pm!Configured /\ F = [r \in Pm!Registers |-> F[r]]
        <5>1. Pm!Configured = [r \in Pm!Registers |-> Pm!Configured[r]]
          BY SMTT(60) DEF Pm!Configured
        <5> QED
          BY <5>1
      <4>2. Pm!Armed(where) = [F EXCEPT ![Pm!Pon(where)] = @ \cup {"S2_RESET_EN"}]
        BY <4>1 DEF Pm!Armed
      <4> QED
        BY ONLY <4>1, <4>2
    <3> QED
      BY <1>1, <2>2, <3>1 DEF Resting
  <2>4. /\ run = [call |-> run.call, prog |-> run.prog, acc |-> run.acc, saved |-> run.saved,
                  vars |-> run.vars, result |-> run.result, failed |-> run.failed,
                  before |-> run.before]
        /\ run.failed = FALSE /\ run.saved = Pm!Blank
    BY <1>1 DEF Pm!NoRun
  <2> QED
    <3>1. run.saved = [r \in Pm!Registers |-> run.saved[r]]
      BY <2>2, <2>4
    <3>2. run.call.f = "none"
      BY <2>1
    <3>3. run.failed \in BOOLEAN
      BY <2>4
    <3> QED
      BY <2>3, <2>4, <3>1, <3>2, <3>3 DEF RunShape
<1>3. /\ run.call.f \notin ResetCalls \cup ConfigCalls \cup HoldCalls \cup ResinCalls \cup LimitCalls
      /\ run.call.f \notin {"gpio_set", "get_is_cold_boot", "ldo_set_voltage",
                            "pm8xxx_is_battery_broken", "pmi8994_is_battery_broken",
                            "adc_channel_read", "pwm_config"}
  BY <1>2 DEF ResetCalls, ConfigCalls, HoldCalls, ResinCalls, LimitCalls
<1> QED
  BY <1>1, <1>2, <1>3 DEF PmicSound, ResetSound, PinSound, HoldSound, ResinSound, LevelSound, ColdSound,
     LimitSound, LdoSound, BatterySound, TaperSound, AdcSound, PwmSound

LEMMA CallStays ==
  ASSUME RunShape, Pm!PmicStep, run.call.f # "none"
  PROVE  run'.call = run.call
<1>1. run # Pm!NoRun
  BY DEF Pm!NoRun
<1>2. ~(\E c \in Calls : Pm!Start(c))
  BY <1>1 DEF Pm!Start
<1>3. ASSUME NEW lost \in BOOLEAN, Pm!Command(lost) PROVE run'.call = run.call
  <2>1. PICK f \in BOOLEAN : f = (run.failed \/ lost) /\ (run.failed => f) /\ (f = FALSE => lost = FALSE)
    BY Loss
  <2>2. [run EXCEPT !.failed = f].call = run.call
    BY DEF RunShape
  <2>3. ASSUME NEW v, NEW r
        PROVE  /\ [Pm!Losing(lost) EXCEPT !.prog = Tail(@)].call = run.call
               /\ [[Pm!Losing(lost) EXCEPT !.acc = v] EXCEPT !.prog = Tail(@)].call = run.call
               /\ [[Pm!Losing(lost) EXCEPT !.saved[r] = v] EXCEPT !.prog = Tail(@)].call = run.call
               /\ [[Pm!Losing(lost) EXCEPT !.vars = Append(@, v)] EXCEPT !.prog = Tail(@)].call = run.call
    BY <2>1 DEF Pm!Losing, RunShape
  <2>4. \/ run' = [Pm!Losing(lost) EXCEPT !.prog = Tail(@)]
        \/ \E v : run' = [[Pm!Losing(lost) EXCEPT !.acc = v] EXCEPT !.prog = Tail(@)]
        \/ \E v, r : run' = [[Pm!Losing(lost) EXCEPT !.saved[r] = v] EXCEPT !.prog = Tail(@)]
        \/ \E v : run' = [[Pm!Losing(lost) EXCEPT !.vars = Append(@, v)] EXCEPT !.prog = Tail(@)]
    BY <1>3 DEF Pm!Command, Pm!Next
  <2> QED
    BY <2>3, <2>4
<1>4. CASE Pm!Wait
  BY <1>4 DEF Pm!Wait, Pm!Next, RunShape
<1>5. CASE Pm!Compute
  <2>1. \/ run' = [run EXCEPT !.prog = <<>>] \/ Pm!Next(run)
        \/ (\E v : Pm!Next([run EXCEPT !.acc = v])) \/ (\E v : Pm!Next([run EXCEPT !.result = v]))
    BY <1>5 DEF Pm!Compute
  <2> QED
    BY <2>1 DEF Pm!Next, RunShape
<1> QED
  BY <1>2, <1>3, <1>4, <1>5 DEF Pm!PmicStep

LEMMA PmicGoesOn ==
  ASSUME PmicSound, Pm!PmicStep
  PROVE  PmicSound'
<1>1. CASE run.call.f = "none"
  <2>1. Resting /\ RunShape
    BY <1>1 DEF PmicSound
  <2>2. PICK c \in Calls : Pm!Start(c)
    <3>1. run.prog = <<>>
      BY <2>1 DEF Resting, Pm!NoRun
    <3> QED
      BY <3>1 DEF Pm!PmicStep, Pm!Command, Pm!Wait, Pm!Compute
  <2>3. run'.call = c /\ c.f # "none" /\ RunShape'
    BY <2>1, <2>2, CallStarts, PlatformAssumption DEF Pm!CallsAssumption
  <2>4. ResetSound'
    BY <2>1, <2>2, ResetStarts
  <2>5. PinSound'
    BY <2>1, <2>2, PinStarts
  <2>6. HoldSound'
    BY <2>1, <2>2, HoldStarts
  <2>7. ResinSound'
    BY <2>1, <2>2, ResinStarts
  <2>8. LevelSound'
    BY <2>1, <2>2, LevelStarts
  <2>9. ColdSound'
    BY <2>1, <2>2, ColdStarts
  <2>10. LimitSound'
    BY <2>1, <2>2, LimitStarts
  <2>11. LdoSound'
    BY <2>1, <2>2, LdoStarts
  <2>12. BatterySound'
    BY <2>1, <2>2, BatteryStarts
  <2>13. TaperSound'
    BY <2>1, <2>2, TaperStarts
  <2>14. AdcSound'
    BY <2>1, <2>2, AdcStarts
  <2>15. PwmSound'
    BY <2>1, <2>2, PwmStarts
  <2> QED
    BY <2>3, <2>4, <2>5, <2>6, <2>7, <2>8, <2>9, <2>10, <2>11, <2>12, <2>13, <2>14, <2>15 DEF PmicSound
<1>2. CASE run.call.f # "none"
  <2>1. run'.call = run.call /\ RunShape'
    BY <1>2, CallStays, ShapeKept DEF PmicSound
  <2>2. ResetSound'
    <3>1. CASE run.call.f \in ResetCalls
      BY <3>1, ResetStep DEF PmicSound
    <3>2. CASE ~(run.call.f \in ResetCalls)
      BY <2>1, <3>2 DEF ResetSound
    <3> QED
      BY <3>1, <3>2
  <2>3. PinSound'
    <3>1. CASE run.call.f \in ConfigCalls
      BY <3>1, PinStep DEF PmicSound
    <3>2. CASE ~(run.call.f \in ConfigCalls)
      BY <2>1, <3>2 DEF PinSound
    <3> QED
      BY <3>1, <3>2
  <2>4. HoldSound'
    <3>1. CASE run.call.f \in HoldCalls
      BY <3>1, HoldStep DEF PmicSound
    <3>2. CASE ~(run.call.f \in HoldCalls)
      BY <2>1, <3>2 DEF HoldSound
    <3> QED
      BY <3>1, <3>2
  <2>5. ResinSound'
    <3>1. CASE run.call.f \in ResinCalls
      BY <3>1, ResinStep DEF PmicSound
    <3>2. CASE ~(run.call.f \in ResinCalls)
      BY <2>1, <3>2 DEF ResinSound
    <3> QED
      BY <3>1, <3>2
  <2>6. LevelSound'
    <3>1. CASE run.call.f = "gpio_set"
      BY <3>1, LevelStep DEF PmicSound
    <3>2. CASE ~(run.call.f = "gpio_set")
      BY <2>1, <3>2 DEF LevelSound
    <3> QED
      BY <3>1, <3>2
  <2>7. ColdSound'
    <3>1. CASE run.call.f = "get_is_cold_boot"
      BY <3>1, ColdStep DEF PmicSound
    <3>2. CASE ~(run.call.f = "get_is_cold_boot")
      BY <2>1, <3>2 DEF ColdSound
    <3> QED
      BY <3>1, <3>2
  <2>8. LimitSound'
    <3>1. CASE run.call.f \in LimitCalls
      BY <3>1, LimitStep DEF PmicSound
    <3>2. CASE ~(run.call.f \in LimitCalls)
      BY <2>1, <3>2 DEF LimitSound
    <3> QED
      BY <3>1, <3>2
  <2>9. LdoSound'
    <3>1. CASE run.call.f = "ldo_set_voltage"
      BY <3>1, LdoStep DEF PmicSound
    <3>2. CASE ~(run.call.f = "ldo_set_voltage")
      BY <2>1, <3>2 DEF LdoSound
    <3> QED
      BY <3>1, <3>2
  <2>10. BatterySound'
    <3>1. CASE run.call.f = "pm8xxx_is_battery_broken"
      BY <3>1, BatteryStep DEF PmicSound
    <3>2. CASE ~(run.call.f = "pm8xxx_is_battery_broken")
      BY <2>1, <3>2 DEF BatterySound
    <3> QED
      BY <3>1, <3>2
  <2>11. TaperSound'
    <3>1. CASE run.call.f = "pmi8994_is_battery_broken"
      BY <3>1, TaperStep DEF PmicSound
    <3>2. CASE ~(run.call.f = "pmi8994_is_battery_broken")
      BY <2>1, <3>2 DEF TaperSound
    <3> QED
      BY <3>1, <3>2
  <2>12. AdcSound'
    <3>1. CASE run.call.f = "adc_channel_read"
      BY <3>1, AdcStep DEF PmicSound
    <3>2. CASE ~(run.call.f = "adc_channel_read")
      BY <2>1, <3>2 DEF AdcSound
    <3> QED
      BY <3>1, <3>2
  <2>13. PwmSound'
    <3>1. CASE run.call.f = "pwm_config"
      BY <3>1, PwmStep DEF PmicSound
    <3>2. CASE ~(run.call.f = "pwm_config")
      BY <2>1, <3>2 DEF PwmSound
    <3> QED
      BY <3>1, <3>2
  <2> QED
    BY <1>2, <2>1, <2>2, <2>3, <2>4, <2>5, <2>6, <2>7, <2>8, <2>9, <2>10, <2>11, <2>12, <2>13 DEF PmicSound
<1> QED
  BY <1>1, <1>2

LEMMA PmicRests ==
  ASSUME PmicSound, UNCHANGED Pm!pvars
  PROVE  PmicSound'
<1>1. UNCHANGED <<pregs, unlocked, settled, msm, run>>
  BY DEF Pm!pvars
<1>2. RunShape' /\ (run'.call.f = "none" => Resting')
  BY <1>1 DEF PmicSound, RunShape, Resting
<1>3. ResetSound'
  BY <1>1 DEF PmicSound, ResetSound, ResetHere, PmAt
<1>4. PinSound'
  <2>1. \A c, k : PmAt(PinSteps(c), k) /\ PinHere(c, k) => (PmAt(PinSteps(c), k) /\ PinHere(c, k))'
    <3> SUFFICES ASSUME NEW c, NEW k, PmAt(PinSteps(c), k), PinHere(c, k)
                 PROVE  (PmAt(PinSteps(c), k) /\ PinHere(c, k))'
      OBVIOUS
    <3>1. PmAt(PinSteps(c), k)'
      BY <1>1 DEF PmAt
    <3>2. PinHere(c, k)'
      BY <1>1 DEF PinHere
    <3> QED
      BY <3>1, <3>2
  <2>2. PinSound /\ run' = run
    BY <1>1 DEF PmicSound
  <2> QED
    BY ONLY <2>1, <2>2 DEF PinSound
<1>5. HoldSound'
  BY <1>1 DEF PmicSound, HoldSound, HoldHere, PmAt
<1>6. ResinSound'
  BY <1>1 DEF PmicSound, ResinSound, ResinHere, PmAt
<1>7. LevelSound'
  BY <1>1 DEF PmicSound, LevelSound, LevelHere, PmAt
<1>8. ColdSound'
  BY <1>1 DEF PmicSound, ColdSound, ColdHere, PmAt
<1>9. LimitSound'
  BY <1>1 DEF PmicSound, LimitSound, LimitHere, PmAt
<1>10. LdoSound'
  BY <1>1 DEF PmicSound, LdoSound, LdoHere, PmAt
<1>11. BatterySound'
  BY <1>1 DEF PmicSound, BatterySound, BatteryHere, PmAt
<1>12. TaperSound'
  BY <1>1 DEF PmicSound, TaperSound, TaperHere, PmAt
<1>13. AdcSound'
  BY <1>1 DEF PmicSound, AdcSound, AdcHere, PmAt
<1>14. PwmSound'
  BY <1>1 DEF PmicSound, PwmSound, PwmHere, PmAt
<1> QED
  BY <1>2, <1>3, <1>4, <1>5, <1>6, <1>7, <1>8, <1>9, <1>10, <1>11, <1>12, <1>13, <1>14 DEF PmicSound

LEMMA PmicAlways == PlatformSpec => []PmicSound
<1>1. PlatformInit => PmicSound
  BY PmicStarts DEF PlatformInit
<1>2. PmicSound /\ [PlatformNext]_platformVars => PmicSound'
  <2> SUFFICES ASSUME PmicSound, [PlatformNext]_platformVars PROVE PmicSound'
    OBVIOUS
  <2>1. Pm!PmicStep \/ UNCHANGED Pm!pvars
    BY DEF PlatformNext, SpmiNext, PmicNext, Pins, platformVars, pvars, Pm!pvars
  <2> QED
    BY <2>1, PmicGoesOn, PmicRests
<1> QED
  BY <1>1, <1>2, PTL DEF PlatformSpec

LEMMA AtReturn ==
  ASSUME NEW S, NEW s \in Seq(S), NEW k, PmAt(s, k), run.prog = <<>>
  PROVE  k = Len(s) + 1
BY RestOfProgram

LEMMA ResetsDone ==
  ASSUME PmicSound, Pm!Returned, run.call.f \in ResetCalls
  PROVE  Pm!ResetArmed(run.call.type)
<1>1. PICK c \in Calls, k \in Nat : run.call = c /\ PmAt(ResetSteps(c), k) /\ ResetHere(c, k)
  BY DEF PmicSound, ResetSound, Pm!Returned
<1>2. PICK S : ResetSteps(c) \in Seq(S)
  BY <1>1, ResetOrder
<1>3. k = Len(ResetSteps(c)) + 1 /\ Len(ResetSteps(c)) \in {4, 5}
  BY <1>1, <1>2, AtReturn, ResetOrder DEF Pm!Returned
<1>4. c.type # "S2_RESET_EN"
  BY <1>1, PlatformAssumption DEF Pm!CallsAssumption, ResetCalls
<1>5. pregs[Ps2] = {"S2_RESET_EN"} /\ pregs[Ps] = {c.type}
  <2>0. PICK n \in {4, 5} : n = Len(ResetSteps(c))
    BY <1>3
  <2>1. PICK last \in {5, 6} : last = Len(ResetSteps(c)) + 1 /\ k = last
    <3>1. n = 4 \/ n = 5
      OBVIOUS
    <3>2. k = n + 1
      BY ONLY <1>3, <2>0
    <3>3. n + 1 = 5 \/ n + 1 = 6
      BY ONLY <3>1
    <3> QED
      BY ONLY <2>0, <3>2, <3>3
  <2>2. /\ k = last => pregs[Ps2] = {"S2_RESET_EN"}
        /\ IF k < 4 THEN pregs[Ps] = run.before[Ps] ELSE pregs[Ps] = {c.type}
    BY <1>1, <2>1 DEF ResetHere
  <2> QED
    BY <2>1, <2>2
<1> QED
  BY <1>1, <1>4, <1>5 DEF Pm!ResetArmed, Pm!EnabledIn, Ps, Ps2

LEMMA HoldsDone ==
  ASSUME PmicSound, Pm!Returned, run.call.f \in HoldCalls
  PROVE  msm = {HoldType(run.call)}
<1>1. PICK c \in Calls, k \in Nat : run.call = c /\ PmAt(HoldSteps(c), k) /\ HoldHere(c, k)
  BY DEF PmicSound, HoldSound, Pm!Returned
<1>2. PICK S : HoldSteps(c) \in Seq(S)
  BY HoldOrder
<1>3. k = 8
  <2>1. k = Len(HoldSteps(c)) + 1
    BY <1>1, <1>2, AtReturn DEF Pm!Returned
  <2>2. Len(HoldSteps(c)) = 7
    BY HoldOrder
  <2> QED
    BY ONLY <2>1, <2>2
<1> QED
  BY <1>1, <1>3 DEF HoldHere

LEMMA ResinDone ==
  ASSUME PmicSound, Pm!Returned, run.call.f \in ResinCalls
  PROVE  IF run.call.f = "v2_resin_status"
         THEN /\ "S2_RESET_EN" \notin pregs[Resin]
              /\ run.result = Pm!Flag("RESIN_BARK" \in pregs[RtSts])
         ELSE pregs[Resin] = {"TYPE_WARM", "S2_RESET_EN"}
<1>1. PICK c \in Calls, k \in Nat : run.call = c /\ PmAt(ResinSteps(c), k) /\ ResinHere(c, k)
  BY DEF PmicSound, ResinSound, Pm!Returned
<1>2. PICK S : ResinSteps(c) \in Seq(S)
  BY ResinOrder
<1>3. k = ResinLength(c) + 1
  <2>1. k = Len(ResinSteps(c)) + 1
    BY <1>1, <1>2, AtReturn DEF Pm!Returned
  <2>2. Len(ResinSteps(c)) = ResinLength(c)
    BY ResinOrder
  <2> QED
    BY ONLY <2>1, <2>2 DEF ResinLength
<1> QED
  BY <1>1, <1>3 DEF ResinHere, ResinLength

LEMMA PinsDone ==
  ASSUME PmicSound, Pm!Returned, run.call.f \in ConfigCalls
  PROVE  LET c == run.call IN
         /\ Pm!GpioAsAsked(PinOf(c), c) /\ "EN" \in pregs[<<PinOf(c), "GPIO_EN">>]
         /\ \A sid \in 0 .. 2 \ {PinOf(c)} : Pm!Same(Pm!GpioRegs(sid))
<1>1. PICK c \in Calls, k \in Nat : run.call = c /\ PmAt(PinSteps(c), k) /\ PinHere(c, k)
  BY DEF PmicSound, PinSound, Pm!Returned
<1>2. PICK S : PinSteps(c) \in Seq(S)
  BY PinOrder
<1>3. k = PinLength(c) + 1
  <2>1. k = Len(PinSteps(c)) + 1
    BY <1>1, <1>2, AtReturn DEF Pm!Returned
  <2>2. Len(PinSteps(c)) = PinLength(c)
    BY PinOrder
  <2> QED
    BY ONLY <2>1, <2>2 DEF PinLength
<1>4. Pm!GpioAsAsked(PinOf(c), c) /\ "EN" \in pregs[<<PinOf(c), "GPIO_EN">>]
  BY <1>1, <1>3 DEF PinHere, PinLength, Pm!GpioAsAsked, Pin
<1>5. ASSUME NEW sid \in 0 .. 2 \ {PinOf(c)} PROVE Pm!Same(Pm!GpioRegs(sid))
  <2>1. ASSUME NEW name \in {"GPIO_MODE", "GPIO_PULL", "GPIO_VIN"}
        PROVE  pregs[<<sid, name>>] = run.before[<<sid, name>>]
    <3>1. <<sid, name>> \in Pm!Registers
      BY DEF Pm!Registers
    <3>2. \A other : <<sid, name>> # Pin(c, other)
      BY DEF Pin
    <3> QED
      BY <1>1, <3>1, <3>2 DEF PinHere
  <2> QED
    BY <2>1 DEF Pm!Same, Pm!GpioRegs
<1> QED
  BY <1>1, <1>4, <1>5

LEMMA LevelDone ==
  ASSUME PmicSound, Pm!Returned, run.call.f = "gpio_set"
  PROVE  pregs[Mode0] = (run.before[Mode0] \ Pm!Functions) \cup {run.call.value}
<1>1. PICK c \in Calls, k \in Nat : run.call = c /\ PmAt(LevelSteps(c), k) /\ LevelHere(c, k)
  BY DEF PmicSound, LevelSound, Pm!Returned
<1>2. PICK S : LevelSteps(c) \in Seq(S)
  BY LevelOrder
<1>3. k = 5
  <2>1. k = Len(LevelSteps(c)) + 1
    BY <1>1, <1>2, AtReturn DEF Pm!Returned
  <2>2. Len(LevelSteps(c)) = 4
    BY LevelOrder
  <2> QED
    BY ONLY <2>1, <2>2
<1> QED
  BY <1>1, <1>3 DEF LevelHere

LEMMA ColdDone ==
  ASSUME PmicSound, Pm!Returned, run.call.f = "get_is_cold_boot"
  PROVE  run.result = Pm!Flag("WARM" \in pregs[Warm1] \cup pregs[Warm2])
<1>1. PICK k \in Nat : PmAt(Pm!pm8x41_get_is_cold_boot, k) /\ ColdHere(k)
  BY DEF PmicSound, ColdSound, Pm!Returned
<1>2. PICK S : Pm!pm8x41_get_is_cold_boot \in Seq(S)
  BY ColdOrder
<1>3. k = 6
  <2>1. k = Len(Pm!pm8x41_get_is_cold_boot) + 1
    BY <1>1, <1>2, AtReturn DEF Pm!Returned
  <2>2. Len(Pm!pm8x41_get_is_cold_boot) = 5
    BY ColdOrder
  <2> QED
    BY ONLY <2>1, <2>2
<1> QED
  BY <1>1, <1>3 DEF ColdHere

LEMMA LimitsDone ==
  ASSUME PmicSound, Pm!Returned, run.call.f \in LimitCalls, run.result = 0
  PROVE  LimitMul(run.call) # -1 /\ Pm!Number(LimitReg(run.call)) = LimitMul(run.call)
<1>1. PICK c \in Calls, k \in Nat : run.call = c /\ PmAt(LimitSteps(c), k) /\ LimitHere(c, k)
  BY DEF PmicSound, LimitSound, Pm!Returned
<1>2. PICK S : LimitSteps(c) \in Seq(S)
  BY LimitOrder
<1>3. k = IF LimitMul(c) = -1 THEN 2 ELSE 3
  <2>1. k = Len(LimitSteps(c)) + 1
    BY <1>1, <1>2, AtReturn DEF Pm!Returned
  <2>2. Len(LimitSteps(c)) = IF LimitMul(c) = -1 THEN 1 ELSE 2
    BY LimitOrder
  <2> QED
    BY ONLY <2>1, <2>2
<1>4. LimitMul(c) # -1 /\ pregs[LimitReg(c)] = Pm!Num(LimitMul(c))
  BY <1>1, <1>3 DEF LimitHere
<1> QED
  BY <1>1, <1>4, NumberOf

LEMMA LdoDone ==
  ASSUME PmicSound, Pm!Returned, run.call.f = "ldo_set_voltage"
  PROVE  LET range == Pm!Number(<<1, "LDO_RANGE">>) IN
         run.call.voltage - Pm!Volts(range, Pm!Number(<<1, "LDO_STEP">>)) \in 0 .. Pm!LdoStep(range) - 1
<1>1. PICK c \in Calls, k \in Nat : run.call = c /\ PmAt(LdoSteps(c), k) /\ LdoHere(c, k)
  BY DEF PmicSound, LdoSound, Pm!Returned
<1>2. PICK S : LdoSteps(c) \in Seq(S)
  BY LdoOrder
<1>3. k = 4
  <2>1. k = Len(LdoSteps(c)) + 1
    BY <1>1, <1>2, AtReturn DEF Pm!Returned
  <2>2. Len(LdoSteps(c)) = 3
    BY LdoOrder
  <2> QED
    BY ONLY <2>1, <2>2
<1> DEFINE range == Pm!LdoRange(c.type, c.voltage)
<1>4. /\ pregs[<<1, "LDO_RANGE">>] = Pm!Num(range)
      /\ pregs[<<1, "LDO_STEP">>] = Pm!Num(Pm!LdoMult(range, c.voltage))
  BY <1>1, <1>3 DEF LdoHere
<1>5. Pm!Number(<<1, "LDO_RANGE">>) = range /\ Pm!Number(<<1, "LDO_STEP">>) = Pm!LdoMult(range, c.voltage)
  BY <1>4, NumberOf
<1>6. c.voltage - Pm!Volts(range, Pm!LdoMult(range, c.voltage)) \in 0 .. Pm!LdoStep(range) - 1
  BY <1>1, VoltageReached
<1> QED
  BY ONLY <1>1, <1>5, <1>6

LEMMA BatteryDone ==
  ASSUME PmicSound, Pm!Returned, run.call.f = "pm8xxx_is_battery_broken"
  PROVE  /\ Pm!Same({0} \X {"IBAT_ATC", "VBAT_DET", "TRKL_CHG_TEST", "CHG_CTRL"})
         /\ run.result = Pm!Flag("VBAT_DET_HI" \in pregs[Tsts])
<1>1. PICK k \in Nat : PmAt(Pm!pm8xxx_is_battery_broken, k) /\ BatteryHere(k)
  BY DEF PmicSound, BatterySound, Pm!Returned
<1>2. PICK S : Pm!pm8xxx_is_battery_broken \in Seq(S)
  BY BatteryOrder
<1>3. k = 18
  <2>1. k = Len(Pm!pm8xxx_is_battery_broken) + 1
    BY <1>1, <1>2, AtReturn DEF Pm!Returned
  <2>2. Len(Pm!pm8xxx_is_battery_broken) = 17
    BY BatteryOrder
  <2> QED
    BY ONLY <2>1, <2>2
<1>4. /\ \A r \in {Ibat, Vbat, Trkl, Chg} : pregs[r] = run.before[r]
      /\ run.result = Pm!Flag("VBAT_DET_HI" \in pregs[Tsts])
  BY <1>1, <1>3 DEF BatteryHere
<1>5. {0} \X {"IBAT_ATC", "VBAT_DET", "TRKL_CHG_TEST", "CHG_CTRL"} = {Ibat, Vbat, Trkl, Chg}
  BY DEF Ibat, Vbat, Trkl, Chg, Pm!Smbb
<1> QED
  BY ONLY <1>4, <1>5 DEF Pm!Same

LEMMA TaperDone ==
  ASSUME PmicSound, Pm!Returned, run.call.f = "pmi8994_is_battery_broken"
  PROVE  /\ Pm!Same({<<2, "FCC_CFG">>})
         /\ "TERM_EN" \in pregs[<<2, "CHGR_CFG2">>] /\ "POLLER_EN" \in pregs[<<2, "TRIM_OPTIONS">>]
<1>1. PICK k \in Nat : PmAt(Pm!pmi8994_is_battery_broken, k) /\ TaperHere(k)
  BY DEF PmicSound, TaperSound, Pm!Returned
<1>2. PICK S : Pm!pmi8994_is_battery_broken \in Seq(S)
  BY TaperOrder
<1>3. k = 21
  <2>1. k = Len(Pm!pmi8994_is_battery_broken) + 1
    BY <1>1, <1>2, AtReturn DEF Pm!Returned
  <2>2. Len(Pm!pmi8994_is_battery_broken) = 20
    BY TaperOrder
  <2> QED
    BY ONLY <2>1, <2>2
<1> QED
  BY <1>1, <1>3 DEF TaperHere, Pm!Same, Fcc, Cfg2, Trim

LEMMA ReadingDone ==
  ASSUME PmicSound, Pm!Returned, run.call.f = "adc_channel_read",
         Pm!get_channel_prop(run.call.chan).calib = "ABS"
  PROVE  ReadingNear(run.call)
<1>1. PICK c \in Calls, k \in Nat : run.call = c /\ PmAt(AdcSteps(c), k) /\ AdcHere(c, k)
  BY DEF PmicSound, AdcSound, Pm!Returned
<1>2. PICK S : AdcSteps(c) \in Seq(S)
  BY AdcOrder
<1>3. k = 23
  <2>1. k = Len(AdcSteps(c)) + 1
    BY <1>1, <1>2, AtReturn DEF Pm!Returned
  <2>2. Len(AdcSteps(c)) = 22
    BY AdcOrder
  <2> QED
    BY ONLY <2>1, <2>2
<1>4. AdcConf(c).calib = "ABS"
  BY <1>1 DEF AdcConf
<1>5. ReadingNear(c)
  <2>1. c.f = "adc_channel_read" /\ AdcHere(c, 23)
    BY <1>1, <1>3
  <2> QED
    BY <1>4, <2>1, ReadingCalibrated
<1> QED
  BY ONLY <1>1, <1>5

LEMMA PeriodDone ==
  ASSUME PmicSound, Pm!Returned, run.call.f = "pwm_config", run.result = 0
  PROVE  Pm!PeriodBest(run.call)
<1>1. PICK c \in Calls, k \in Nat : run.call = c /\ PmAt(PwmSteps(c), k) /\ PwmHere(c, k)
  BY DEF PmicSound, PwmSound, Pm!Returned
<1>2. PICK S : PwmSteps(c) \in Seq(S)
  BY PwmOrder
<1>3. k = IF PwmRefused(c) THEN 2 ELSE 6
  <2>1. k = Len(PwmSteps(c)) + 1
    BY <1>1, <1>2, AtReturn DEF Pm!Returned
  <2>2. Len(PwmSteps(c)) = IF PwmRefused(c) THEN 1 ELSE 5
    BY PwmOrder
  <2> QED
    BY ONLY <2>1, <2>2
<1>4. ~PwmRefused(c) /\ pregs[SizeClk] = PwmClock(c) /\ pregs[Prediv] = PwmDivider(c)
  BY <1>1, <1>3 DEF PwmHere
<1> QED
  BY <1>1, <1>4, PeriodReached

-----------------------------------------------------------------------------
(* Pmic: the properties.                                                    *)

LEMMA SoundMeansDone ==
  ASSUME PmicSound
  PROVE  Pm!PmicPost
<1> SUFFICES ASSUME Pm!Returned PROVE Pm!PmicPost
  BY DEF Pm!PmicPost
<1> DEFINE c == run.call
<1>1. c.f \in {"reset_configure", "pm8994_reset_configure"} => Pm!ResetArmed(c.type)
  BY ResetsDone DEF ResetCalls
<1>2. /\ c.f \in {"ResetCold", "ResetWarm", "ResetPlatformSpecific"} => msm = {"HARD_RESET"}
      /\ c.f = "ResetShutdown" => msm = {"SHUTDOWN"}
  BY HoldsDone DEF HoldCalls, HoldType
<1>3. /\ c.f = "resin_s2_reset_enable"
           => pregs[Pm!Pon("RESIN_S2_CTL")] = {"TYPE_WARM", "S2_RESET_EN"}
      /\ c.f = "v2_resin_status" =>
            /\ "S2_RESET_EN" \notin pregs[Pm!Pon("RESIN_S2_CTL")]
            /\ run.result = Pm!Flag("RESIN_BARK" \in pregs[Pm!Pon("INT_RT_STS")])
  BY ResinDone DEF ResinCalls, Resin, RtSts
<1>4. c.f = "pm8xxx_is_battery_broken" =>
            /\ Pm!Same({0} \X {"IBAT_ATC", "VBAT_DET", "TRKL_CHG_TEST", "CHG_CTRL"})
            /\ run.result = Pm!Flag("VBAT_DET_HI" \in pregs[Pm!Smbb("VBAT_IN_TSTS")])
  BY BatteryDone DEF Tsts
<1>5. c.f = "pmi8994_is_battery_broken" =>
            /\ Pm!Same({<<2, "FCC_CFG">>})
            /\ "TERM_EN" \in pregs[<<2, "CHGR_CFG2">>] /\ "POLLER_EN" \in pregs[<<2, "TRIM_OPTIONS">>]
  BY TaperDone
<1>6. /\ c.f = "gpio_config" => Pm!GpioAsAsked(0, c) /\ "EN" \in pregs[<<0, "GPIO_EN">>]
      /\ c.f = "gpio_config_sid" =>
            /\ Pm!GpioAsAsked(c.sid, c) /\ "EN" \in pregs[<<c.sid, "GPIO_EN">>]
            /\ \A sid \in 0 .. 2 \ {c.sid} : Pm!Same(Pm!GpioRegs(sid))
  BY PinsDone DEF ConfigCalls, PinOf
<1>7. c.f = "gpio_set" => pregs[<<0, "GPIO_MODE">>] =
                              (run.before[<<0, "GPIO_MODE">>] \ Pm!Functions) \cup {c.value}
  BY LevelDone DEF Mode0
<1>8. c.f = "get_is_cold_boot" =>
            run.result = Pm!Flag("WARM" \in pregs[Pm!Pon("WARMBOOT1")] \cup pregs[Pm!Pon("WARMBOOT2")])
  BY ColdDone DEF Warm1, Warm2
<1>9. c.f = "ldo_set_voltage" =>
            LET range == Pm!Number(<<1, "LDO_RANGE">>) IN
            c.voltage - Pm!Volts(range, Pm!Number(<<1, "LDO_STEP">>)) \in 0 .. Pm!LdoStep(range) - 1
  BY LdoDone
<1>10. c.f = "iusb_max" /\ run.result = 0 => Pm!CurrentLimited(c)
  BY LimitsDone, LimitsRoundDown DEF LimitCalls, LimitReg, LimitMul, Pm!CurrentLimited
<1>11. c.f = "ibat_max" /\ run.result = 0 =>
            c.ua - (Pm!BAT.min + Pm!BAT.step * Pm!Number(Pm!Smbb("IBAT_MAX"))) \in 0 .. Pm!BAT.step - 1
  <2>1. c.f = "ibat_max" => LimitMul(c) = Pm!ibat_max(c.ua) /\ LimitReg(c) = Pm!Smbb("IBAT_MAX")
    BY DEF LimitReg, LimitMul
  <2> QED
    BY <2>1, LimitsDone, LimitsRoundDown DEF LimitCalls
<1>12. c.f = "vdd_max" /\ run.result = 0 =>
            c.uv - (Pm!VDD.min + Pm!VDD.step * Pm!Number(Pm!Smbb("VDD_MAX"))) \in 0 .. Pm!VDD.step - 1
  <2>1. c.f = "vdd_max" => LimitMul(c) = Pm!vdd_max(c.uv) /\ LimitReg(c) = Pm!Smbb("VDD_MAX")
    BY DEF LimitReg, LimitMul
  <2> QED
    BY <2>1, LimitsDone, LimitsRoundDown DEF LimitCalls
<1>13. c.f = "adc_channel_read" /\ Pm!get_channel_prop(c.chan).calib = "ABS" => Pm!ReadingWithin(c)
  <2>1. ReadingNear(c) => Pm!ReadingWithin(c)
    BY DEF ReadingNear, Gap, Pm!ReadingWithin
  <2> QED
    BY <2>1, ReadingDone
<1>14. c.f = "pwm_config" /\ run.result = 0 => Pm!PeriodBest(c)
  BY PeriodDone
<1> QED
  BY <1>1, <1>2, <1>3, <1>4, <1>5, <1>6, <1>7, <1>8, <1>9, <1>10, <1>11, <1>12, <1>13, <1>14
     DEF Pm!PmicPost

LEMMA SoundPins ==
  ASSUME PmicSound, run.call.f \in ConfigCalls, ~run.failed, NEW sid \in 0 .. 2,
         "EN" \in pregs[<<sid, "GPIO_EN">>]
  PROVE  Pm!Same(Pm!GpioRegs(sid)) \/ Pm!GpioAsAsked(sid, run.call)
<1>1. PICK c \in Calls, k \in Nat : run.call = c /\ PmAt(PinSteps(c), k) /\ PinHere(c, k)
  BY DEF PmicSound, PinSound
<1>2. PinLength(c) \in {9, 10}
  BY DEF PinLength
<1>3. k \in 1 .. PinLength(c) + 1
  <2>1. Len(PinSteps(c)) = PinLength(c)
    BY <1>1, PinOrder
  <2> QED
    BY ONLY <1>1, <2>1 DEF PmAt
<1>4. Pm!GpioRegs(sid) = {<<sid, "GPIO_MODE">>, <<sid, "GPIO_PULL">>, <<sid, "GPIO_VIN">>}
  BY DEF Pm!GpioRegs
<1>5. Pm!GpioRegs(sid) \subseteq Pm!Registers
  BY <1>4 DEF Pm!Registers
<1>6. CASE sid # PinOf(c)
  <2>1. ASSUME NEW r \in Pm!GpioRegs(sid) PROVE pregs[r] = run.before[r]
    <3>1. \A other : r # Pin(c, other)
      BY <1>4, <1>6 DEF Pin
    <3> QED
      BY <1>1, <1>5, <3>1 DEF PinHere
  <2> QED
    BY <2>1 DEF Pm!Same
<1>7. CASE sid = PinOf(c)
  <2>1. k < 4 \/ k = PinLength(c) + 1
    <3>1. <<sid, "GPIO_EN">> = Pin(c, "GPIO_EN")
      BY <1>7 DEF Pin
    <3>2. ~(k > 3 /\ k <= PinLength(c))
      BY <1>1, <3>1 DEF PinHere
    <3> QED
      BY ONLY <1>2, <1>3, <3>2
  <2>2. CASE k < 4
    <3>1. /\ pregs[Pin(c, "GPIO_MODE")] = run.before[Pin(c, "GPIO_MODE")]
          /\ pregs[Pin(c, "GPIO_PULL")] = run.before[Pin(c, "GPIO_PULL")]
          /\ pregs[Pin(c, "GPIO_VIN")] = run.before[Pin(c, "GPIO_VIN")]
      BY <1>1, <2>2 DEF PinHere
    <3> QED
      BY <1>4, <1>7, <3>1 DEF Pm!Same, Pin
  <2>3. CASE k = PinLength(c) + 1
    <3>1. k > 7
      BY ONLY <1>2, <2>3
    <3> QED
      BY <1>1, <1>7, <3>1 DEF PinHere, Pm!GpioAsAsked, Pin
  <2> QED
    BY <2>1, <2>2, <2>3
<1> QED
  BY <1>6, <1>7

LEMMA SoundResets ==
  ASSUME PmicSound, run.call.f \in ResetCalls, ~run.failed, Pm!EnabledIn(pregs, Ps)
  PROVE  Pm!ResetArmed(run.call.type) \/ Pm!Same({Ps, Ps2})
<1>1. PICK c \in Calls, k \in Nat : run.call = c /\ PmAt(ResetSteps(c), k) /\ ResetHere(c, k)
  BY DEF PmicSound, ResetSound
<1>2. PICK last \in {5, 6} : last = Len(ResetSteps(c)) + 1 /\ k \in 1 .. last
  <2>1. PICK n \in {4, 5} : n = Len(ResetSteps(c))
    BY <1>1, ResetOrder
  <2>2. n + 1 \in {5, 6} /\ k \in 1 .. n + 1
    BY <1>1, <2>1 DEF PmAt
  <2> QED
    BY <2>1, <2>2
<1>3. c.type # "S2_RESET_EN"
  BY <1>1, PlatformAssumption DEF Pm!CallsAssumption, ResetCalls
<1>4. /\ "S2_RESET_EN" \notin run.before[Ps]
      /\ k = 1 => pregs[Ps2] = run.before[Ps2]
      /\ k > 1 /\ k < last => pregs[Ps2] = {}
      /\ IF k < 4 THEN pregs[Ps] = run.before[Ps] ELSE pregs[Ps] = {c.type}
  BY <1>1, <1>2 DEF ResetHere
<1>5. "S2_RESET_EN" \in pregs[Ps] \cup pregs[Ps2]
  BY DEF Pm!EnabledIn, Ps, Ps2
<1>6. "S2_RESET_EN" \notin pregs[Ps]
  BY <1>3, <1>4
<1>7. k = 1 \/ k = last
  BY <1>2, <1>4, <1>5, <1>6
<1>8. CASE k = 1
  BY <1>4, <1>8 DEF Pm!Same
<1>9. CASE k = last
  <2>1. pregs[Ps] = {c.type}
    BY <1>2, <1>4, <1>9
  <2> QED
    BY <1>1, <1>3, <2>1 DEF Pm!ResetArmed, Ps
<1> QED
  BY <1>7, <1>8, <1>9

\* A function of the PMIC driver of which no command failed has done what it
\* says when it returns: the reset, the pin, the regulator, the limit, the
\* battery test, the reading and the period of the PWM, if its 32 bits hold
\* it, are as asked for (pm8x41.c, pm8x41_adc.c, pm_pwm.c), for any calls and
\* any codes of the converter.
THEOREM CallsKeepTheirWord == PlatformSpec => []PmicPost
<1>1. PmicSound => PmicPost
  BY SoundMeansDone DEF PmicPost
<1> QED
  BY <1>1, PmicAlways, PTL

\* Between two commands a pin is enabled only with the settings it had or with
\* those asked for, and a reset only with a whole type (pm8x41.c 115-141,
\* 334-392).
THEOREM DisabledWhileItChanges == PlatformSpec => []NeverHalfConfigured
<1>1. PmicSound => NeverHalfConfigured
  <2> SUFFICES ASSUME PmicSound PROVE Pm!NeverHalfConfigured
    BY DEF NeverHalfConfigured
  <2>1. ASSUME ~run.failed, NEW sid \in 0 .. 2, "EN" \in pregs[<<sid, "GPIO_EN">>],
               run.call.f \in {"gpio_config", "gpio_config_sid"}
        PROVE  Pm!Same(Pm!GpioRegs(sid)) \/ Pm!GpioAsAsked(sid, run.call)
    BY <2>1, SoundPins DEF ConfigCalls
  <2>2. ASSUME ~run.failed, run.call.f \in {"reset_configure", "pm8994_reset_configure"},
               Pm!EnabledIn(pregs, Pm!Pon("PS_HOLD_CTL"))
        PROVE  Pm!ResetArmed(run.call.type)
                 \/ Pm!Same({Pm!Pon("PS_HOLD_CTL"), Pm!Pon("PS_HOLD_CTL2")})
    BY <2>2, SoundResets DEF ResetCalls, Ps, Ps2
  <2> QED
    BY <2>1, <2>2 DEF Pm!NeverHalfConfigured
<1> QED
  BY <1>1, PmicAlways, PTL
=============================================================================
