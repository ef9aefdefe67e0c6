------------------------------ MODULE Slot_proofs ------------------------------
(* Theorems of the slot: bringing up its controller, initialising its card,  *)
(* and the block management operations beside it.                            *)
(*                                                                           *)
(* The argument has two halves.  While the controller comes up, IInv says    *)
(* which interrupts may be pending at each step of the driver.  Afterwards   *)
(* CardInv says where in which list of steps the driver is (At) and what is  *)
(* true of the card, the host and the record at that place (Here): the       *)
(* record of a card is established step by step, so what a step needs is    *)
(* stated at the steps before it.  The management operations are independent *)
(* of both: their invariant relates the operation's own variables only.      *)
EXTENDS Slot, DataLemmas

-----------------------------------------------------------------------------
(* Bringing up the host.                                                    *)

\* Seen from the controller, the slot is the bringing up of the host.
LEMMA SlotBringsUp == SlotSpec => Spec
<1>1. SlotInit => Init
  BY DEF SlotInit
<1>2. [SlotNext]_vars => [Next]_ivars
  BY DEF SlotNext, vars, HostNext, mmc_init, CardNext, Open, Manage
<1> QED
  BY <1>1, <1>2, PTL DEF SlotSpec, Spec

\* The driver has gone past the clearing of what was pending.
Cleared == ipc \notin {"msm_init", "clear"}
\* It has asked the controller for bus power.
Asked == ipc \in {"wait", "setup", "clock", "stable", "up"}

\* An interrupt that is pending after the clearing is the answer to the
\* request for power, for the controller raises no other; so the handler can
\* only signal the event when that request is the one it answers.
IInv ==
    /\ bus \in {"off", "asked", "raised", "on"}
    /\ Cleared /\ bus \in {"off", "asked"} => status = {}
    /\ gic = "unmasked" => Cleared
    /\ ~Asked => bus = "off"
    /\ event => bus = "on"
    /\ PowerBeforeUse

LEMMA InitIInv == Init => IInv
BY DEF Init, IInv, Cleared, Asked, PowerBeforeUse

\* The driver moves on; only the wait for the event needs it.
LEMMA DriverIInv == IInv /\ DriverStep => IInv'
<1> SUFFICES ASSUME IInv, DriverStep PROVE IInv'
  OBVIOUS
<1> USE DEF IInv, Cleared, Asked, PowerBeforeUse
<1>1. CASE sdhci_soft_reset
  BY <1>1 DEF sdhci_soft_reset
<1>2. CASE sdhci_clear_power_ctrl_irq
  BY <1>2 DEF sdhci_clear_power_ctrl_irq
<1>3. CASE register_int_handler
  BY <1>3 DEF register_int_handler
<1>4. CASE unmask_interrupt
  BY <1>4 DEF unmask_interrupt
<1>5. CASE EnablePwrCtrlInt
  BY <1>5 DEF EnablePwrCtrlInt
<1>6. CASE ReadCaps
  BY <1>6 DEF ReadCaps
<1>7. CASE sdhci_set_bus_power_on
  BY <1>7 DEF sdhci_set_bus_power_on
<1>8. CASE WaitForEvent
  BY <1>8 DEF WaitForEvent
<1>9. CASE SetupHost
  BY <1>9 DEF SetupHost
<1>10. CASE sdhci_clk_supply
  BY <1>10 DEF sdhci_clk_supply
<1>11. CASE EnableClock
  BY <1>11 DEF EnableClock
<1> QED
  BY <1>1, <1>2, <1>3, <1>4, <1>5, <1>6, <1>7, <1>8, <1>9, <1>10, <1>11 DEF DriverStep

\* The controller raises the request for power, once it was asked.
LEMMA HardwareIInv == IInv /\ HardwareStep => IInv'
<1> SUFFICES ASSUME IInv, HardwareStep PROVE IInv'
  OBVIOUS
<1> USE DEF IInv, Cleared, Asked, PowerBeforeUse
<1>1. CASE HwPowerRequest
  BY <1>1 DEF HwPowerRequest
<1>2. CASE HwClockStable
  BY <1>2 DEF HwClockStable
<1> QED
  BY <1>1, <1>2 DEF HardwareStep

\* An interrupt that is handled has something pending, after the clearing: the
\* request for power is up or was answered.
LEMMA HandlerIInv == IInv /\ sdhci_int_handler => IInv'
<1> SUFFICES ASSUME IInv, sdhci_int_handler PROVE IInv'
  OBVIOUS
<1>1. Cleared /\ status # {}
  BY DEF IInv, sdhci_int_handler
<1>2. bus \in {"raised", "on"}
  BY <1>1 DEF IInv
<1>3. bus' = "on"
  BY <1>2 DEF sdhci_int_handler
<1> QED
  BY <1>2, <1>3 DEF IInv, Cleared, Asked, PowerBeforeUse, sdhci_int_handler

\* The card is clocked, and the host set up, only with the bus on: no wake-up
\* of an earlier use of the slot gets past WaitForEvent (sdhci_msm.c 174-182,
\* sdhci.c 937-940).
THEOREM PoweredFirst == SlotSpec => []PowerBeforeUse
<1>1. IInv /\ [Next]_ivars => IInv'
  <2> SUFFICES ASSUME IInv, [Next]_ivars PROVE IInv'
    OBVIOUS
  <2>1. CASE UNCHANGED ivars
    BY <2>1 DEF ivars, IInv, Cleared, Asked, PowerBeforeUse
  <2> QED
    BY <2>1, DriverIInv, HardwareIInv, HandlerIInv DEF Next
<1>2. IInv => PowerBeforeUse
  BY DEF IInv
<1> QED
  BY SlotBringsUp, InitIInv, <1>1, <1>2, PTL DEF Spec

-----------------------------------------------------------------------------
(* The identification clock.                                                *)

\* The controller finds in the register the divider the driver put there,
\* though its upper two bits lie below the others.
LEMMA RegisterHoldsDivider ==
  ASSUME NEW div \in Nat, div < 1024
  PROVE  DividesBy(FreqSelect(div)) = IF div = 0 THEN 1 ELSE 2 * div
<1> DEFINE low == div % 256
           high == div \div 256
           reg == low * 256 + high * 64
<1>1. low \in 0 .. 255 /\ high \in 0 .. 3 /\ div = high * 256 + low
  OBVIOUS
<1>2. high % 4 = high
  BY <1>1
<1>3. FreqSelect(div) = reg
  BY <1>2 DEF FreqSelect
<1> HIDE DEF low, high
<1>4. reg \div 256 = low /\ (reg \div 64) = low * 4 + high
  BY <1>1
<1>5. (low * 4 + high) % 4 = high
  BY <1>1
<1>6. (reg \div 256) + ((reg \div 64) % 4) * 256 = div
  BY <1>1, <1>4, <1>5
<1> HIDE DEF reg
<1> QED
  BY <1>3, <1>6 DEF DividesBy

LEMMA ClockLimits ==
  MAX_BASE_CLK \in Nat /\ MAX_BASE_CLK <= 800 * 1022 /\ SDHCI_CLK_MAX_DIV = 2046
  BY DEF MAX_BASE_CLK, SDHCI_CLK_MAX_DIV

\* The divider of a base clock the register can name is the least that keeps
\* the card at the clock asked for.
LEMMA LeastDivider ==
  ASSUME NEW base \in 1 .. MAX_BASE_CLK, NEW khz \in Nat, khz >= 400
  PROVE  LET div == Divider(base, khz)
             by == IF div = 0 THEN 1 ELSE 2 * div
         IN  /\ div \in Nat /\ div < 1024
             /\ base <= khz * by
             /\ \A d \in 1 .. (SDHCI_CLK_MAX_DIV \div 2) - 1 : base <= khz * 2 * d => by <= 2 * d
<1> DEFINE last == (SDHCI_CLK_MAX_DIV \div 2) - 1
<1>1. /\ last = 1022
      /\ base \in Nat /\ base > 0
      /\ base <= khz * 2 * last /\ ~(base > khz * (SDHCI_CLK_MAX_DIV - 2))
  <2>1. base \in Nat /\ base > 0 /\ base <= MAX_BASE_CLK
    BY ClockLimits
  <2>2. last = 1022
    BY ClockLimits
  <2> HIDE DEF last
  <2> QED
    BY <2>1, <2>2, ClockLimits
<1> HIDE DEF last
<1>2. CASE base <= khz
  <2>1. Divider(base, khz) = 0
    BY <1>1, <1>2 DEF Divider
  <2>2. \A d \in 1 .. last : 1 <= 2 * d
    BY <1>1
  <2> QED
    BY <1>1, <1>2, <2>1, <2>2 DEF last
<1>3. CASE base > khz
  <2> DEFINE Slow == {d \in 1 .. last : base <= khz * 2 * d}
             Fits(d) == base <= khz * 2 * d /\ \A e \in 1 .. d - 1 : base > khz * 2 * e
             div == CHOOSE d \in 1 .. last : Fits(d)
  <2>1. last \in Slow /\ Slow \in SUBSET Nat
    BY <1>1
  <2>2. PICK m \in Slow : \A n \in Slow : m <= n
    BY <2>1, LeastElement
  <2>3. m \in 1 .. last /\ Fits(m)
    <3>1. m \in 1 .. last /\ base <= khz * 2 * m
      BY <2>2
    <3>2. ASSUME NEW e \in 1 .. m - 1 PROVE base > khz * 2 * e
      <4>1. e \in 1 .. last /\ ~(m <= e)
        BY <1>1, <3>1
      <4>2. e \notin Slow
        BY <2>2, <4>1
      <4> QED
        BY <1>1, <4>1, <4>2
    <3> QED
      BY <3>1, <3>2
  <2>4. div \in 1 .. last /\ Fits(div)
    BY <2>3
  <2>5. Divider(base, khz) = div
    BY <1>1, <1>3 DEF Divider, last
  <2> HIDE DEF div
  <2>6. ASSUME NEW d \in 1 .. last, base <= khz * 2 * d PROVE 2 * div <= 2 * d
    <3>1. ~(d < div)
      <4>1. d < div => d \in 1 .. div - 1
        BY <1>1, <2>4
      <4>2. d < div => base > khz * 2 * d
        BY <2>4, <4>1
      <4> QED
        BY <1>1, <2>6, <4>2
    <3> QED
      BY <1>1, <2>4, <3>1
  <2>7. div \in Nat /\ div < 1024 /\ div # 0 /\ base <= khz * (2 * div)
    BY <1>1, <2>4
  <2> QED
    BY <2>5, <2>6, <2>7 DEF last
<1> QED
  BY <1>1, <1>2, <1>3

\* The clock is set up for the base clock that was read, and enabled last.
ClockSound ==
  /\ ipc \in {"msm_init", "clear", "register", "unmask", "enable", "caps", "power", "wait",
              "setup", "clock", "stable", "up"}
  /\ ipc \in {"power", "wait", "setup", "clock", "stable", "up"} => caps \in CapSets
  /\ ipc \in {"stable", "up"} => clk.reg = FreqSelect(Divider(caps.base, 400))
  /\ clk \in [reg : Int, stable : BOOLEAN, on : BOOLEAN]
  /\ clk.on => ipc = "up"

LEMMA ClockSoundInit == Init => ClockSound
  BY DEF Init, ClockSound

LEMMA ClockSoundKeeps ==
  ASSUME ClockSound, [Next]_ivars
  PROVE  ClockSound'
<1> USE DEF ClockSound
<1>1. CASE sdhci_soft_reset \/ sdhci_clear_power_ctrl_irq \/ register_int_handler
  BY <1>1 DEF sdhci_soft_reset, sdhci_clear_power_ctrl_irq, register_int_handler
<1>2. CASE unmask_interrupt \/ EnablePwrCtrlInt \/ ReadCaps
  BY <1>2 DEF unmask_interrupt, EnablePwrCtrlInt, ReadCaps
<1>3. CASE sdhci_set_bus_power_on \/ WaitForEvent \/ SetupHost
  BY <1>3 DEF sdhci_set_bus_power_on, WaitForEvent, SetupHost
<1>4. CASE sdhci_clk_supply
  <2>1. /\ clk' = [reg |-> FreqSelect(Divider(caps.base, 400)), stable |-> FALSE, on |-> FALSE]
        /\ ipc' = "stable" /\ caps' = caps /\ caps \in CapSets
    BY <1>4 DEF sdhci_clk_supply
  <2>2. FreqSelect(Divider(caps.base, 400)) \in Int
    <3>1. caps.base \in 1 .. MAX_BASE_CLK
      BY <2>1, CapsAssumption
    <3>2. Divider(caps.base, 400) \in Nat
      BY <3>1, LeastDivider
    <3> QED
      BY <3>2 DEF FreqSelect
  <2> QED
    BY <2>1, <2>2
<1>5. CASE EnableClock
  BY <1>5 DEF EnableClock
<1>6. CASE HwPowerRequest \/ HwClockStable \/ sdhci_int_handler
  <2>1. CASE HwPowerRequest
    BY <2>1 DEF HwPowerRequest
  <2>2. CASE HwClockStable
    BY <2>2 DEF HwClockStable
  <2>3. CASE sdhci_int_handler
    BY <2>3 DEF sdhci_int_handler
  <2> QED
    BY <1>6, <2>1, <2>2, <2>3
<1>7. CASE UNCHANGED ivars
  BY <1>7 DEF ivars
<1> QED
  BY <1>1, <1>2, <1>3, <1>4, <1>5, <1>6, <1>7 DEF Next, DriverStep, HardwareStep

\* The card is identified at the fastest clock the divider has that does not
\* exceed 400 kHz, whatever base clock the controller reports (sdhci.c 145-190).
THEOREM IdentifiedSlowly == SlotSpec => []IdentificationClock
<1>1. ClockSound => IdentificationClock
  <2> SUFFICES ASSUME ClockSound, clk.on PROVE IdentificationClock
    BY DEF IdentificationClock
  <2>1. caps.base \in 1 .. MAX_BASE_CLK /\ clk.reg = FreqSelect(Divider(caps.base, 400))
    BY CapsAssumption DEF ClockSound
  <2> DEFINE div == Divider(caps.base, 400)
  <2>2. /\ div \in Nat /\ div < 1024
        /\ caps.base <= 400 * (IF div = 0 THEN 1 ELSE 2 * div)
        /\ \A d \in 1 .. (SDHCI_CLK_MAX_DIV \div 2) - 1 :
             caps.base <= 400 * 2 * d => (IF div = 0 THEN 1 ELSE 2 * div) <= 2 * d
    BY <2>1, LeastDivider
  <2>3. DividesBy(clk.reg) = IF div = 0 THEN 1 ELSE 2 * div
    BY <2>1, <2>2, RegisterHoldsDivider
  <2> HIDE DEF div
  <2> QED
    BY <2>2, <2>3 DEF IdentificationClock
<1> QED
  BY SlotBringsUp, ClockSoundInit, ClockSoundKeeps, <1>1, PTL DEF Spec

-----------------------------------------------------------------------------
(* Initialising the card: where the driver is.                              *)

\* The lists of steps the driver may be in the middle of, by what they do.
Lists == {"mmc", "sd", "hs", "ddr", "hs200", "hs400"}
StepsOf(p) ==
    CASE p = "mmc" -> M!InitSteps(FALSE)
      [] p = "sd" -> M!InitSteps(TRUE)
      [] p = "hs" -> M!HsInterface \o <<"width">> \o <<"rst_n">>
      [] p = "ddr" -> M!DdrMode \o <<"rst_n">>
      [] p = "hs200" -> M!Hs200Mode \o <<"rst_n">>
      [] OTHER -> M!Hs400Mode \o <<"rst_n">>

\* The driver has the list p before it from step k on.
At(p, k) ==
    k \in 1 .. Len(StepsOf(p)) + 1 /\ todo = SubSeq(StepsOf(p), k, Len(StepsOf(p)))

(* What is true there. *)

\* The host's divider is set for khz, of the core clock the driver counts on,
\* or of the faster one with the clock halved.
Paced(h, khz) ==
    /\ h.div = M!HostDiv(h.caps.base, khz)
    /\ h.core = 200000 \/ (h.core = 384000 /\ h.half)

\* Nothing of HS200 or HS400 has touched the host.
Fresh == ~host.selIn /\ ~host.tuned /\ ~host.calibrated /\ host.timing # "HS400"
\* The width the host and the driver have settled on.
SameWidth == host.width = drv.width
\* The size the driver made of the card's registers.
Decoded == drv.blocks = M!mmc_decode_and_save_csd([csd |-> card.csd])

AtMmc(k) ==
    /\ k <= 9 /\ ~drv.sd /\ ~card.sd /\ Fresh /\ ~card.ddr
    /\ host.width = 1 /\ card.width = 1 /\ drv.width = 1
    /\ card.timing = IF k <= 5 THEN "legacy" ELSE "HS"
    /\ IF k <= 6 THEN host.uhs = "SDR12" /\ Paced(host, 400)
                 ELSE host.uhs = "SDR25" /\ Paced(host, 50000)
    /\ k >= 5 => card.state = "tran"
    /\ k >= 9 => Decoded

AtSd(k) ==
    /\ drv.sd /\ card.sd /\ Fresh /\ ~card.ddr /\ SameWidth
    /\ card.width = host.width
    /\ k <= 5 => card.timing = "legacy"
    /\ k >= 6 /\ card.hs => card.timing = "HS"
    /\ IF k <= 5 THEN host.uhs = "SDR12" /\ Paced(host, 400)
                 ELSE host.uhs = "SDR25" /\ Paced(host, 50000)
    /\ k >= 5 => card.state = "tran"
    /\ k >= 9 => Decoded

\* An MMC card past the choice of its mode.
Chosen == ~drv.sd /\ ~card.sd /\ card.state = "tran" /\ SameWidth /\ Decoded

AtHs(k) ==
    /\ Chosen /\ Fresh /\ ~card.ddr /\ card.timing = "HS"
    /\ host.uhs = "SDR25" /\ Paced(host, 50000)
    /\ k >= 4 => card.width = host.width

AtDdr(k) ==
    /\ Chosen /\ Fresh /\ card.timing = "HS"
    /\ card.ddr <=> k >= 2
    /\ k >= 2 => card.width = 8
    /\ host.uhs = (IF k >= 3 THEN "DDR50" ELSE "SDR25") /\ Paced(host, 50000)

\* HS400 is on the way, on the wide bus it needs, or the driver stays in HS200.
AtHs200(p, k) ==
    /\ Chosen /\ ~card.ddr /\ ~host.selIn /\ ~host.calibrated
    /\ host.tuned <=> k >= 6
    /\ M!Hs400Wanted <=> p = "hs400"
    /\ p = "hs400" => host.width = 8
    /\ k >= 2 => card.width = host.width
    /\ card.timing = IF k <= 2 THEN "HS" ELSE "HS200"
    /\ IF k <= 3 THEN host.uhs = "SDR25" /\ Paced(host, 50000)
                 ELSE host.uhs = "SDR104" /\ Paced(host, 200000)
    /\ host.timing = "HS400" <=> (p = "hs400" /\ k \in {5, 6})

AtHs400(k) ==
    /\ Chosen /\ host.tuned /\ (k <= 14 => ~host.calibrated)
    /\ host.width = 8 /\ card.width = 8
    /\ card.ddr <=> k >= 11
    /\ host.selIn <=> k >= 14
    /\ card.timing = CASE k <= 8 -> "HS200" [] k \in 9 .. 12 -> "HS" [] OTHER -> "HS400"
    /\ CASE k \in {8, 9} -> host.uhs = "SDR12" /\ Paced(host, 25000)
         [] k \in {10, 11} -> host.uhs = "SDR25" /\ Paced(host, 50000)
         [] k \in {12, 13} -> host.uhs = "DDR50" /\ Paced(host, 50000)
         [] OTHER -> host.uhs = "SDR104" /\ Paced(host, 200000)

\* Before the card answered: whatever was left of it, at the slowest clock.
Unanswered ==
    /\ ~drv.sd /\ Fresh /\ host.uhs = "SDR12" /\ host.width = 1 /\ drv.width = 1
    /\ card.state \in {"idle", "tran"}
    /\ card.state = "idle" => card.width = 1 /\ card.timing = "legacy" /\ ~card.ddr
    /\ \/ todo = <<"mmc_init">> /\ host.caps.base = 0 /\ host.core = M!CORE_KHZ
       \/ todo \in {<<"reset">>, <<"op_cond">>, <<"if_cond">>} /\ Paced(host, 400)
       \/ todo = <<"app_op_cond">> /\ Paced(host, 400) /\ card.sd /\ card.state = "idle"

Somewhere ==
    \/ Unanswered
    \/ \E k \in 1 .. 9 : At("mmc", k) /\ AtMmc(k)
    \/ \E k \in 1 .. 11 : At("sd", k) /\ AtSd(k)
    \/ \E k \in 1 .. 5 : At("hs", k) /\ AtHs(k)
    \/ \E k \in 1 .. 4 : At("ddr", k) /\ AtDdr(k)
    \/ \E k \in 1 .. 8 : At("hs200", k) /\ AtHs200("hs200", k)
    \/ \E k \in 1 .. 7 : At("hs400", k) /\ AtHs200("hs400", k)
    \/ \E k \in 8 .. 16 : At("hs400", k) /\ AtHs400(k)

\* Host and card are records with the fields the driver knows.
CardShape ==
    /\ host = [width |-> host.width, uhs |-> host.uhs, div |-> host.div, core |-> host.core,
               half |-> host.half, selIn |-> host.selIn, timing |-> host.timing,
               tuned |-> host.tuned, calibrated |-> host.calibrated, caps |-> host.caps]
    /\ card = [sd |-> card.sd, hs |-> card.hs, modes |-> card.modes, scr4 |-> card.scr4,
               csd |-> card.csd, blocks |-> card.blocks, rstN |-> card.rstN,
               state |-> card.state, width |-> card.width, timing |-> card.timing,
               ddr |-> card.ddr]
    /\ drv = [sd |-> drv.sd, rca |-> drv.rca, width |-> drv.width, blocks |-> drv.blocks]
    /\ \E c \in Cards : card.csd = c.csd /\ card.blocks = c.blocks
    /\ host.caps.base = 0 \/ host.caps.base \in M!CORE_KHZ .. MAX_BASE_CLK
    /\ {card.ddr, host.half, host.selIn, host.tuned, host.calibrated} \subseteq BOOLEAN

\* The clock keeps within what the card takes, and by how much.
Slowly ==
    M!Refused \/ \E khz \in {400, 25000, 50000, 200000} :
                     Paced(host, khz) /\ khz <= M!Limit(card)

CardInv ==
    /\ CardShape
    /\ host.caps.base > 0 => Slowly
    /\ IF out = "running" THEN Somewhere ELSE todo = <<>>
    /\ BusAgrees /\ CapacityIsTheCards

-----------------------------------------------------------------------------
(* The clock of the card.                                                   *)

\* What the driver divides by brings the base clock down to the one asked for.
LEMMA HostDivides ==
  ASSUME NEW base \in 1 .. MAX_BASE_CLK, NEW khz \in Nat, khz >= 400
  PROVE  M!HostDiv(base, khz) \in Nat \ {0} /\ base <= khz * M!HostDiv(base, khz)
<1> DEFINE div == Divider(base, khz)
<1>1. div \in Nat /\ div < 1024 /\ base <= khz * (IF div = 0 THEN 1 ELSE 2 * div)
  BY LeastDivider
<1>2. M!HostDiv(base, khz) = DividesBy(FreqSelect(div))
  BY DEF M!HostDiv, M!DividesBy, M!FreqSelect, M!Divider, M!SDHCI_CLK_MAX_DIV, DividesBy,
     FreqSelect, Divider, SDHCI_CLK_MAX_DIV
<1> HIDE DEF div
<1>3. M!HostDiv(base, khz) = IF div = 0 THEN 1 ELSE 2 * div
  BY <1>1, <1>2, RegisterHoldsDivider
<1> QED
  BY <1>1, <1>3

\* The quotient of two numbers is within a bound that the product keeps.
LEMMA QuotientWithin ==
  ASSUME NEW n \in Nat, NEW d \in Nat, d > 0, NEW k \in Nat, n <= k * d
  PROVE  n \div d \in Nat /\ n \div d <= k
<1> DEFINE q == n \div d
<1>1. q \in Nat /\ q * d <= n
  BY Division
<1> HIDE DEF q
<1>2. ASSUME q > k PROVE FALSE
  <2>1. (k + 1) * d <= q * d
    BY <1>1, <1>2, TimesKeepsOrder
  <2>2. (k + 1) * d = k * d + d
    OBVIOUS
  <2> QED
    BY <1>1, <2>1, <2>2
<1>3. q <= k
  BY <1>1, <1>2
<1> QED
  BY <1>1, <1>3 DEF q

\* The rates the driver asks the host for.
Rates == {400, 25000, 50000, 200000}

LEMMA PacedClock ==
  ASSUME NEW h, NEW khz \in Rates, Paced(h, khz), h.caps.base \in M!CORE_KHZ .. MAX_BASE_CLK
  PROVE  M!CardKHz(h) <= khz
<1> DEFINE base == h.caps.base
           d == M!HostDiv(base, khz)
           rate == h.core \div d
<1>1. base \in 1 .. MAX_BASE_CLK /\ base >= 200000 /\ base \in Nat
  BY ClockLimits DEF M!CORE_KHZ
<1>2. khz \in Nat /\ khz >= 400
  BY DEF Rates
<1>3. d \in Nat /\ d > 0 /\ base <= khz * d /\ khz * d \in Nat
  BY <1>1, <1>2, HostDivides
<1>4. h.div = d
  BY DEF Paced
<1> HIDE DEF base, d
<1>5. M!CardKHz(h) = (IF h.half THEN rate \div 2 ELSE rate \div 1)
  BY <1>4 DEF M!CardKHz
<1>6. CASE h.core = 200000
  <2>1. rate \in Nat /\ rate <= khz
    <3>1. 200000 \in Nat /\ 200000 <= khz * d
      BY <1>1, <1>3
    <3> QED
      BY <1>2, <1>3, <1>6, <3>1, QuotientWithin
  <2> HIDE DEF rate
  <2> QED
    BY <1>2, <1>5, <2>1
<1>7. CASE h.core = 384000 /\ h.half
  <2>1. rate \in Nat /\ rate <= 2 * khz
    <3>1. 384000 \in Nat /\ 384000 <= (2 * khz) * d /\ 2 * khz \in Nat
      <4>1. (2 * khz) * d = 2 * (khz * d)
        BY <1>2, <1>3
      <4> QED
        BY <1>1, <1>2, <1>3, <4>1
    <3> QED
      BY <1>2, <1>3, <1>7, <3>1, QuotientWithin
  <2> HIDE DEF rate
  <2> QED
    BY <1>2, <1>5, <1>7, <2>1
<1> QED
  BY <1>6, <1>7 DEF Paced

\* Every timing takes the identification clock, and the faster ones more.
LEMMA Limits ==
  ASSUME NEW c
  PROVE  /\ M!Limit(c) \in Nat /\ M!Limit(c) >= 400
         /\ c.state = "tran" => M!Limit(c) >= 25000
         /\ c.state = "tran" /\ c.timing # "legacy" => M!Limit(c) >= 50000
         /\ c.state = "tran" /\ c.timing \in {"HS200", "HS400"} => M!Limit(c) = 200000
  BY DEF M!Limit

\* A clock that is paced by the timing stays within it.
LEMMA SlowEnough ==
  ASSUME CardShape, host.caps.base > 0, Slowly
  PROVE  ClockWithinLimit
<1> SUFFICES ASSUME ~M!Refused PROVE M!CardKHz(host) <= M!Limit(card)
  BY DEF ClockWithinLimit, M!ClockWithinLimit
<1>1. PICK khz \in Rates : Paced(host, khz) /\ khz <= M!Limit(card)
  BY DEF Slowly, Rates
<1>2. M!CardKHz(host) <= khz
  BY <1>1, PacedClock DEF CardShape
<1>3. M!CardKHz(host) \in Int
  <2>1. host.div \in Nat /\ host.div > 0
    <3>1. host.caps.base \in 1 .. MAX_BASE_CLK
      BY ClockLimits DEF CardShape, M!CORE_KHZ
    <3>2. khz \in Nat /\ khz >= 400
      BY DEF Rates
    <3> QED
      BY <1>1, <3>1, <3>2, HostDivides DEF Paced
  <2>2. host.core \in Nat
    BY <1>1 DEF Paced
  <2> QED
    BY <2>1, <2>2 DEF M!CardKHz
<1> QED
  BY <1>1, <1>2, <1>3, Limits DEF Rates

-----------------------------------------------------------------------------
(* Initialising the card: the lists of steps.                               *)

Steps ==
  {"cid", "rca", "csd", "select", "hs_timing", "host_SDR25", "ext_csd", "decode", "bus_width",
   "sd_hs", "scr", "ssr", "sd_width", "rst_n", "width", "ddr_width", "host_DDR50", "hs200_timing",
   "host_SDR104", "clock_400", "tuning", "clock_200", "host_SDR12", "hs400_timing", "hs400_clock",
   "hs400_tuning"}

LEMMA MmcSteps ==
  LET s == StepsOf("mmc")
  IN  /\ s \in Seq(Steps) /\ Len(s) = 9
      /\ s[1] = "cid" /\ s[2] = "rca" /\ s[3] = "csd"
      /\ s[4] = "select" /\ s[5] = "hs_timing" /\ s[6] = "host_SDR25"
      /\ s[7] = "ext_csd" /\ s[8] = "decode" /\ s[9] = "bus_width"
  BY DEF StepsOf, Steps, M!InitSteps, M!IdentifyCard, M!HsInterface

LEMMA SdSteps ==
  LET s == StepsOf("sd")
  IN  /\ s \in Seq(Steps) /\ Len(s) = 10
      /\ s[1] = "cid" /\ s[2] = "rca" /\ s[3] = "csd"
      /\ s[4] = "select" /\ s[5] = "sd_hs" /\ s[6] = "scr"
      /\ s[7] = "ssr" /\ s[8] = "decode" /\ s[9] = "sd_width"
      /\ s[10] = "rst_n"
  BY DEF StepsOf, Steps, M!InitSteps, M!IdentifyCard

LEMMA HsSteps ==
  LET s == StepsOf("hs")
  IN  /\ s \in Seq(Steps) /\ Len(s) = 4
      /\ s[1] = "hs_timing" /\ s[2] = "host_SDR25" /\ s[3] = "width"
      /\ s[4] = "rst_n"
  BY DEF StepsOf, Steps, M!HsInterface

LEMMA DdrSteps ==
  LET s == StepsOf("ddr")
  IN  /\ s \in Seq(Steps) /\ Len(s) = 3
      /\ s[1] = "ddr_width" /\ s[2] = "host_DDR50" /\ s[3] = "rst_n"
  BY DEF StepsOf, Steps, M!DdrMode

LEMMA Hs200Steps ==
  LET s == StepsOf("hs200")
  IN  /\ s \in Seq(Steps) /\ Len(s) = 7
      /\ s[1] = "width" /\ s[2] = "hs200_timing" /\ s[3] = "host_SDR104"
      /\ s[4] = "clock_400" /\ s[5] = "tuning" /\ s[6] = "clock_200"
      /\ s[7] = "rst_n"
  BY DEF StepsOf, Steps, M!Hs200Mode

LEMMA Hs400Steps ==
  LET s == StepsOf("hs400")
  IN  /\ s \in Seq(Steps) /\ Len(s) = 15
      /\ s[1] = "width" /\ s[2] = "hs200_timing" /\ s[3] = "host_SDR104"
      /\ s[4] = "clock_400" /\ s[5] = "tuning" /\ s[6] = "clock_200"
      /\ s[7] = "host_SDR12" /\ s[8] = "hs_timing" /\ s[9] = "host_SDR25"
      /\ s[10] = "ddr_width" /\ s[11] = "host_DDR50" /\ s[12] = "hs400_timing"
      /\ s[13] = "hs400_clock" /\ s[14] = "hs400_tuning" /\ s[15] = "rst_n"
  BY DEF StepsOf, Steps, M!Hs400Mode, M!Hs200Mode, M!HsInterface, M!DdrMode

LEMMA Suffix ==
  ASSUME NEW s \in Seq(Steps), NEW k \in 1 .. Len(s)
  PROVE  LET rest == SubSeq(s, k, Len(s))
         IN  rest # <<>> /\ Head(rest) = s[k] /\ Tail(rest) = SubSeq(s, k + 1, Len(s))
<1>1. SubSeq(s, k, Len(s)) # <<>>
  <2>1. Len(SubSeq(s, k, Len(s))) = Len(s) - k + 1 /\ Len(s) \in Nat
    OBVIOUS
  <2>2. Len(SubSeq(s, k, Len(s))) # 0
    BY <2>1
  <2>3. Len(<<>>) = 0
    OBVIOUS
  <2> QED
    BY ONLY <2>2, <2>3
<1>2. Head(SubSeq(s, k, Len(s))) = s[k]
  OBVIOUS
<1>3. Tail(SubSeq(s, k, Len(s))) = SubSeq(s, k + 1, Len(s))
  OBVIOUS
<1> QED
  BY <1>1, <1>2, <1>3

\* Where the driver is, and where it is next.
LEMMA Position ==
  ASSUME NEW p \in Lists, NEW k, At(p, k)
  PROVE  /\ todo = <<>> => k = Len(StepsOf(p)) + 1
         /\ todo # <<>> => k \in 1 .. Len(StepsOf(p)) /\ Head(todo) = StepsOf(p)[k]
         /\ todo # <<>> /\ todo' = Tail(todo) => At(p, k + 1)'
<1> DEFINE s == StepsOf(p)
<1>1. s \in Seq(Steps)
  BY MmcSteps, SdSteps, HsSteps, DdrSteps, Hs200Steps, Hs400Steps DEF Lists
<1>2. k \in 1 .. Len(s) + 1 /\ todo = SubSeq(s, k, Len(s))
  BY DEF At
<1> HIDE DEF s
<1>3. Len(s) \in Nat
  BY <1>1
<1>4. CASE k = Len(s) + 1
  BY <1>1, <1>2, <1>3, <1>4 DEF s
<1>5. CASE k \in 1 .. Len(s)
  <2>1. todo # <<>> /\ Head(todo) = s[k] /\ Tail(todo) = SubSeq(s, k + 1, Len(s))
    BY <1>1, <1>2, <1>5, Suffix
  <2>2. k + 1 \in 1 .. Len(s) + 1
    BY <1>3, <1>5
  <2>3. todo' = Tail(todo) => At(p, k + 1)'
    BY <2>1, <2>2 DEF At, s
  <2> QED
    BY <1>3, <1>5, <2>1, <2>3 DEF s
<1> QED
  BY <1>2, <1>3, <1>4, <1>5

LEMMA Begin ==
  ASSUME NEW p \in Lists, todo' = StepsOf(p)
  PROVE  At(p, 1)'
<1>1. StepsOf(p) \in Seq(Steps)
  BY MmcSteps, SdSteps, HsSteps, DdrSteps, Hs200Steps, Hs400Steps DEF Lists
<1> QED
  BY <1>1 DEF At

\* The place of each step in its list.
MmcOrder == {<<"cid", 1>>, <<"rca", 2>>, <<"csd", 3>>, <<"select", 4>>, <<"hs_timing", 5>>,
             <<"host_SDR25", 6>>, <<"ext_csd", 7>>, <<"decode", 8>>, <<"bus_width", 9>>}
SdOrder == {<<"cid", 1>>, <<"rca", 2>>, <<"csd", 3>>, <<"select", 4>>, <<"sd_hs", 5>>,
            <<"scr", 6>>, <<"ssr", 7>>, <<"decode", 8>>, <<"sd_width", 9>>, <<"rst_n", 10>>}
HsOrder == {<<"hs_timing", 1>>, <<"host_SDR25", 2>>, <<"width", 3>>, <<"rst_n", 4>>}
DdrOrder == {<<"ddr_width", 1>>, <<"host_DDR50", 2>>, <<"rst_n", 3>>}
Hs200Order == {<<"width", 1>>, <<"hs200_timing", 2>>, <<"host_SDR104", 3>>, <<"clock_400", 4>>,
               <<"tuning", 5>>, <<"clock_200", 6>>, <<"rst_n", 7>>}
Hs400Order == {<<"width", 1>>, <<"hs200_timing", 2>>, <<"host_SDR104", 3>>, <<"clock_400", 4>>,
               <<"tuning", 5>>, <<"clock_200", 6>>, <<"host_SDR12", 7>>, <<"hs_timing", 8>>,
               <<"host_SDR25", 9>>, <<"ddr_width", 10>>, <<"host_DDR50", 11>>,
               <<"hs400_timing", 12>>, <<"hs400_clock", 13>>, <<"hs400_tuning", 14>>,
               <<"rst_n", 15>>}

LEMMA MmcPosition ==
  ASSUME NEW k, At("mmc", k), NEW n, M!Step(n)
  PROVE  <<n, k>> \in MmcOrder
<1>1. k \in 1 .. 9 /\ StepsOf("mmc")[k] = n
  BY Position, MmcSteps DEF M!Step, Lists
<1>2. k = 1 \/ k = 2 \/ k = 3 \/ k = 4 \/ k = 5 \/ k = 6 \/ k = 7 \/ k = 8 \/ k = 9
  BY <1>1
<1> QED
  BY <1>1, <1>2, MmcSteps DEF MmcOrder

LEMMA SdPosition ==
  ASSUME NEW k, At("sd", k), NEW n, M!Step(n)
  PROVE  <<n, k>> \in SdOrder
<1>1. k \in 1 .. 10 /\ StepsOf("sd")[k] = n
  BY Position, SdSteps DEF M!Step, Lists
<1>2. k = 1 \/ k = 2 \/ k = 3 \/ k = 4 \/ k = 5
      \/ k = 6 \/ k = 7 \/ k = 8 \/ k = 9 \/ k = 10
  BY <1>1
<1> QED
  BY <1>1, <1>2, SdSteps DEF SdOrder

LEMMA HsPosition ==
  ASSUME NEW k, At("hs", k), NEW n, M!Step(n)
  PROVE  <<n, k>> \in HsOrder
<1>1. k \in 1 .. 4 /\ StepsOf("hs")[k] = n
  BY Position, HsSteps DEF M!Step, Lists
<1>2. k = 1 \/ k = 2 \/ k = 3 \/ k = 4
  BY <1>1
<1> QED
  BY <1>1, <1>2, HsSteps DEF HsOrder

LEMMA DdrPosition ==
  ASSUME NEW k, At("ddr", k), NEW n, M!Step(n)
  PROVE  <<n, k>> \in DdrOrder
<1>1. k \in 1 .. 3 /\ StepsOf("ddr")[k] = n
  BY Position, DdrSteps DEF M!Step, Lists
<1>2. k = 1 \/ k = 2 \/ k = 3
  BY <1>1
<1> QED
  BY <1>1, <1>2, DdrSteps DEF DdrOrder

LEMMA Hs200Position ==
  ASSUME NEW k, At("hs200", k), NEW n, M!Step(n)
  PROVE  <<n, k>> \in Hs200Order
<1>1. k \in 1 .. 7 /\ StepsOf("hs200")[k] = n
  BY Position, Hs200Steps DEF M!Step, Lists
<1>2. k = 1 \/ k = 2 \/ k = 3 \/ k = 4 \/ k = 5 \/ k = 6 \/ k = 7
  BY <1>1
<1> QED
  BY <1>1, <1>2, Hs200Steps DEF Hs200Order

LEMMA Hs400Position ==
  ASSUME NEW k, At("hs400", k), NEW n, M!Step(n)
  PROVE  <<n, k>> \in Hs400Order
<1>1. k \in 1 .. 15 /\ StepsOf("hs400")[k] = n
  BY Position, Hs400Steps DEF M!Step, Lists
<1>2. k = 1 \/ k = 2 \/ k = 3 \/ k = 4 \/ k = 5 \/ k = 6 \/ k = 7
      \/ k = 8 \/ k = 9 \/ k = 10 \/ k = 11 \/ k = 12 \/ k = 13 \/ k = 14 \/ k = 15
  BY <1>1
<1> QED
  BY <1>1, <1>2, Hs400Steps DEF Hs400Order

-----------------------------------------------------------------------------
(* Initialising the card: what holds wherever the driver is.                *)

\* An idle card takes 400 kHz, and one past that what its timing allows.
LEMMA SlowAt ==
  ASSUME CardShape, Somewhere, host.caps.base # 0
  PROVE  Slowly
<1>1. M!Limit(card) \in Nat /\ M!Limit(card) >= 400
  BY Limits
<1>2. ASSUME Paced(host, 400) PROVE Slowly
  BY <1>1, <1>2 DEF Slowly
<1>3. CASE Unanswered
  BY <1>2, <1>3 DEF Unanswered
<1>4. CASE \E k \in 1 .. 9 : At("mmc", k) /\ AtMmc(k)
  <2>1. PICK k \in 1 .. 9 : AtMmc(k)
    BY <1>4
  <2>2. CASE k <= 6
    BY <1>2, <2>1, <2>2 DEF AtMmc
  <2>3. CASE k > 6
    BY <1>1, <2>1, <2>3, Limits DEF AtMmc, Slowly
  <2> QED
    BY <2>2, <2>3
<1>5. CASE \E k \in 1 .. 11 : At("sd", k) /\ AtSd(k)
  <2>1. PICK k \in 1 .. 11 : AtSd(k)
    BY <1>5
  <2>2. CASE k <= 5
    BY <1>2, <2>1, <2>2 DEF AtSd
  <2>3. CASE k > 5 /\ card.hs
    BY <1>1, <2>1, <2>3, Limits DEF AtSd, Slowly
  <2>4. CASE k > 5 /\ ~card.hs
    BY <2>1, <2>4 DEF AtSd, Slowly, M!Refused
  <2> QED
    BY <2>2, <2>3, <2>4
<1>6. CASE \E k \in 1 .. 5 : At("hs", k) /\ AtHs(k)
  BY <1>1, <1>6, Limits DEF AtHs, Chosen, Slowly
<1>7. CASE \E k \in 1 .. 4 : At("ddr", k) /\ AtDdr(k)
  BY <1>1, <1>7, Limits DEF AtDdr, Chosen, Slowly
<1>8. ASSUME NEW p, NEW k \in 1 .. 8, AtHs200(p, k) PROVE Slowly
  <2>1. CASE k <= 3
    <3>1. M!Limit(card) >= 50000
      BY <1>8, <2>1, Limits DEF AtHs200, Chosen
    <3> QED
      BY <1>1, <1>8, <2>1, <3>1 DEF AtHs200, Slowly
  <2>2. CASE k > 3
    <3>1. M!Limit(card) = 200000
      BY <1>8, <2>2, Limits DEF AtHs200, Chosen
    <3> QED
      BY <1>8, <2>2, <3>1 DEF AtHs200, Slowly
  <2> QED
    BY <2>1, <2>2
<1>9. ASSUME NEW k \in 8 .. 16, AtHs400(k) PROVE Slowly
  <2>1. M!Limit(card) >= 50000
    BY <1>9, Limits DEF AtHs400, Chosen
  <2>2. CASE k <= 13
    BY <1>1, <1>9, <2>1, <2>2 DEF AtHs400, Slowly
  <2>3. CASE k > 13
    <3>1. M!Limit(card) = 200000
      BY <1>9, <2>3, Limits DEF AtHs400, Chosen
    <3> QED
      BY <1>9, <2>3, <3>1 DEF AtHs400, Slowly
  <2> QED
    BY <2>2, <2>3
<1> QED
  BY <1>3, <1>4, <1>5, <1>6, <1>7, <1>8, <1>9 DEF Somewhere

\* When data moves the lines agree.
LEMMA AgreesAt ==
  ASSUME Somewhere, out = "running"
  PROVE  BusAgrees
<1> DEFINE n == Head(todo)
<1> SUFFICES ASSUME todo # <<>>, n \in {"ext_csd", "tuning", "hs400_tuning", "scr", "ssr"}
             PROVE  M!Agree(host, card) \/ M!NarrowDdr \/ M!Refused
  BY DEF BusAgrees, M!BusAgrees
<1>1. M!Step(n)
  BY DEF M!Step
<1>2. CASE Unanswered
  BY <1>2 DEF Unanswered
<1> HIDE DEF n
<1> USE DEF M!Agree, M!HostMode, M!CardMode
<1>3. CASE \E k \in 1 .. 9 : At("mmc", k) /\ AtMmc(k)
  <2>1. PICK k \in 1 .. 9 : At("mmc", k) /\ AtMmc(k)
    BY <1>3
  <2>2. k = 7
    BY <1>1, <2>1, MmcPosition DEF MmcOrder
  <2> QED
    BY <2>1, <2>2 DEF AtMmc, Fresh
<1>4. CASE \E k \in 1 .. 11 : At("sd", k) /\ AtSd(k)
  <2>1. PICK k \in 1 .. 11 : At("sd", k) /\ AtSd(k)
    BY <1>4
  <2>2. k \in {6, 7}
    BY <1>1, <2>1, SdPosition DEF SdOrder
  <2> QED
    BY <2>1, <2>2 DEF AtSd, Fresh, M!Refused
<1>5. CASE \E k \in 1 .. 5 : At("hs", k) /\ AtHs(k)
  BY <1>1, <1>5, HsPosition DEF HsOrder
<1>6. CASE \E k \in 1 .. 4 : At("ddr", k) /\ AtDdr(k)
  BY <1>1, <1>6, DdrPosition DEF DdrOrder
<1>7. CASE \E k \in 1 .. 8 : At("hs200", k) /\ AtHs200("hs200", k)
  <2>1. PICK k \in 1 .. 8 : At("hs200", k) /\ AtHs200("hs200", k)
    BY <1>7
  <2>2. k = 5
    BY <1>1, <2>1, Hs200Position DEF Hs200Order
  <2> QED
    BY <2>1, <2>2 DEF AtHs200
<1>8. CASE \E k \in 1 .. 7 : At("hs400", k) /\ AtHs200("hs400", k)
  <2>1. PICK k \in 1 .. 7 : At("hs400", k) /\ AtHs200("hs400", k)
    BY <1>8
  <2>2. k = 5
    BY <1>1, <2>1, Hs400Position DEF Hs400Order
  <2> QED
    BY <2>1, <2>2 DEF AtHs200
<1>9. CASE \E k \in 8 .. 16 : At("hs400", k) /\ AtHs400(k)
  <2>1. PICK k \in 8 .. 16 : At("hs400", k) /\ AtHs400(k)
    BY <1>9
  <2>2. k = 14
    BY <1>1, <2>1, Hs400Position DEF Hs400Order
  <2> QED
    BY <2>1, <2>2 DEF AtHs400
<1> QED
  BY <1>2, <1>3, <1>4, <1>5, <1>6, <1>7, <1>8, <1>9 DEF Somewhere

\* At the end of a list the card is ready to be published.
LEMMA AgreesAtEnd ==
  ASSUME Somewhere, todo = <<>>
  PROVE  (M!Agree(host, card) \/ M!NarrowDdr \/ M!Refused) /\ Decoded
<1>1. ~Unanswered
  BY DEF Unanswered
<1> USE DEF M!Agree, M!HostMode, M!CardMode
<1>2. \A p \in Lists : \A k : At(p, k) => k = Len(StepsOf(p)) + 1
  BY Position
<1>3. ASSUME NEW k \in 1 .. 9, At("mmc", k) PROVE FALSE
  BY <1>2, <1>3, MmcSteps DEF Lists
<1>4. CASE \E k \in 1 .. 11 : At("sd", k) /\ AtSd(k)
  <2>1. AtSd(11)
    BY <1>2, <1>4, SdSteps DEF Lists
  <2> QED
    BY <2>1 DEF AtSd, Fresh, M!Refused
<1>5. CASE \E k \in 1 .. 5 : At("hs", k) /\ AtHs(k)
  <2>1. AtHs(5)
    BY <1>2, <1>5, HsSteps DEF Lists
  <2> QED
    BY <2>1 DEF AtHs, Fresh, Chosen
<1>6. CASE \E k \in 1 .. 4 : At("ddr", k) /\ AtDdr(k)
  <2>1. AtDdr(4)
    BY <1>2, <1>6, DdrSteps DEF Lists
  <2> QED
    BY <2>1 DEF AtDdr, Fresh, Chosen, M!NarrowDdr
<1>7. CASE \E k \in 1 .. 8 : At("hs200", k) /\ AtHs200("hs200", k)
  <2>1. AtHs200("hs200", 8)
    BY <1>2, <1>7, Hs200Steps DEF Lists
  <2> QED
    BY <2>1 DEF AtHs200, Chosen
<1>8. ASSUME NEW k \in 1 .. 7, At("hs400", k) PROVE FALSE
  BY <1>2, <1>8, Hs400Steps DEF Lists
<1>9. CASE \E k \in 8 .. 16 : At("hs400", k) /\ AtHs400(k)
  <2>1. AtHs400(16)
    BY <1>2, <1>9, Hs400Steps DEF Lists
  <2> QED
    BY <2>1 DEF AtHs400, Chosen
<1> QED
  BY <1>1, <1>3, <1>4, <1>5, <1>6, <1>7, <1>8, <1>9 DEF Somewhere

\* What the driver decodes is the size of the card.
LEMMA DecodedSize ==
  ASSUME CardShape, Decoded, card.csd.form = "ext" => card.csd.sectors < 2 ^ (M!SecBits - 1)
  PROVE  drv.blocks = card.blocks
<1>1. PICK c \in Cards : card.csd = c.csd /\ card.blocks = c.blocks
  BY DEF CardShape
<1>2. c.blocks = CASE c.csd.form = "v2" -> (1 + c.csd.size) * 1024
                   [] c.csd.form = "ext" -> c.csd.sectors
                   [] OTHER -> (2 ^ (c.csd.mult + 2) * (c.csd.size + 1) * c.csd.len) \div 512
  BY SlotAssumption DEF M!CardsAssumption
<1> QED
  BY <1>1, <1>2 DEF Decoded, M!mmc_decode_and_save_csd, M!SecCount

-----------------------------------------------------------------------------
(* Initialising the card: the steps.                                        *)

LEMMA HoldsAnywhere ==
  /\ CardShape /\ Somewhere /\ host.caps.base # 0 => Slowly
  /\ Somewhere /\ out = "running" => BusAgrees
  BY SlowAt, AgreesAt

\* The driver goes on to a step that it reaches with what is true there.
LEMMA GoesOn ==
  ASSUME CardShape', Somewhere', out' = "running"
  PROVE  CardInv'
<1>1. /\ (CardShape /\ Somewhere /\ host.caps.base # 0 => Slowly)'
      /\ (Somewhere /\ out = "running" => BusAgrees)'
  BY HoldsAnywhere, PTL
<1>2. (host.caps.base > 0 => Slowly)'
  BY <1>1
<1>3. CapacityIsTheCards'
  BY DEF CapacityIsTheCards, M!CapacityIsTheCards
<1> QED
  BY <1>1, <1>2, <1>3 DEF CardInv

\* It gives up with a clock the card can take.
LEMMA GivesUp ==
  ASSUME CardShape', (host.caps.base > 0 => Slowly)', todo' = <<>>,
         out' \in {"failed", "asserted", "fault"}
  PROVE  CardInv'
  BY DEF CardInv, BusAgrees, M!BusAgrees, CapacityIsTheCards, M!CapacityIsTheCards

\* It gives up and leaves host and card as they were.
LEMMA GivesUpAsIs ==
  ASSUME CardInv, CardShape', UNCHANGED <<host, card>>, todo' = <<>>,
         out' \in {"failed", "asserted", "fault"}
  PROVE  CardInv'
<1>1. (host.caps.base > 0 => Slowly)'
  BY DEF CardInv, Slowly, Paced, M!Refused
<1> QED
  BY <1>1, GivesUp

\* Where the driver may be when a step is due.
LEMMA Where ==
  ASSUME CardInv, NEW n \in Steps, M!Step(n)
  PROVE  \/ \E k \in 1 .. 9 : At("mmc", k) /\ AtMmc(k) /\ <<n, k>> \in MmcOrder
         \/ \E k \in 1 .. 11 : At("sd", k) /\ AtSd(k) /\ <<n, k>> \in SdOrder
         \/ \E k \in 1 .. 5 : At("hs", k) /\ AtHs(k) /\ <<n, k>> \in HsOrder
         \/ \E k \in 1 .. 4 : At("ddr", k) /\ AtDdr(k) /\ <<n, k>> \in DdrOrder
         \/ \E k \in 1 .. 8 : At("hs200", k) /\ AtHs200("hs200", k) /\ <<n, k>> \in Hs200Order
         \/ \E k \in 1 .. 7 : At("hs400", k) /\ AtHs200("hs400", k) /\ <<n, k>> \in Hs400Order
         \/ \E k \in 8 .. 16 : At("hs400", k) /\ AtHs400(k) /\ <<n, k>> \in Hs400Order
<1>1. Somewhere
  BY DEF CardInv, M!Step
<1>2. ~Unanswered
  BY DEF Unanswered, M!Step, Steps
<1> QED
  BY <1>1, <1>2, MmcPosition, SdPosition, HsPosition, DdrPosition, Hs200Position, Hs400Position
     DEF Somewhere

\* A clock paced for what the card, whatever has become of it, takes.
LEMMA PacedFor ==
  ASSUME NEW khz \in Rates, Paced(host', khz),
         \/ khz = 400
         \/ card'.state = "tran" /\ khz = 25000
         \/ card'.state = "tran" /\ card'.timing # "legacy" /\ khz <= 50000
         \/ card'.state = "tran" /\ card'.timing \in {"HS200", "HS400"}
  PROVE  Slowly'
<1>1. khz <= M!Limit(card')
  BY Limits DEF Rates
<1> QED
  BY <1>1 DEF Slowly, Rates

LEMMA UhsRates ==
  /\ M!UhsKHz["SDR12"] = 25000 /\ M!UhsKHz["SDR25"] = 50000
  /\ M!UhsKHz["DDR50"] = 50000 /\ M!UhsKHz["SDR104"] = 200000
  BY DEF M!UhsKHz

LEMMA HsTimingKeeps ==
  ASSUME CardInv, M!SwitchHsTiming
  PROVE  CardInv'
<1>1. /\ M!Step("hs_timing") /\ CardShape /\ out = "running" /\ "hs_timing" \in Steps
      /\ UNCHANGED <<cfg, host, drv>>
      /\ card' = card \/ card' = [card EXCEPT !.timing = "HS"]
      /\ M!Fail \/ (M!Continue /\ card' = [card EXCEPT !.timing = "HS"])
  BY DEF CardInv, M!SwitchHsTiming, M!mmc_switch_cmd, M!Ends, M!Step, Steps
<1>2. CardShape'
  BY <1>1 DEF CardShape
<1>3. \/ At("mmc", 5) /\ AtMmc(5)
      \/ At("hs", 1) /\ AtHs(1)
      \/ At("hs400", 8) /\ AtHs400(8)
  BY <1>1, Where DEF MmcOrder, SdOrder, HsOrder, DdrOrder, Hs200Order, Hs400Order
<1>4. CASE M!Fail
  <2>1. \/ Paced(host', 400)
        \/ /\ card'.state = "tran" /\ card'.timing # "legacy"
           /\ Paced(host', 25000) \/ Paced(host', 50000)
    BY <1>1, <1>3 DEF AtMmc, AtHs, AtHs400, Chosen, CardShape
  <2> QED
    BY <1>2, <1>4, <2>1, PacedFor, GivesUp DEF M!Fail, Rates
<1>5. CASE M!Continue /\ card' = [card EXCEPT !.timing = "HS"]
  <2>1. todo # <<>> /\ todo' = Tail(todo) /\ out' = "running"
    BY <1>1, <1>5 DEF M!Step, M!Continue
  <2>2. At("mmc", 5) /\ AtMmc(5) => At("mmc", 6)' /\ AtMmc(6)'
    BY <1>1, <1>5, <2>1, Position DEF Lists, AtMmc, CardShape, Fresh, Paced, Decoded
  <2>3. At("hs", 1) /\ AtHs(1) => At("hs", 2)' /\ AtHs(2)'
    BY <1>1, <1>5, <2>1, Position DEF Lists, AtHs, CardShape, Fresh, Paced, Chosen, SameWidth,
       Decoded
  <2>4. At("hs400", 8) /\ AtHs400(8) => At("hs400", 9)' /\ AtHs400(9)'
    BY <1>1, <1>5, <2>1, Position DEF Lists, AtHs400, CardShape, Fresh, Paced, Chosen, SameWidth,
       Decoded
  <2> QED
    BY <1>2, <1>3, <2>1, <2>2, <2>3, <2>4, GoesOn DEF Somewhere
<1> QED
  BY <1>1, <1>4, <1>5

LEMMA WidthKeeps ==
  ASSUME CardInv, M!mmc_set_bus_width
  PROVE  CardInv'
<1>1. /\ M!Step("width") /\ CardShape /\ out = "running" /\ "width" \in Steps
      /\ UNCHANGED <<cfg, host, drv>>
      /\ card' = card \/ card' = [card EXCEPT !.width = drv.width, !.ddr = FALSE]
      /\ M!Fail \/ (M!Continue /\ card' = [card EXCEPT !.width = drv.width, !.ddr = FALSE])
  BY DEF CardInv, M!mmc_set_bus_width, M!mmc_switch_cmd, M!Ends, M!Step, Steps
<1>2. CardShape'
  BY <1>1 DEF CardShape
<1>3. \/ At("hs", 3) /\ AtHs(3)
      \/ At("hs200", 1) /\ AtHs200("hs200", 1)
      \/ At("hs400", 1) /\ AtHs200("hs400", 1)
  BY <1>1, Where DEF MmcOrder, SdOrder, HsOrder, DdrOrder, Hs200Order, Hs400Order
<1>4. CASE M!Fail
  <2>1. host' = host /\ card'.state = card.state /\ card'.timing = card.timing
    BY <1>1 DEF CardShape
  <2>2. /\ card'.state = "tran" /\ card'.timing # "legacy"
        /\ Paced(host', 50000)
    BY <1>3, <2>1 DEF AtHs, AtHs200, Chosen
  <2> QED
    BY <1>2, <1>4, <2>2, PacedFor, GivesUp DEF M!Fail, Rates
<1>5. CASE M!Continue /\ card' = [card EXCEPT !.width = drv.width, !.ddr = FALSE]
  <2>1. todo # <<>> /\ todo' = Tail(todo) /\ out' = "running"
    BY <1>1, <1>5 DEF M!Step, M!Continue
  <2>2. At("hs", 3) /\ AtHs(3) => At("hs", 4)' /\ AtHs(4)'
    BY <1>1, <1>5, <2>1, Position DEF Lists, AtHs, CardShape, Fresh, Paced, Chosen, SameWidth,
       Decoded
  <2>3. At("hs200", 1) /\ AtHs200("hs200", 1) => At("hs200", 2)' /\ AtHs200("hs200", 2)'
    BY <1>1, <1>5, <2>1, Position DEF Lists, AtHs200, CardShape, Fresh, Paced, Chosen, SameWidth,
       Decoded, M!Hs400Wanted
  <2>4. At("hs400", 1) /\ AtHs200("hs400", 1) => At("hs400", 2)' /\ AtHs200("hs400", 2)'
    BY <1>1, <1>5, <2>1, Position DEF Lists, AtHs200, CardShape, Fresh, Paced, Chosen, SameWidth,
       Decoded, M!Hs400Wanted
  <2> QED
    BY <1>2, <1>3, <2>1, <2>2, <2>3, <2>4, GoesOn DEF Somewhere
<1> QED
  BY <1>1, <1>4, <1>5

LEMMA DdrWidthKeeps ==
  ASSUME CardInv, M!SwitchDdrWidth
  PROVE  CardInv'
<1>1. /\ M!Step("ddr_width") /\ CardShape /\ out = "running" /\ "ddr_width" \in Steps
      /\ UNCHANGED <<cfg, host, drv>>
      /\ card' = card \/ card' = [card EXCEPT !.width = 8, !.ddr = TRUE]
      /\ M!Fail \/ (M!Continue /\ card' = [card EXCEPT !.width = 8, !.ddr = TRUE])
  BY DEF CardInv, M!SwitchDdrWidth, M!mmc_switch_cmd, M!Ends, M!Step, Steps
<1>2. CardShape'
  BY <1>1 DEF CardShape
<1>3. \/ At("ddr", 1) /\ AtDdr(1)
      \/ At("hs400", 10) /\ AtHs400(10)
  BY <1>1, Where DEF MmcOrder, SdOrder, HsOrder, DdrOrder, Hs200Order, Hs400Order
<1>4. CASE M!Fail
  <2>1. host' = host /\ card'.state = card.state /\ card'.timing = card.timing
    BY <1>1 DEF CardShape
  <2>2. /\ card'.state = "tran" /\ card'.timing # "legacy"
        /\ Paced(host', 50000)
    BY <1>3, <2>1 DEF AtDdr, AtHs400, Chosen
  <2> QED
    BY <1>2, <1>4, <2>2, PacedFor, GivesUp DEF M!Fail, Rates
<1>5. CASE M!Continue /\ card' = [card EXCEPT !.width = 8, !.ddr = TRUE]
  <2>1. todo # <<>> /\ todo' = Tail(todo) /\ out' = "running"
    BY <1>1, <1>5 DEF M!Step, M!Continue
  <2>2. At("ddr", 1) /\ AtDdr(1) => At("ddr", 2)' /\ AtDdr(2)'
    BY <1>1, <1>5, <2>1, Position DEF Lists, AtDdr, CardShape, Fresh, Paced, Chosen, SameWidth,
       Decoded
  <2>3. At("hs400", 10) /\ AtHs400(10) => At("hs400", 11)' /\ AtHs400(11)'
    BY <1>1, <1>5, <2>1, Position DEF Lists, AtHs400, CardShape, Fresh, Paced, Chosen, SameWidth,
       Decoded
  <2> QED
    BY <1>2, <1>3, <2>1, <2>2, <2>3, GoesOn DEF Somewhere
<1> QED
  BY <1>1, <1>4, <1>5

LEMMA Hs200TimingKeeps ==
  ASSUME CardInv, M!SwitchHs200Timing
  PROVE  CardInv'
<1>1. /\ M!Step("hs200_timing") /\ CardShape /\ out = "running" /\ "hs200_timing" \in Steps
      /\ UNCHANGED <<cfg, host, drv>>
      /\ card' = card \/ card' = [card EXCEPT !.timing = "HS200"]
      /\ M!Fail \/ (M!Continue /\ card' = [card EXCEPT !.timing = "HS200"])
  BY DEF CardInv, M!SwitchHs200Timing, M!mmc_switch_cmd, M!Ends, M!Step, Steps
<1>2. CardShape'
  BY <1>1 DEF CardShape
<1>3. \/ At("hs200", 2) /\ AtHs200("hs200", 2)
      \/ At("hs400", 2) /\ AtHs200("hs400", 2)
  BY <1>1, Where DEF MmcOrder, SdOrder, HsOrder, DdrOrder, Hs200Order, Hs400Order
<1>4. CASE M!Fail
  <2>1. /\ card'.state = "tran" /\ card'.timing # "legacy"
        /\ Paced(host', 50000)
    BY <1>1, <1>3 DEF AtHs200, Chosen, CardShape
  <2> QED
    BY <1>2, <1>4, <2>1, PacedFor, GivesUp DEF M!Fail, Rates
<1>5. CASE M!Continue /\ card' = [card EXCEPT !.timing = "HS200"]
  <2>1. todo # <<>> /\ todo' = Tail(todo) /\ out' = "running"
    BY <1>1, <1>5 DEF M!Step, M!Continue
  <2>2. At("hs200", 2) /\ AtHs200("hs200", 2) => At("hs200", 3)' /\ AtHs200("hs200", 3)'
    BY <1>1, <1>5, <2>1, Position DEF Lists, AtHs200, CardShape, Fresh, Paced, Chosen, SameWidth,
       Decoded, M!Hs400Wanted
  <2>3. At("hs400", 2) /\ AtHs200("hs400", 2) => At("hs400", 3)' /\ AtHs200("hs400", 3)'
    BY <1>1, <1>5, <2>1, Position DEF Lists, AtHs200, CardShape, Fresh, Paced, Chosen, SameWidth,
       Decoded, M!Hs400Wanted
  <2> QED
    BY <1>2, <1>3, <2>1, <2>2, <2>3, GoesOn DEF Somewhere
<1> QED
  BY <1>1, <1>4, <1>5

LEMMA Hs400TimingKeeps ==
  ASSUME CardInv, M!SwitchHs400Timing
  PROVE  CardInv'
<1>1. /\ M!Step("hs400_timing") /\ CardShape /\ out = "running" /\ "hs400_timing" \in Steps
      /\ UNCHANGED <<cfg, host, drv>>
      /\ card' = card \/ card' = [card EXCEPT !.timing = "HS400"]
      /\ M!Fail \/ (M!Continue /\ card' = [card EXCEPT !.timing = "HS400"])
  BY DEF CardInv, M!SwitchHs400Timing, M!mmc_switch_cmd, M!Ends, M!Step, Steps
<1>2. CardShape'
  BY <1>1 DEF CardShape
<1>3. At("hs400", 12) /\ AtHs400(12)
  BY <1>1, Where DEF MmcOrder, SdOrder, HsOrder, DdrOrder, Hs200Order, Hs400Order
<1>4. CASE M!Fail
  <2>1. /\ card'.state = "tran" /\ card'.timing # "legacy"
        /\ Paced(host', 50000)
    BY <1>1, <1>3 DEF AtHs400, Chosen, CardShape
  <2> QED
    BY <1>2, <1>4, <2>1, PacedFor, GivesUp DEF M!Fail, Rates
<1>5. CASE M!Continue /\ card' = [card EXCEPT !.timing = "HS400"]
  <2>1. todo # <<>> /\ todo' = Tail(todo) /\ out' = "running"
    BY <1>1, <1>5 DEF M!Step, M!Continue
  <2>2. At("hs400", 12) /\ AtHs400(12) => At("hs400", 13)' /\ AtHs400(13)'
    BY <1>1, <1>5, <2>1, Position DEF Lists, AtHs400, CardShape, Fresh, Paced, Chosen, SameWidth,
       Decoded
  <2> QED
    BY <1>2, <1>3, <2>1, <2>2, GoesOn DEF Somewhere
<1> QED
  BY <1>1, <1>4, <1>5

LEMMA HostSdr25Keeps ==
  ASSUME CardInv, M!HostSdr25
  PROVE  CardInv'
<1> DEFINE div == M!HostDiv(host.caps.base, M!UhsKHz["SDR25"])
<1>1. /\ M!Step("host_SDR25") /\ CardShape /\ out = "running" /\ "host_SDR25" \in Steps
      /\ UNCHANGED <<cfg, card, drv>> /\ M!Continue
      /\ host' = [host EXCEPT !.uhs = "SDR25", !.div = div, !.timing = "SDR25"]
  BY DEF CardInv, M!HostSdr25, M!HostStep, M!sdhci_set_uhs_mode, CardShape, M!Step, Steps
<1>0. div = M!HostDiv(host.caps.base, 50000)
  BY UhsRates
<1> HIDE DEF div
<1>2. CardShape'
  BY <1>1 DEF CardShape
<1>3. \/ At("mmc", 6) /\ AtMmc(6)
      \/ At("hs", 2) /\ AtHs(2)
      \/ At("hs400", 9) /\ AtHs400(9)
  BY <1>1, Where DEF MmcOrder, SdOrder, HsOrder, DdrOrder, Hs200Order, Hs400Order
<1>4. /\ host'.uhs = "SDR25" /\ host'.div = M!HostDiv(host'.caps.base, 50000)
      /\ host'.width = host.width /\ host'.core = host.core /\ host'.half = host.half
      /\ host'.selIn = host.selIn /\ host'.tuned = host.tuned
      /\ host'.calibrated = host.calibrated /\ host'.caps = host.caps
      /\ host'.timing = "SDR25"
  BY <1>1, <1>0 DEF CardShape
<1>5. CASE M!Continue
  <2>1. todo # <<>> /\ todo' = Tail(todo) /\ out' = "running"
    BY <1>1, <1>5 DEF M!Step, M!Continue
  <2>2. At("mmc", 6) /\ AtMmc(6) => At("mmc", 7)' /\ AtMmc(7)'
    BY <1>1, <1>4, <1>5, <2>1, Position DEF Lists, AtMmc, Fresh, Paced, Decoded
  <2>3. At("hs", 2) /\ AtHs(2) => At("hs", 3)' /\ AtHs(3)'
    BY <1>1, <1>4, <1>5, <2>1, Position DEF Lists, AtHs, Fresh, Paced, Chosen, SameWidth, Decoded
  <2>4. At("hs400", 9) /\ AtHs400(9) => At("hs400", 10)' /\ AtHs400(10)'
    BY <1>1, <1>4, <1>5, <2>1, Position DEF Lists, AtHs400, Fresh, Paced, Chosen, SameWidth,
       Decoded
  <2> QED
    BY <1>2, <1>3, <2>1, <2>2, <2>3, <2>4, GoesOn DEF Somewhere
<1> QED
  BY <1>1, <1>5

LEMMA HostDdr50Keeps ==
  ASSUME CardInv, M!HostDdr50
  PROVE  CardInv'
<1> DEFINE div == M!HostDiv(host.caps.base, M!UhsKHz["DDR50"])
<1>1. /\ M!Step("host_DDR50") /\ CardShape /\ out = "running" /\ "host_DDR50" \in Steps
      /\ UNCHANGED <<cfg, card, drv>> /\ M!Continue
      /\ host' = [host EXCEPT !.uhs = "DDR50", !.div = div, !.timing = "DDR50"]
  BY DEF CardInv, M!HostDdr50, M!HostStep, M!sdhci_set_uhs_mode, CardShape, M!Step, Steps
<1>0. div = M!HostDiv(host.caps.base, 50000)
  BY UhsRates
<1> HIDE DEF div
<1>2. CardShape'
  BY <1>1 DEF CardShape
<1>3. \/ At("ddr", 2) /\ AtDdr(2)
      \/ At("hs400", 11) /\ AtHs400(11)
  BY <1>1, Where DEF MmcOrder, SdOrder, HsOrder, DdrOrder, Hs200Order, Hs400Order
<1>4. /\ host'.uhs = "DDR50" /\ host'.div = M!HostDiv(host'.caps.base, 50000)
      /\ host'.width = host.width /\ host'.core = host.core /\ host'.half = host.half
      /\ host'.selIn = host.selIn /\ host'.tuned = host.tuned
      /\ host'.calibrated = host.calibrated /\ host'.caps = host.caps
      /\ host'.timing = "DDR50"
  BY <1>1, <1>0 DEF CardShape
<1>5. CASE M!Continue
  <2>1. todo # <<>> /\ todo' = Tail(todo) /\ out' = "running"
    BY <1>1, <1>5 DEF M!Step, M!Continue
  <2>2. At("ddr", 2) /\ AtDdr(2) => At("ddr", 3)' /\ AtDdr(3)'
    BY <1>1, <1>4, <1>5, <2>1, Position DEF Lists, AtDdr, Fresh, Paced, Chosen, SameWidth, Decoded
  <2>3. At("hs400", 11) /\ AtHs400(11) => At("hs400", 12)' /\ AtHs400(12)'
    BY <1>1, <1>4, <1>5, <2>1, Position DEF Lists, AtHs400, Fresh, Paced, Chosen, SameWidth,
       Decoded
  <2> QED
    BY <1>2, <1>3, <2>1, <2>2, <2>3, GoesOn DEF Somewhere
<1> QED
  BY <1>1, <1>5

LEMMA HostSdr12Keeps ==
  ASSUME CardInv, M!HostSdr12
  PROVE  CardInv'
<1> DEFINE div == M!HostDiv(host.caps.base, M!UhsKHz["SDR12"])
<1>1. /\ M!Step("host_SDR12") /\ CardShape /\ out = "running" /\ "host_SDR12" \in Steps
      /\ UNCHANGED <<cfg, card, drv>> /\ M!Continue
      /\ host' = [host EXCEPT !.uhs = "SDR12", !.div = div, !.timing = "SDR12"]
  BY DEF CardInv, M!HostSdr12, M!HostStep, M!sdhci_set_uhs_mode, CardShape, M!Step, Steps
<1>0. div = M!HostDiv(host.caps.base, 25000)
  BY UhsRates
<1> HIDE DEF div
<1>2. CardShape'
  BY <1>1 DEF CardShape
<1>3. At("hs400", 7) /\ AtHs200("hs400", 7)
  BY <1>1, Where DEF MmcOrder, SdOrder, HsOrder, DdrOrder, Hs200Order, Hs400Order
<1>4. /\ host'.uhs = "SDR12" /\ host'.div = M!HostDiv(host'.caps.base, 25000)
      /\ host'.width = host.width /\ host'.core = host.core /\ host'.half = host.half
      /\ host'.selIn = host.selIn /\ host'.tuned = host.tuned
      /\ host'.calibrated = host.calibrated /\ host'.caps = host.caps
      /\ host'.timing = "SDR12"
  BY <1>1, <1>0 DEF CardShape
<1>5. CASE M!Continue
  <2>1. todo # <<>> /\ todo' = Tail(todo) /\ out' = "running"
    BY <1>1, <1>5 DEF M!Step, M!Continue
  <2>2. At("hs400", 7) /\ AtHs200("hs400", 7) => At("hs400", 8)' /\ AtHs400(8)'
    BY <1>1, <1>4, <1>5, <2>1, Position DEF Lists, AtHs200, AtHs400, Fresh, Paced, Chosen,
       SameWidth, Decoded, M!Hs400Wanted
  <2> QED
    BY <1>2, <1>3, <2>1, <2>2, GoesOn DEF Somewhere
<1> QED
  BY <1>1, <1>5

LEMMA HostSdr104Keeps ==
  ASSUME CardInv, M!HostSdr104
  PROVE  CardInv'
<1> DEFINE div == M!HostDiv(host.caps.base, M!UhsKHz["SDR104"])
<1>1. /\ M!Step("host_SDR104") /\ CardShape /\ out = "running" /\ "host_SDR104" \in Steps
      /\ UNCHANGED <<cfg, card, drv>> /\ M!Continue
      /\ host' = [host EXCEPT !.uhs = "SDR104", !.div = div]
  BY DEF CardInv, M!HostSdr104, M!HostStep, M!sdhci_set_uhs_mode, CardShape, M!Step, Steps
<1>0. div = M!HostDiv(host.caps.base, 200000)
  BY UhsRates
<1> HIDE DEF div
<1>2. CardShape'
  BY <1>1 DEF CardShape
<1>3. \/ At("hs200", 3) /\ AtHs200("hs200", 3)
      \/ At("hs400", 3) /\ AtHs200("hs400", 3)
  BY <1>1, Where DEF MmcOrder, SdOrder, HsOrder, DdrOrder, Hs200Order, Hs400Order
<1>4. /\ host'.uhs = "SDR104" /\ host'.div = M!HostDiv(host'.caps.base, 200000)
      /\ host'.width = host.width /\ host'.core = host.core /\ host'.half = host.half
      /\ host'.selIn = host.selIn /\ host'.tuned = host.tuned
      /\ host'.calibrated = host.calibrated /\ host'.caps = host.caps
      /\ host'.timing = host.timing
  BY <1>1, <1>0 DEF CardShape
<1>5. CASE M!Continue
  <2>1. todo # <<>> /\ todo' = Tail(todo) /\ out' = "running"
    BY <1>1, <1>5 DEF M!Step, M!Continue
  <2>2. At("hs200", 3) /\ AtHs200("hs200", 3) => At("hs200", 4)' /\ AtHs200("hs200", 4)'
    BY <1>1, <1>4, <1>5, <2>1, Position DEF Lists, AtHs200, Fresh, Paced, Chosen, SameWidth,
       Decoded, M!Hs400Wanted
  <2>3. At("hs400", 3) /\ AtHs200("hs400", 3) => At("hs400", 4)' /\ AtHs200("hs400", 4)'
    BY <1>1, <1>4, <1>5, <2>1, Position DEF Lists, AtHs200, Fresh, Paced, Chosen, SameWidth,
       Decoded, M!Hs400Wanted
  <2> QED
    BY <1>2, <1>3, <2>1, <2>2, <2>3, GoesOn DEF Somewhere
<1> QED
  BY <1>1, <1>5


\* sdhci_msm_set_mci_clk and the clock driver leave the rest of the host alone.
OnlyClock ==
  /\ CardShape' /\ UNCHANGED <<cfg, card, drv>>
  /\ host'.width = host.width /\ host'.uhs = host.uhs /\ host'.div = host.div
  /\ host'.tuned = host.tuned /\ host'.calibrated = host.calibrated /\ host'.caps = host.caps

LEMMA TuneKeeps ==
  ASSUME CardInv, M!Tune
  PROVE  CardInv'
<1>1. /\ M!Step("tuning") /\ CardShape /\ out = "running" /\ "tuning" \in Steps
      /\ UNCHANGED <<cfg, card, drv>> /\ M!Continue /\ host' = [host EXCEPT !.tuned = TRUE]
  BY DEF CardInv, M!Tune, M!Step, Steps
<1>2. CardShape'
  BY <1>1 DEF CardShape
<1>3. \/ At("hs200", 5) /\ AtHs200("hs200", 5)
      \/ At("hs400", 5) /\ AtHs200("hs400", 5)
  BY <1>1, Where DEF MmcOrder, SdOrder, HsOrder, DdrOrder, Hs200Order, Hs400Order
<1>4. todo # <<>> /\ todo' = Tail(todo) /\ out' = "running"
  BY <1>1 DEF M!Step, M!Continue
<1>5. At("hs200", 5) /\ AtHs200("hs200", 5) => At("hs200", 6)' /\ AtHs200("hs200", 6)'
  BY <1>1, <1>4, Position DEF Lists, AtHs200, CardShape, Paced, Chosen, SameWidth, Decoded,
     M!Hs400Wanted
<1>6. At("hs400", 5) /\ AtHs200("hs400", 5) => At("hs400", 6)' /\ AtHs200("hs400", 6)'
  BY <1>1, <1>4, Position DEF Lists, AtHs200, CardShape, Paced, Chosen, SameWidth, Decoded,
     M!Hs400Wanted
<1> QED
  BY <1>2, <1>3, <1>4, <1>5, <1>6, GoesOn DEF Somewhere


\* The host record from its fields, and with one of them set.
HostRec(w, u, d, c, b, s, t, n, a, p) ==
  [width |-> w, uhs |-> u, div |-> d, core |-> c, half |-> b, selIn |-> s, timing |-> t,
   tuned |-> n, calibrated |-> a, caps |-> p]
SetUhs(h, x) == [h EXCEPT !.uhs = x]
SetDiv(h, x) == [h EXCEPT !.div = x]
SetCore(h, x) == [h EXCEPT !.core = x]
SetHalf(h, x) == [h EXCEPT !.half = x]
SetSelect(h, x) == [h EXCEPT !.selIn = x]
SetTiming(h, x) == [h EXCEPT !.timing = x]

LEMMA HostRecSets ==
  ASSUME NEW w, NEW u, NEW d, NEW c, NEW b, NEW s, NEW t, NEW n, NEW a, NEW p,
         NEW x
  PROVE
    /\ SetUhs(HostRec(w, u, d, c, b, s, t, n, a, p), x) = HostRec(w, x, d, c, b, s, t, n, a, p)
    /\ SetDiv(HostRec(w, u, d, c, b, s, t, n, a, p), x) = HostRec(w, u, x, c, b, s, t, n, a, p)
    /\ SetCore(HostRec(w, u, d, c, b, s, t, n, a, p), x) = HostRec(w, u, d, x, b, s, t, n, a, p)
    /\ SetHalf(HostRec(w, u, d, c, b, s, t, n, a, p), x) = HostRec(w, u, d, c, x, s, t, n, a, p)
    /\ SetSelect(HostRec(w, u, d, c, b, s, t, n, a, p), x) = HostRec(w, u, d, c, b, x, t, n, a, p)
    /\ SetTiming(HostRec(w, u, d, c, b, s, t, n, a, p), x) = HostRec(w, u, d, c, b, s, x, n, a, p)
<1>1. SetUhs(HostRec(w, u, d, c, b, s, t, n, a, p), x) = HostRec(w, x, d, c, b, s, t, n, a, p)
  BY DEF HostRec, SetUhs
<1>2. SetDiv(HostRec(w, u, d, c, b, s, t, n, a, p), x) = HostRec(w, u, x, c, b, s, t, n, a, p)
  BY DEF HostRec, SetDiv
<1>3. SetCore(HostRec(w, u, d, c, b, s, t, n, a, p), x) = HostRec(w, u, d, x, b, s, t, n, a, p)
  BY DEF HostRec, SetCore
<1>4. SetHalf(HostRec(w, u, d, c, b, s, t, n, a, p), x) = HostRec(w, u, d, c, x, s, t, n, a, p)
  BY DEF HostRec, SetHalf
<1>5. SetSelect(HostRec(w, u, d, c, b, s, t, n, a, p), x) = HostRec(w, u, d, c, b, x, t, n, a, p)
  BY DEF HostRec, SetSelect
<1>6. SetTiming(HostRec(w, u, d, c, b, s, t, n, a, p), x) = HostRec(w, u, d, c, b, s, x, n, a, p)
  BY DEF HostRec, SetTiming
<1> QED
  BY <1>1, <1>2, <1>3, <1>4, <1>5, <1>6

LEMMA HostRecFields ==
  ASSUME NEW w, NEW u, NEW d, NEW c, NEW b, NEW s, NEW t, NEW n, NEW a, NEW p
  PROVE  LET r == HostRec(w, u, d, c, b, s, t, n, a, p)
         IN  /\ r.width = w /\ r.uhs = u /\ r.div = d /\ r.core = c /\ r.half = b
             /\ r.selIn = s /\ r.timing = t /\ r.tuned = n /\ r.calibrated = a /\ r.caps = p
  BY DEF HostRec

LEMMA HostIsRec ==
  ASSUME CardShape
  PROVE  host = HostRec(host.width, host.uhs, host.div, host.core, host.half, host.selIn,
                        host.timing, host.tuned, host.calibrated, host.caps)
  BY DEF CardShape, HostRec

\* A host record made anew from the one there was.
LEMMA HostRecShape ==
  ASSUME CardShape, UNCHANGED <<cfg, card, drv>>, NEW w, NEW u, NEW d, NEW c, NEW b \in BOOLEAN,
         NEW s \in BOOLEAN, NEW t, NEW n \in BOOLEAN, NEW a \in BOOLEAN,
         host' = HostRec(w, u, d, c, b, s, t, n, a, host.caps)
  PROVE  CardShape'
<1>1. /\ host'.width = w /\ host'.uhs = u /\ host'.div = d /\ host'.core = c /\ host'.half = b
      /\ host'.selIn = s /\ host'.timing = t /\ host'.tuned = n /\ host'.calibrated = a
      /\ host'.caps = host.caps
  BY DEF HostRec
<1>2. host' = HostRec(host'.width, host'.uhs, host'.div, host'.core, host'.half, host'.selIn,
                      host'.timing, host'.tuned, host'.calibrated, host'.caps)
  BY <1>1
<1> QED
  BY <1>1, <1>2 DEF CardShape, HostRec

\* ClockConfig leaves the host it is given, on the new core clock or not.
LEMMA Configured ==
  ASSUME NEW h, NEW khz, M!ClockConfig(h, khz)
  PROVE  \/ host' = SetCore(h, M!TranslateClockRate(khz)) /\ M!Continue
         \/ host' = h /\ todo' = <<>> /\ out' = "asserted"
  BY DEF M!ClockConfig, SetCore

\* How the core clock is set for the tuning on the way to HS400, where neither
\* the tuning nor HS400 has touched the host.
StaysInHs200 == ~M!Hs400Wanted /\ M!Continue /\ host' = host
GoesFaster ==
  /\ M!Hs400Wanted /\ M!Continue /\ OnlyClock
  /\ host'.timing = "HS400" /\ host'.half /\ ~host'.selIn /\ host'.core = 384000
LacksFaster ==
  /\ todo' = <<>> /\ out' = "asserted" /\ OnlyClock
  /\ host'.half /\ host'.core = host.core

\* The host with the clock set for a timing.
ClockedHost(core, half, on, time) ==
  HostRec(host.width, host.uhs, host.div, core, half, on, time, host.tuned, host.calibrated,
          host.caps)

LEMMA ClockedSets ==
  ASSUME CardShape, NEW core, NEW half, NEW on, NEW time, NEW x
  PROVE
    /\ SetTiming(host, x) = ClockedHost(host.core, host.half, host.selIn, x)
    /\ SetTiming(ClockedHost(core, half, on, time), x) = ClockedHost(core, half, on, x)
    /\ SetHalf(ClockedHost(core, half, on, time), x) = ClockedHost(core, x, on, time)
    /\ SetSelect(ClockedHost(core, half, on, time), x) = ClockedHost(core, half, x, time)
    /\ SetCore(ClockedHost(core, half, on, time), x) = ClockedHost(x, half, on, time)
  BY HostIsRec, HostRecSets DEF ClockedHost

LEMMA ClockedFields ==
  ASSUME NEW core, NEW half, NEW on, NEW time
  PROVE  LET h == ClockedHost(core, half, on, time)
         IN  /\ h.timing = time /\ h.selIn = on /\ h.half = half /\ h.core = core
             /\ h.tuned = host.tuned /\ h.calibrated = host.calibrated /\ h.caps = host.caps
  BY HostRecFields DEF ClockedHost

\* sdhci_msm_set_mci_clk sets one field after the other.
LEMMA SetMciClk ==
  ASSUME NEW h
  PROVE  M!sdhci_msm_set_mci_clk(h) =
           IF h.timing = "HS400"
           THEN SetSelect(SetHalf(h, TRUE), h.selIn \/ (h.tuned /\ ~h.calibrated))
           ELSE SetSelect(h, FALSE)
  BY DEF M!sdhci_msm_set_mci_clk, SetSelect, SetHalf

LEMMA ClockedShape ==
  ASSUME CardShape, UNCHANGED <<cfg, card, drv>>, NEW core, NEW half \in BOOLEAN,
         NEW on \in BOOLEAN, NEW time, host' = ClockedHost(core, half, on, time)
  PROVE  /\ OnlyClock /\ host'.timing = time /\ host'.half = half /\ host'.selIn = on
         /\ host'.core = core
<1>1. CardShape'
  BY HostRecShape DEF ClockedHost, CardShape
<1> QED
  BY <1>1, HostRecFields DEF ClockedHost, OnlyClock

LEMMA Clock400Ends ==
  ASSUME CardInv, M!Clock400ForTuning, ~host.selIn, ~host.tuned
  PROVE  StaysInHs200 \/ GoesFaster \/ LacksFaster
<1>1. UNCHANGED <<cfg, card, drv>> /\ CardShape
  BY DEF M!Clock400ForTuning, CardInv
<1>2. CASE ~M!Hs400Wanted
  BY <1>2 DEF M!Clock400ForTuning, StaysInHs200
<1>3. CASE M!Hs400Wanted
  <2> DEFINE h == ClockedHost(host.core, host.half, host.selIn, "HS400")
  <2>1. [host EXCEPT !.timing = "HS400"] = h
    <3>1. [host EXCEPT !.timing = "HS400"] = SetTiming(host, "HS400")
      BY DEF SetTiming
    <3> QED
      BY <1>1, <3>1, ClockedSets
  <2>2. M!ClockConfig(M!sdhci_msm_set_mci_clk(h), 400000)
    BY <1>3, <2>1 DEF M!Clock400ForTuning
  <2>3. h.timing = "HS400" /\ ~h.selIn /\ ~h.tuned
    <3>1. h.timing = "HS400" /\ h.selIn = host.selIn /\ h.tuned = host.tuned
      BY ClockedFields
    <3> HIDE DEF h
    <3> QED
      BY <3>1
  <2> HIDE DEF h
  <2>4. PICK half \in BOOLEAN, on \in BOOLEAN : half /\ ~on
    OBVIOUS
  <2>5. M!sdhci_msm_set_mci_clk(h) = SetSelect(SetHalf(h, half), on)
    BY <2>3, <2>4, SetMciClk
  <2>6. SetSelect(SetHalf(h, half), on) = ClockedHost(host.core, half, on, "HS400")
    BY <1>1, ClockedSets DEF h
  <2>7. SetCore(ClockedHost(host.core, half, on, "HS400"), 384000) =
          ClockedHost(384000, half, on, "HS400")
    BY <1>1, ClockedSets
  <2> DEFINE g == ClockedHost(host.core, half, on, "HS400")
  <2>8. \/ host' = ClockedHost(384000, half, on, "HS400") /\ M!Continue
        \/ host' = g /\ todo' = <<>> /\ out' = "asserted"
    <3>1. M!TranslateClockRate(400000) = 384000
      BY DEF M!TranslateClockRate
    <3> QED
      BY <2>2, <2>5, <2>6, <2>7, <3>1, Configured
  <2>9. CASE host' = ClockedHost(384000, half, on, "HS400") /\ M!Continue
    <3>1. /\ OnlyClock /\ host'.timing = "HS400" /\ host'.half = half /\ host'.selIn = on
          /\ host'.core = 384000
      <4>1. half \in BOOLEAN /\ on \in BOOLEAN
        BY <2>4
      <4>2. host' = ClockedHost(384000, half, on, "HS400")
        BY <2>9
      <4> QED
        BY ONLY <1>1, <4>1, <4>2, ClockedShape
    <3>2. host'.half /\ ~host'.selIn
      BY <2>4, <3>1
    <3>3. M!Continue
      BY <2>9
    <3> QED
      BY <1>3, <3>1, <3>2, <3>3 DEF GoesFaster
  <2>10. CASE host' = g /\ todo' = <<>> /\ out' = "asserted"
    <3>1. OnlyClock /\ host'.half = half /\ host'.core = host.core
      BY <1>1, <2>4, <2>10, ClockedShape
    <3>2. host'.half
      BY <2>4, <3>1
    <3>3. todo' = <<>> /\ out' = "asserted"
      BY <2>10
    <3> QED
      BY <3>1, <3>2, <3>3 DEF LacksFaster
  <2> QED
    BY <2>8, <2>9, <2>10
<1> QED
  BY <1>2, <1>3

LEMMA Clock400Keeps ==
  ASSUME CardInv, M!Clock400ForTuning
  PROVE  CardInv'
<1>1. M!Step("clock_400") /\ out = "running" /\ "clock_400" \in Steps /\ CardShape
      /\ UNCHANGED <<cfg, card, drv>>
  BY DEF M!Clock400ForTuning, M!Step, Steps, CardInv
<1>2. \/ At("hs200", 4) /\ AtHs200("hs200", 4)
      \/ At("hs400", 4) /\ AtHs200("hs400", 4)
  BY <1>1, Where DEF MmcOrder, SdOrder, HsOrder, DdrOrder, Hs200Order, Hs400Order
<1>3. /\ Paced(host, 200000) /\ card.state = "tran" /\ card.timing = "HS200"
      /\ ~host.tuned /\ ~host.selIn
  BY <1>2 DEF AtHs200, Chosen
<1>4. StaysInHs200 \/ GoesFaster \/ LacksFaster
  BY <1>3, Clock400Ends
<1>5. CASE StaysInHs200
  <2>1. todo # <<>> /\ todo' = Tail(todo) /\ out' = "running"
    BY <1>1, <1>5 DEF StaysInHs200, M!Step, M!Continue
  <2>2. At("hs200", 4) /\ AtHs200("hs200", 4)
    BY <1>2, <1>5 DEF StaysInHs200, AtHs200
  <2>3. At("hs200", 5)'
    BY <2>1, <2>2, Position DEF Lists
  <2>4. AtHs200("hs200", 5)'
    BY <1>1, <1>5, <2>2 DEF StaysInHs200, AtHs200, Paced, Chosen, SameWidth, Decoded, M!Hs400Wanted
  <2>5. CardShape'
    BY <1>1, <1>5 DEF CardShape, StaysInHs200
  <2> QED
    BY <2>1, <2>3, <2>4, <2>5, GoesOn DEF Somewhere
<1>6. CASE GoesFaster
  <2>1. todo # <<>> /\ todo' = Tail(todo) /\ out' = "running"
    BY <1>1, <1>6 DEF GoesFaster, M!Step, M!Continue
  <2>2. At("hs400", 4) /\ AtHs200("hs400", 4)
    BY <1>2, <1>6 DEF GoesFaster, AtHs200
  <2>3. At("hs400", 5)'
    BY <2>1, <2>2, Position DEF Lists
  <2>4. AtHs200("hs400", 5)'
    BY <1>1, <1>6, <2>2 DEF GoesFaster, OnlyClock, AtHs200, Paced, Chosen, SameWidth, Decoded,
       M!Hs400Wanted
  <2> QED
    BY <1>6, <2>1, <2>3, <2>4, GoesOn DEF Somewhere, GoesFaster, OnlyClock
<1>7. CASE LacksFaster
  <2>1. Paced(host', 200000) /\ card' = card /\ CardShape'
    BY <1>3, <1>7 DEF LacksFaster, OnlyClock, Paced
  <2> QED
    BY <1>3, <1>7, <2>1, PacedFor, GivesUp DEF LacksFaster, Rates
<1> QED
  BY <1>4, <1>5, <1>6, <1>7

\* However the tuning ended, the faster core clock and HS400 are taken back.
TakesBack ==
  /\ OnlyClock /\ host'.timing = "HS200" /\ host'.half = host.half /\ ~host'.selIn
  /\ host'.core \in {200000, host.core}
  /\ M!Continue \/ (todo' = <<>> /\ out' \in {"failed", "asserted"})

LEMMA ClockBackEnds ==
  ASSUME CardInv, M!ClockBackTo200, ~host.selIn
  PROVE  TakesBack
<1> DEFINE h == ClockedHost(host.core, host.half, host.selIn, "HS200")
<1>1. UNCHANGED <<cfg, card, drv>> /\ CardShape /\ host.half \in BOOLEAN /\ host.selIn \in BOOLEAN
  BY DEF M!ClockBackTo200, CardInv, CardShape
<1>2. [host EXCEPT !.timing = "HS200"] = h
  <2>1. [host EXCEPT !.timing = "HS200"] = SetTiming(host, "HS200")
    BY DEF SetTiming
  <2> QED
    BY <1>1, <2>1, ClockedSets
<1>3. PICK on \in BOOLEAN : on = FALSE
  OBVIOUS
<1>4. M!sdhci_msm_set_mci_clk(h) = ClockedHost(host.core, host.half, on, "HS200")
  <2>1. h.timing = "HS200"
    BY ClockedFields
  <2> HIDE DEF h
  <2>2. M!sdhci_msm_set_mci_clk(h) = SetSelect(h, on)
    BY <1>3, <2>1, SetMciClk
  <2>3. SetSelect(h, on) = ClockedHost(host.core, host.half, on, "HS200")
    BY <1>1, ClockedSets DEF h
  <2> QED
    BY <2>2, <2>3
<1>5. ~on
  BY <1>3
<1> DEFINE g == ClockedHost(host.core, host.half, on, "HS200")
           f == ClockedHost(200000, host.half, on, "HS200")
           Left == M!Continue \/ (todo' = <<>> /\ out' \in {"failed", "asserted"})
<1>6. SetCore(g, 200000) = f
  BY <1>1, ClockedSets
<1> HIDE DEF h, g, f
<1>7. host' \in {f, g, h} /\ Left
  <2>1. CASE ret # 0
    <3>1. host' = (IF host.timing = "HS400" THEN [g EXCEPT !.core = 200000] ELSE h) /\ M!Fail
      BY <1>2, <1>4, <2>1 DEF M!ClockBackTo200, g
    <3>2. [g EXCEPT !.core = 200000] = SetCore(g, 200000)
      BY DEF SetCore
    <3> QED
      BY <1>6, <3>1, <3>2 DEF M!Fail
  <2>2. CASE ret = 0 /\ host.timing = "HS400"
    <3>1. M!ClockConfig(g, 192000)
      BY <1>2, <1>4, <2>2 DEF M!ClockBackTo200, g
    <3>2. M!TranslateClockRate(192000) = 200000
      BY DEF M!TranslateClockRate
    <3> QED
      BY <1>6, <3>1, <3>2, Configured
  <2>3. CASE ret = 0 /\ host.timing # "HS400"
    BY <1>2, <2>3 DEF M!ClockBackTo200
  <2> QED
    BY <2>1, <2>2, <2>3
<1> HIDE DEF Left
<1>8. ASSUME NEW core \in {200000, host.core}, NEW n \in BOOLEAN, ~n,
             host' = ClockedHost(core, host.half, n, "HS200")
      PROVE  /\ OnlyClock /\ host'.timing = "HS200" /\ host'.half = host.half /\ ~host'.selIn
             /\ host'.core \in {200000, host.core}
  <2>1. /\ OnlyClock /\ host'.timing = "HS200" /\ host'.half = host.half /\ host'.selIn = n
        /\ host'.core = core
    BY ONLY <1>1, <1>8, ClockedShape
  <2> QED
    BY <1>8, <2>1
<1>9. \E core \in {200000, host.core} : \E n \in BOOLEAN :
        ~n /\ host' = ClockedHost(core, host.half, n, "HS200")
  BY <1>1, <1>5, <1>7 DEF f, g, h
<1> QED
  BY <1>7, <1>8, <1>9 DEF TakesBack, Left

LEMMA ClockBackKeeps ==
  ASSUME CardInv, M!ClockBackTo200
  PROVE  CardInv'
<1>1. M!Step("clock_200") /\ out = "running" /\ "clock_200" \in Steps /\ CardShape
  BY DEF M!ClockBackTo200, M!Step, Steps, CardInv
<1>2. \/ At("hs200", 6) /\ AtHs200("hs200", 6)
      \/ At("hs400", 6) /\ AtHs200("hs400", 6)
  BY <1>1, Where DEF MmcOrder, SdOrder, HsOrder, DdrOrder, Hs200Order, Hs400Order
<1>3. Paced(host, 200000) /\ card.state = "tran" /\ card.timing = "HS200" /\ ~host.selIn
  BY <1>2 DEF AtHs200, Chosen
<1>4. TakesBack
  BY <1>3, ClockBackEnds
<1>5. Paced(host', 200000) /\ card' = card /\ CardShape'
  BY <1>3, <1>4 DEF TakesBack, OnlyClock, Paced
<1>6. CASE todo' = <<>> /\ out' \in {"failed", "asserted"}
  BY <1>3, <1>5, <1>6, PacedFor, GivesUp DEF Rates
<1>7. CASE M!Continue
  <2>1. todo # <<>> /\ todo' = Tail(todo) /\ out' = "running"
    BY <1>1, <1>7 DEF M!Step, M!Continue
  <2>2. At("hs200", 6) /\ AtHs200("hs200", 6) => At("hs200", 7)' /\ AtHs200("hs200", 7)'
    BY <1>4, <1>5, <2>1, Position DEF TakesBack, OnlyClock, Lists, AtHs200, Chosen, SameWidth,
       Decoded, M!Hs400Wanted
  <2>3. At("hs400", 6) /\ AtHs200("hs400", 6) => At("hs400", 7)' /\ AtHs200("hs400", 7)'
    BY <1>4, <1>5, <2>1, Position DEF TakesBack, OnlyClock, Lists, AtHs200, Chosen, SameWidth,
       Decoded, M!Hs400Wanted
  <2> QED
    BY <1>2, <1>5, <2>1, <2>2, <2>3, GoesOn DEF Somewhere
<1> QED
  BY <1>4, <1>6, <1>7 DEF TakesBack

\* The clock for HS400, which is selected now that the host is tuned.
Hs400Paced ==
  /\ CardShape' /\ UNCHANGED <<cfg, card, drv>> /\ Paced(host', 200000)
  /\ host'.uhs = "SDR104" /\ host'.selIn
  /\ host'.width = host.width /\ host'.tuned = host.tuned /\ host'.calibrated = host.calibrated
  /\ M!Continue \/ (todo' = <<>> /\ out' = "asserted")

\* The host as it is made ready for HS400.
Hs400Host(div, core, half, on) ==
  HostRec(host.width, "SDR104", div, core, half, on, "HS400", host.tuned, host.calibrated,
          host.caps)

LEMMA Hs400Sets ==
  ASSUME NEW div, NEW core, NEW half, NEW on, NEW x
  PROVE  /\ SetDiv(SetUhs(ClockedHost(core, half, on, "HS400"), "SDR104"), div) =
              Hs400Host(div, core, half, on)
         /\ SetHalf(Hs400Host(div, core, half, on), x) = Hs400Host(div, core, x, on)
         /\ SetSelect(Hs400Host(div, core, half, on), x) = Hs400Host(div, core, half, x)
         /\ SetCore(Hs400Host(div, core, half, on), x) = Hs400Host(div, x, half, on)
  BY HostRecSets DEF ClockedHost, Hs400Host

LEMMA Hs400Fields ==
  ASSUME NEW div, NEW core, NEW half, NEW on
  PROVE  LET h == Hs400Host(div, core, half, on)
         IN  /\ h.uhs = "SDR104" /\ h.timing = "HS400" /\ h.selIn = on /\ h.half = half
             /\ h.core = core /\ h.div = div /\ h.width = host.width /\ h.tuned = host.tuned
             /\ h.calibrated = host.calibrated /\ h.caps = host.caps
  BY HostRecFields DEF Hs400Host

LEMMA Hs400Shape ==
  ASSUME CardShape, UNCHANGED <<cfg, card, drv>>, NEW div, NEW core, NEW half \in BOOLEAN,
         NEW on \in BOOLEAN, host' = Hs400Host(div, core, half, on)
  PROVE  /\ CardShape' /\ host'.uhs = "SDR104" /\ host'.selIn = on /\ host'.half = half
         /\ host'.core = core /\ host'.div = div /\ host'.caps = host.caps
         /\ host'.width = host.width /\ host'.tuned = host.tuned
         /\ host'.calibrated = host.calibrated
<1>1. CardShape'
  <2>1. host.tuned \in BOOLEAN /\ host.calibrated \in BOOLEAN
    BY DEF CardShape
  <2> QED
    BY <2>1, HostRecShape DEF Hs400Host
<1>2. /\ host'.uhs = "SDR104" /\ host'.selIn = on /\ host'.half = half /\ host'.core = core
      /\ host'.div = div /\ host'.caps = host.caps
      /\ host'.width = host.width /\ host'.tuned = host.tuned
      /\ host'.calibrated = host.calibrated
  BY Hs400Fields
<1> QED
  BY <1>1, <1>2

LEMMA Hs400ClockEnds ==
  ASSUME CardInv, M!Hs400Clock, host.tuned, ~host.calibrated,
         host.core \in {200000, 384000}
  PROVE  Hs400Paced
<1> DEFINE div == M!HostDiv(host.caps.base, M!UhsKHz["SDR104"])
           h == ClockedHost(host.core, host.half, host.selIn, "HS400")
           r == Hs400Host(div, host.core, host.half, host.selIn)
           Left == M!Continue \/ (todo' = <<>> /\ out' = "asserted")
<1>1. UNCHANGED <<cfg, card, drv>> /\ CardShape
  BY DEF M!Hs400Clock, CardInv
<1>2. div = M!HostDiv(host.caps.base, 200000)
  BY UhsRates
<1>3. [host EXCEPT !.timing = "HS400"] = h
  <2>1. [host EXCEPT !.timing = "HS400"] = SetTiming(host, "HS400")
    BY DEF SetTiming
  <2> QED
    BY <1>1, <2>1, ClockedSets
<1> HIDE DEF div
<1>4. M!sdhci_set_uhs_mode(h, "SDR104") = r
  <2>1. h.caps = host.caps
    BY ONLY ClockedFields
  <2>2. SetDiv(SetUhs(h, "SDR104"), div) = r
    BY Hs400Sets
  <2> HIDE DEF h, r
  <2>3. M!sdhci_set_uhs_mode(h, "SDR104") = SetDiv(SetUhs(h, "SDR104"), div)
    BY <2>1 DEF M!sdhci_set_uhs_mode, SetDiv, SetUhs, div
  <2> QED
    BY <2>2, <2>3
<1>5. r.timing = "HS400" /\ r.tuned = host.tuned /\ r.calibrated = host.calibrated
  BY ONLY Hs400Fields
<1> HIDE DEF h, r
<1>6. PICK half \in BOOLEAN, on \in BOOLEAN : half /\ on
  BY ONLY <1>1
<1>7. half /\ on
  BY <1>6
<1>8. M!sdhci_msm_set_mci_clk(r) = SetSelect(SetHalf(r, half), on)
  <2>1. r.tuned /\ ~r.calibrated
    BY <1>5
  <2> QED
    BY ONLY <1>5, <1>6, <2>1, SetMciClk
<1> DEFINE g == Hs400Host(div, host.core, half, on)
           f == Hs400Host(div, 384000, half, on)
<1>9. SetSelect(SetHalf(r, half), on) = g /\ SetCore(g, 384000) = f
  BY Hs400Sets DEF r
<1> HIDE DEF g, f
<1>10. host' \in {f, g} /\ Left
  <2>1. M!ClockConfig(g, 400000)
    BY <1>3, <1>4, <1>8, <1>9 DEF M!Hs400Clock
  <2>2. M!TranslateClockRate(400000) = 384000
    BY DEF M!TranslateClockRate
  <2> QED
    BY <1>9, <2>1, <2>2, Configured
<1> HIDE DEF Left
<1>11. PICK core \in {200000, 384000} : host' = Hs400Host(div, core, half, on)
  BY <1>10 DEF f, g
<1>12. /\ CardShape' /\ host'.uhs = "SDR104" /\ host'.selIn = on /\ host'.half = half
       /\ host'.core = core /\ host'.div = div /\ host'.caps = host.caps
       /\ host'.width = host.width /\ host'.tuned = host.tuned
       /\ host'.calibrated = host.calibrated
  BY ONLY <1>1, <1>11, Hs400Shape
<1>13. Paced(host', 200000)
  <2>1. core \in {200000, 384000}
    BY <1>11
  <2>2. host'.half
    BY ONLY <1>7, <1>12
  <2> QED
    BY ONLY <1>2, <1>12, <2>1, <2>2 DEF Paced
<1>14. host'.selIn
  BY ONLY <1>7, <1>12
<1> QED
  BY <1>1, <1>10, <1>12, <1>13, <1>14 DEF Hs400Paced, Left

LEMMA Hs400ClockKeeps ==
  ASSUME CardInv, M!Hs400Clock
  PROVE  CardInv'
<1>1. M!Step("hs400_clock") /\ out = "running" /\ "hs400_clock" \in Steps /\ CardShape
  BY DEF M!Hs400Clock, M!Step, Steps, CardInv
<1>2. At("hs400", 13) /\ AtHs400(13)
  BY <1>1, Where DEF MmcOrder, SdOrder, HsOrder, DdrOrder, Hs200Order, Hs400Order
<1>3. /\ card.state = "tran" /\ card.timing = "HS400" /\ host.tuned /\ ~host.calibrated
      /\ host.core \in {200000, 384000}
  BY <1>2 DEF AtHs400, Chosen, Paced
<1>4. Hs400Paced
  BY <1>3, Hs400ClockEnds
<1>5. Paced(host', 200000) /\ card' = card /\ CardShape'
  BY <1>4 DEF Hs400Paced
<1>6. CASE todo' = <<>> /\ out' = "asserted"
  BY <1>3, <1>5, <1>6, PacedFor, GivesUp DEF Rates
<1>7. CASE M!Continue
  <2>1. todo # <<>> /\ todo' = Tail(todo) /\ out' = "running"
    BY <1>1, <1>7 DEF M!Step, M!Continue
  <2>2. At("hs400", 14)'
    BY <1>2, <2>1, Position DEF Lists
  <2>3. AtHs400(14)'
    <3>1. /\ host'.uhs = "SDR104" /\ host'.selIn /\ host'.width = host.width
          /\ host'.tuned = host.tuned /\ host'.calibrated = host.calibrated
          /\ UNCHANGED <<card, drv>>
      BY <1>4 DEF Hs400Paced
    <3>2. /\ Chosen /\ host.tuned /\ ~host.calibrated /\ host.width = 8 /\ card.width = 8
          /\ card.ddr /\ card.timing = "HS400"
      BY <1>2 DEF AtHs400
    <3>3. Chosen'
      BY <3>1, <3>2 DEF Chosen, SameWidth, Decoded
    <3> QED
      BY <1>5, <3>1, <3>2, <3>3 DEF AtHs400
  <2> QED
    BY <1>5, <2>1, <2>2, <2>3, GoesOn DEF Somewhere
<1> QED
  BY <1>4, <1>6, <1>7 DEF Hs400Paced

LEMMA Hs400TuneKeeps ==
  ASSUME CardInv, M!Hs400Tune
  PROVE  CardInv'
<1>1. /\ M!Step("hs400_tuning") /\ CardShape /\ out = "running" /\ "hs400_tuning" \in Steps
      /\ UNCHANGED <<cfg, card, drv>> /\ host' = [host EXCEPT !.calibrated = TRUE]
      /\ M!Continue \/ M!Fail
  BY DEF CardInv, M!Hs400Tune, M!Step, Steps
<1>2. CardShape'
  BY <1>1 DEF CardShape
<1>3. At("hs400", 14) /\ AtHs400(14)
  BY <1>1, Where DEF MmcOrder, SdOrder, HsOrder, DdrOrder, Hs200Order, Hs400Order
<1>4. /\ host'.width = host.width /\ host'.uhs = host.uhs /\ host'.div = host.div
      /\ host'.core = host.core /\ host'.half = host.half /\ host'.selIn = host.selIn
      /\ host'.tuned = host.tuned /\ host'.caps = host.caps
  BY <1>1 DEF CardShape
<1>5. Paced(host', 200000) /\ card'.state = "tran" /\ card'.timing = "HS400"
  BY <1>1, <1>3, <1>4 DEF AtHs400, Chosen, Paced
<1>6. CASE M!Fail
  BY <1>2, <1>5, <1>6, PacedFor, GivesUp DEF M!Fail, Rates
<1>7. CASE M!Continue
  <2>1. todo # <<>> /\ todo' = Tail(todo) /\ out' = "running"
    BY <1>1, <1>7 DEF M!Step, M!Continue
  <2>2. At("hs400", 15)'
    BY <1>3, <2>1, Position DEF Lists
  <2>3. AtHs400(15)'
    BY <1>1, <1>3, <1>4, <1>5 DEF AtHs400, Chosen, SameWidth, Decoded
  <2> QED
    BY <1>2, <2>1, <2>2, <2>3, GoesOn DEF Somewhere
<1> QED
  BY <1>1, <1>6, <1>7

LEMMA ReadRegistersKeeps ==
  ASSUME CardInv, M!ReadRegisters
  PROVE  CardInv'
<1>1. PICK n \in {"ext_csd", "scr", "ssr"} : M!Step(n)
  BY DEF M!ReadRegisters
<1>2. /\ CardShape /\ out = "running" /\ n \in Steps /\ UNCHANGED <<cfg, host, card, drv>>
      /\ M!Continue \/ M!Fail
  BY <1>1 DEF M!ReadRegisters, CardInv, M!Step, Steps
<1>3. CardShape'
  BY <1>2 DEF CardShape
<1>4. \/ At("mmc", 7) /\ AtMmc(7)
      \/ \E k \in {6, 7} : At("sd", k) /\ AtSd(k)
  BY <1>1, <1>2, Where DEF MmcOrder, SdOrder, HsOrder, DdrOrder, Hs200Order, Hs400Order
<1>5. CASE M!Fail
  BY <1>2, <1>3, <1>5, GivesUpAsIs DEF M!Fail
<1>6. CASE M!Continue
  <2>1. todo # <<>> /\ todo' = Tail(todo) /\ out' = "running"
    BY <1>1, <1>6 DEF M!Step, M!Continue
  <2>2. At("mmc", 7) /\ AtMmc(7) => At("mmc", 8)' /\ AtMmc(8)'
    BY <1>2, <2>1, Position DEF Lists, AtMmc, Fresh, Paced
  <2>3. ASSUME NEW k \in {6, 7}, At("sd", k), AtSd(k) PROVE At("sd", k + 1)' /\ AtSd(k + 1)'
    BY <1>2, <2>1, <2>3, Position DEF Lists, AtSd, Fresh, Paced, SameWidth
  <2>4. \/ At("mmc", 8)' /\ AtMmc(8)'
        \/ At("sd", 7)' /\ AtSd(7)'
        \/ At("sd", 8)' /\ AtSd(8)'
    BY <1>4, <2>2, <2>3
  <2> QED
    BY <1>3, <2>1, <2>4, GoesOn DEF Somewhere
<1> QED
  BY <1>2, <1>5, <1>6

\* A card that lost the switch stays at the slowest clock; one that took it but
\* not the host's answer is slower than it may be.
LEMMA SdHsKeeps ==
  ASSUME CardInv, M!mmc_sd_set_hs
  PROVE  CardInv'
<1> DEFINE div == M!HostDiv(host.caps.base, M!UhsKHz["SDR25"])
<1>1. /\ M!Step("sd_hs") /\ CardShape /\ out = "running" /\ "sd_hs" \in Steps
      /\ UNCHANGED <<cfg, drv>>
  BY DEF CardInv, M!mmc_sd_set_hs, M!Step, Steps
<1>2. /\ card' = card \/ (card.hs /\ card' = [card EXCEPT !.timing = "HS"])
      /\ \/ host' = host /\ M!Fail
         \/ /\ host' = M!sdhci_set_uhs_mode(host, "SDR25") /\ M!Continue
            /\ card' = IF card.hs THEN [card EXCEPT !.timing = "HS"] ELSE card
  BY DEF M!mmc_sd_set_hs, M!Ends
<1>3. div = M!HostDiv(host.caps.base, 50000)
  BY UhsRates
<1>4. At("sd", 5) /\ AtSd(5)
  BY <1>1, Where DEF MmcOrder, SdOrder, HsOrder, DdrOrder, Hs200Order, Hs400Order
<1>5. CASE host' = host /\ M!Fail
  <2>1. CardShape'
    <3>1. CASE card' = card
      BY <1>1, <1>5, <3>1 DEF CardShape
    <3>2. CASE card' = [card EXCEPT !.timing = "HS"]
      BY <1>1, <1>5, <3>2 DEF CardShape
    <3> QED
      BY <1>2, <3>1, <3>2
  <2>2. Paced(host', 400)
    BY <1>4, <1>5 DEF AtSd
  <2> QED
    BY <1>5, <2>1, <2>2, PacedFor, GivesUp DEF M!Fail, Rates
<1>6. CASE /\ host' = M!sdhci_set_uhs_mode(host, "SDR25") /\ M!Continue
           /\ card' = IF card.hs THEN [card EXCEPT !.timing = "HS"] ELSE card
  <2>1. host' = [host EXCEPT !.uhs = "SDR25", !.div = div]
    BY <1>6 DEF M!sdhci_set_uhs_mode
  <2> HIDE DEF div
  <2>2. /\ host'.uhs = "SDR25" /\ host'.div = div
        /\ host'.width = host.width /\ host'.core = host.core /\ host'.half = host.half
        /\ host'.selIn = host.selIn /\ host'.tuned = host.tuned
        /\ host'.calibrated = host.calibrated /\ host'.caps = host.caps
        /\ host'.timing = host.timing
    BY <1>1, <2>1 DEF CardShape
  <2>3. /\ card'.sd = card.sd /\ card'.hs = card.hs /\ card'.state = card.state
        /\ card'.width = card.width /\ card'.ddr = card.ddr
        /\ card.hs => card'.timing = "HS"
    BY <1>1, <1>6 DEF CardShape
  <2>4. CardShape'
    <3>1. CASE ~card.hs
      BY <1>1, <1>6, <2>1, <3>1 DEF CardShape
    <3>2. CASE card.hs
      BY <1>1, <1>6, <2>1, <3>2 DEF CardShape
    <3> QED
      BY <3>1, <3>2
  <2>5. todo # <<>> /\ todo' = Tail(todo) /\ out' = "running"
    BY <1>1, <1>6 DEF M!Step, M!Continue
  <2>6. At("sd", 6)'
    BY <1>4, <2>5, Position DEF Lists
  <2>7. AtSd(6)'
    BY <1>1, <1>3, <1>4, <2>2, <2>3 DEF AtSd, Fresh, Paced, SameWidth
  <2> QED
    BY <2>4, <2>5, <2>6, <2>7, GoesOn DEF Somewhere
<1> QED
  BY <1>2, <1>5, <1>6

LEMMA DecodeKeeps ==
  ASSUME CardInv, M!DecodeCsd
  PROVE  CardInv'
<1> DEFINE size == M!mmc_decode_and_save_csd(card)
<1>1. /\ M!Step("decode") /\ CardShape /\ out = "running" /\ "decode" \in Steps
      /\ UNCHANGED <<cfg, host, card>>
      /\ \/ drv' = [drv EXCEPT !.blocks = size] /\ M!Continue
         \/ drv' = drv /\ todo' = <<>> /\ out' = "fault"
  BY DEF CardInv, M!DecodeCsd, M!Step, Steps
<1>2. size = M!mmc_decode_and_save_csd([csd |-> card.csd])
  BY DEF M!mmc_decode_and_save_csd
<1> HIDE DEF size
<1>3. \/ At("mmc", 8) /\ AtMmc(8)
      \/ At("sd", 8) /\ AtSd(8)
  BY <1>1, Where DEF MmcOrder, SdOrder, HsOrder, DdrOrder, Hs200Order, Hs400Order
<1>4. CASE drv' = drv /\ todo' = <<>> /\ out' = "fault"
  <2>1. CardShape'
    BY <1>1, <1>4 DEF CardShape
  <2> QED
    BY <1>1, <1>4, <2>1, GivesUpAsIs
<1>5. CASE drv' = [drv EXCEPT !.blocks = size] /\ M!Continue
  <2>1. drv'.blocks = size /\ drv'.sd = drv.sd /\ drv'.width = drv.width /\ CardShape'
    BY <1>1, <1>5 DEF CardShape
  <2>2. Decoded'
    BY <1>1, <1>2, <2>1 DEF Decoded
  <2>3. todo # <<>> /\ todo' = Tail(todo) /\ out' = "running"
    BY <1>1, <1>5 DEF M!Step, M!Continue
  <2>4. At("mmc", 8) /\ AtMmc(8) => At("mmc", 9)' /\ AtMmc(9)'
    BY <1>1, <2>1, <2>2, <2>3, Position DEF Lists, AtMmc, Fresh, Paced
  <2>5. At("sd", 8) /\ AtSd(8) => At("sd", 9)' /\ AtSd(9)'
    BY <1>1, <2>1, <2>2, <2>3, Position DEF Lists, AtSd, Fresh, Paced, SameWidth
  <2> QED
    BY <1>3, <2>1, <2>3, <2>4, <2>5, GoesOn DEF Somewhere
<1> QED
  BY <1>1, <1>4, <1>5

LEMMA SdWidthKeeps ==
  ASSUME CardInv, M!SetSdBusWidth
  PROVE  CardInv'
<1>1. M!Step("sd_width") /\ CardShape /\ out = "running" /\ "sd_width" \in Steps
      /\ UNCHANGED cfg
  BY DEF CardInv, M!SetSdBusWidth, M!Step, Steps
<1>2. PICK width :
        /\ card' = card \/ card' = [card EXCEPT !.width = width]
        /\ \/ UNCHANGED <<host, drv>> /\ M!Fail
           \/ /\ card' = [card EXCEPT !.width = width] /\ M!Continue
              /\ host' = [host EXCEPT !.width = width] /\ drv' = [drv EXCEPT !.width = width]
  BY DEF M!SetSdBusWidth, M!Ends
<1>3. At("sd", 9) /\ AtSd(9)
  BY <1>1, Where DEF MmcOrder, SdOrder, HsOrder, DdrOrder, Hs200Order, Hs400Order
<1>4. CASE UNCHANGED <<host, drv>> /\ M!Fail
  <2>1. /\ card'.sd = card.sd /\ card'.hs = card.hs /\ card'.state = card.state
        /\ card'.timing = card.timing /\ CardShape'
    <3>1. CASE card' = card
      BY <1>1, <1>4, <3>1 DEF CardShape
    <3>2. CASE card' = [card EXCEPT !.width = width]
      BY <1>1, <1>4, <3>2 DEF CardShape
    <3> QED
      BY <1>2, <3>1, <3>2
  <2>2. CASE card.hs
    <3>1. Paced(host', 50000) /\ card'.state = "tran" /\ card'.timing = "HS"
      BY <1>3, <1>4, <2>1, <2>2 DEF AtSd
    <3> QED
      BY <1>4, <2>1, <3>1, PacedFor, GivesUp DEF M!Fail, Rates
  <2>3. CASE ~card.hs
    <3>1. Slowly'
      BY <1>3, <1>4, <2>1, <2>3 DEF AtSd, Slowly, M!Refused
    <3> QED
      BY <1>4, <2>1, <3>1, GivesUp DEF M!Fail
  <2> QED
    BY <2>2, <2>3
<1>5. CASE /\ card' = [card EXCEPT !.width = width] /\ M!Continue
           /\ host' = [host EXCEPT !.width = width] /\ drv' = [drv EXCEPT !.width = width]
  <2>1. /\ card'.width = width /\ host'.width = width /\ drv'.width = width
        /\ card'.sd = card.sd /\ card'.hs = card.hs /\ card'.state = card.state
        /\ card'.timing = card.timing /\ card'.ddr = card.ddr /\ card'.csd = card.csd
        /\ drv'.sd = drv.sd /\ drv'.blocks = drv.blocks
    BY <1>1, <1>5 DEF CardShape
  <2>2. /\ host'.uhs = host.uhs /\ host'.div = host.div /\ host'.core = host.core
        /\ host'.half = host.half /\ host'.selIn = host.selIn /\ host'.tuned = host.tuned
        /\ host'.calibrated = host.calibrated /\ host'.caps = host.caps
        /\ host'.timing = host.timing
    BY <1>1, <1>5 DEF CardShape
  <2>3. CardShape'
    BY <1>1, <1>5 DEF CardShape
  <2>4. todo # <<>> /\ todo' = Tail(todo) /\ out' = "running"
    BY <1>1, <1>5 DEF M!Step, M!Continue
  <2>5. At("sd", 10)'
    BY <1>3, <2>4, Position DEF Lists
  <2>6. AtSd(10)'
    BY <1>3, <2>1, <2>2 DEF AtSd, Fresh, Paced, SameWidth, Decoded
  <2> QED
    BY <2>3, <2>4, <2>5, <2>6, GoesOn DEF Somewhere
<1> QED
  BY <1>2, <1>4, <1>5

\* It gives up and leaves everything as it was that the clock depends on.
LEMMA GivesUpPaced ==
  ASSUME CardInv, CardShape', host' = host, todo' = <<>>,
         out' \in {"failed", "asserted", "fault"},
         card'.state = card.state, card'.timing = card.timing, card'.sd = card.sd,
         card'.hs = card.hs
  PROVE  CardInv'
<1>1. M!Limit(card') = M!Limit(card)
  BY DEF M!Limit
<1>2. (host.caps.base > 0 => Slowly)'
  BY <1>1 DEF CardInv, Slowly, Paced, M!Refused
<1> QED
  BY <1>2, GivesUp

LEMMA EnableRstNKeeps ==
  ASSUME CardInv, M!EnableRstN
  PROVE  CardInv'
<1>1. /\ M!Step("rst_n") /\ CardShape /\ out = "running" /\ "rst_n" \in Steps
      /\ UNCHANGED <<cfg, host, drv>>
      /\ card' = card \/ card' = [card EXCEPT !.rstN = TRUE]
  BY DEF CardInv, M!EnableRstN, M!Step, Steps
<1>2. M!Continue \/ (todo' = <<>> /\ out' \in {"failed", "fault"})
  BY DEF M!EnableRstN, M!Fail
<1>3. /\ card'.sd = card.sd /\ card'.hs = card.hs /\ card'.state = card.state
      /\ card'.timing = card.timing /\ card'.width = card.width /\ card'.ddr = card.ddr
      /\ card'.csd = card.csd /\ card'.modes = card.modes /\ CardShape'
  <2>1. CASE card' = card
    BY <1>1, <2>1 DEF CardShape
  <2>2. CASE card' = [card EXCEPT !.rstN = TRUE]
    BY <1>1, <2>2 DEF CardShape
  <2> QED
    BY <1>1, <2>1, <2>2
<1>4. \/ At("sd", 10) /\ AtSd(10)
      \/ At("hs", 4) /\ AtHs(4)
      \/ At("ddr", 3) /\ AtDdr(3)
      \/ At("hs200", 7) /\ AtHs200("hs200", 7)
      \/ At("hs400", 15) /\ AtHs400(15)
  BY <1>1, Where DEF MmcOrder, SdOrder, HsOrder, DdrOrder, Hs200Order, Hs400Order
<1>5. CASE todo' = <<>> /\ out' \in {"failed", "fault"}
  BY <1>1, <1>3, <1>5, GivesUpPaced
<1>6. CASE M!Continue
  <2>1. todo # <<>> /\ todo' = Tail(todo) /\ out' = "running"
    BY <1>1, <1>6 DEF M!Step, M!Continue
  <2> USE <1>1, <1>3, <2>1, Position DEF Lists, Fresh, Paced, SameWidth, Decoded, Chosen
  <2>2. At("sd", 10) /\ AtSd(10) => At("sd", 11)' /\ AtSd(11)'
    BY DEF AtSd
  <2>3. At("hs", 4) /\ AtHs(4) => At("hs", 5)' /\ AtHs(5)'
    BY DEF AtHs
  <2>4. At("ddr", 3) /\ AtDdr(3) => At("ddr", 4)' /\ AtDdr(4)'
    BY DEF AtDdr
  <2>5. At("hs200", 7) /\ AtHs200("hs200", 7) => At("hs200", 8)' /\ AtHs200("hs200", 8)'
    BY DEF AtHs200, M!Hs400Wanted
  <2>6. At("hs400", 15) /\ AtHs400(15) => At("hs400", 16)' /\ AtHs400(16)'
    BY DEF AtHs400
  <2> QED
    BY ONLY <1>3, <1>4, <2>1, <2>2, <2>3, <2>4, <2>5, <2>6, GoesOn DEF Somewhere
<1> QED
  BY <1>2, <1>5, <1>6

LEMMA NextStates ==
  DOMAIN M!NextState = {"cid", "rca", "csd", "select"} /\ M!NextState["select"] = "tran"
  BY DEF M!NextState

\* While the card is identified the clock is the slowest.
LEMMA IdentifyKeeps ==
  ASSUME CardInv, M!Identify
  PROVE  CardInv'
<1>1. PICK name \in {"cid", "rca", "csd", "select"} :
        /\ M!Step(name) /\ drv' \in {drv, [drv EXCEPT !.rca = 1]}
        /\ \/ M!Fail /\ card' \in {card, [card EXCEPT !.state = M!NextState[name]]}
           \/ M!Continue /\ card' = [card EXCEPT !.state = M!NextState[name]]
  BY NextStates DEF M!Identify, M!Ends
<1>2. CardShape /\ out = "running" /\ name \in Steps /\ UNCHANGED <<cfg, host>>
  BY <1>1 DEF M!Identify, CardInv, M!Step, Steps
<1> DEFINE next == M!NextState[name]
<1>3. name = "select" => next = "tran"
  BY NextStates
<1> HIDE DEF next
<1>4. drv'.sd = drv.sd /\ drv'.width = drv.width /\ drv'.blocks = drv.blocks
      /\ drv' = [sd |-> drv'.sd, rca |-> drv'.rca, width |-> drv'.width, blocks |-> drv'.blocks]
  <2>1. CASE drv' = drv
    BY <1>2, <2>1 DEF CardShape
  <2>2. CASE drv' = [drv EXCEPT !.rca = 1]
    BY <1>2, <2>2 DEF CardShape
  <2> QED
    BY <1>1, <2>1, <2>2
<1>5. CardShape'
  <2>1. CASE card' = card
    BY <1>2, <1>4, <2>1 DEF CardShape
  <2>2. CASE card' = [card EXCEPT !.state = next]
    BY <1>2, <1>4, <2>2 DEF CardShape
  <2> QED
    BY <1>1, <2>1, <2>2 DEF next
<1>6. \/ \E k \in 1 .. 4 : At("mmc", k) /\ AtMmc(k) /\ (k = 4 => name = "select")
      \/ \E k \in 1 .. 4 : At("sd", k) /\ AtSd(k) /\ (k = 4 => name = "select")
  BY <1>1, <1>2, Where DEF MmcOrder, SdOrder, HsOrder, DdrOrder, Hs200Order, Hs400Order
<1>7. CASE M!Fail
  <2>1. Paced(host', 400)
    BY <1>2, <1>6 DEF AtMmc, AtSd
  <2> QED
    BY <1>5, <1>7, <2>1, PacedFor, GivesUp DEF M!Fail, Rates
<1>8. CASE M!Continue /\ card' = [card EXCEPT !.state = next]
  <2>1. todo # <<>> /\ todo' = Tail(todo) /\ out' = "running"
    BY <1>1, <1>2, <1>8 DEF M!Step, M!Continue
  <2>2. /\ card'.state = next /\ card'.sd = card.sd /\ card'.hs = card.hs
        /\ card'.timing = card.timing /\ card'.width = card.width /\ card'.ddr = card.ddr
    BY <1>2, <1>8 DEF CardShape
  <2>3. ASSUME NEW k \in 1 .. 4, At("mmc", k), AtMmc(k), k = 4 => name = "select"
        PROVE  At("mmc", k + 1)' /\ AtMmc(k + 1)'
    <3>1. At("mmc", k + 1)'
      BY <2>1, <2>3, Position DEF Lists
    <3>2. AtMmc(k + 1)'
      BY <1>2, <1>3, <1>4, <2>2, <2>3 DEF AtMmc, Fresh, Paced
    <3> QED
      BY <3>1, <3>2
  <2>4. ASSUME NEW k \in 1 .. 4, At("sd", k), AtSd(k), k = 4 => name = "select"
        PROVE  At("sd", k + 1)' /\ AtSd(k + 1)'
    <3>1. At("sd", k + 1)'
      BY <2>1, <2>4, Position DEF Lists
    <3>2. AtSd(k + 1)'
      BY <1>2, <1>3, <1>4, <2>2, <2>4 DEF AtSd, Fresh, Paced, SameWidth
    <3> QED
      BY <3>1, <3>2
  <2>5. \/ \E k \in 1 .. 9 : At("mmc", k)' /\ AtMmc(k)'
        \/ \E k \in 1 .. 11 : At("sd", k)' /\ AtSd(k)'
    <3>1. \A k \in 1 .. 4 : k + 1 \in 1 .. 9 /\ k + 1 \in 1 .. 11
      OBVIOUS
    <3> QED
      BY <1>6, <2>3, <2>4, <3>1
  <2>6. Somewhere'
    BY <2>5 DEF Somewhere
  <2> QED
    BY <1>5, <2>1, <2>6, GoesOn
<1> QED
  BY <1>1, <1>7, <1>8 DEF next

\* Every mode of an MMC card is a list of steps, chosen by what platform, host
\* and card have, and the wide bus is there for HS400.
ModeList == CASE M!Hs400Wanted -> "hs400"
              [] ~M!Hs400Wanted /\ M!Hs200Wanted -> "hs200"
              [] ~M!Hs400Wanted /\ ~M!Hs200Wanted /\ M!DdrWanted -> "ddr"
              [] OTHER -> "hs"

LEMMA ModeLists ==
  ASSUME NEW width
  PROVE  ModeList \in Lists /\ M!ModeSteps(width) \o <<"rst_n">> = StepsOf(ModeList)
<1>1. /\ StepsOf("hs400") = M!Hs400Mode \o <<"rst_n">>
      /\ StepsOf("hs200") = M!Hs200Mode \o <<"rst_n">>
      /\ StepsOf("ddr") = M!DdrMode \o <<"rst_n">>
      /\ StepsOf("hs") = M!HsInterface \o <<"width">> \o <<"rst_n">>
  BY DEF StepsOf
<1>2. CASE M!Hs400Wanted
  <2>1. ModeList = "hs400" /\ M!ModeSteps(width) = M!Hs400Mode
    BY <1>2 DEF ModeList, M!ModeSteps
  <2> QED
    BY <1>1, <2>1 DEF Lists
<1>3. CASE ~M!Hs400Wanted /\ M!Hs200Wanted
  <2>1. ModeList = "hs200" /\ M!ModeSteps(width) = M!Hs200Mode
    BY <1>3 DEF ModeList, M!ModeSteps
  <2> QED
    BY <1>1, <2>1 DEF Lists
<1>4. CASE ~M!Hs400Wanted /\ ~M!Hs200Wanted /\ M!DdrWanted
  <2>1. ModeList = "ddr" /\ M!ModeSteps(width) = M!DdrMode
    BY <1>4 DEF ModeList, M!ModeSteps
  <2> QED
    BY <1>1, <2>1 DEF Lists
<1>5. CASE ~M!Hs400Wanted /\ ~M!Hs200Wanted /\ ~M!DdrWanted
  <2>1. ModeList = "hs" /\ M!ModeSteps(width) = M!HsInterface \o <<"width">>
    BY <1>5 DEF ModeList, M!ModeSteps
  <2> QED
    BY <1>1, <2>1 DEF Lists
<1> QED
  BY <1>2, <1>3, <1>4, <1>5

LEMMA BusWidthKeeps ==
  ASSUME CardInv, M!SetBusWidthAndMode
  PROVE  CardInv'
<1> DEFINE width == M!BusWidth
<1>1. /\ M!Step("bus_width") /\ CardShape /\ out = "running" /\ "bus_width" \in Steps
      /\ UNCHANGED <<cfg, card>>
      /\ host' = [host EXCEPT !.width = width] /\ drv' = [drv EXCEPT !.width = width]
      /\ \/ M!Fail
         \/ /\ todo' = M!ModeSteps(width) \o <<"rst_n">> /\ out' = out
            /\ M!Hs400Wanted => width = 8
  BY DEF CardInv, M!SetBusWidthAndMode, M!Step, Steps
<1> HIDE DEF width
<1>2. At("mmc", 9) /\ AtMmc(9)
  BY <1>1, Where DEF MmcOrder, SdOrder, HsOrder, DdrOrder, Hs200Order, Hs400Order
<1>3. CardShape'
  BY <1>1 DEF CardShape
<1>4. /\ host'.width = width /\ drv'.width = width
      /\ drv'.sd = drv.sd /\ drv'.blocks = drv.blocks
      /\ host'.uhs = host.uhs /\ host'.div = host.div /\ host'.core = host.core
      /\ host'.half = host.half /\ host'.selIn = host.selIn /\ host'.tuned = host.tuned
      /\ host'.calibrated = host.calibrated /\ host'.caps = host.caps
      /\ host'.timing = host.timing
  BY <1>1 DEF CardShape
<1>5. /\ card.state = "tran" /\ card.timing = "HS" /\ ~card.ddr /\ Fresh'
      /\ host'.uhs = "SDR25" /\ Paced(host', 50000)
      /\ ~drv'.sd /\ ~card'.sd /\ SameWidth' /\ Decoded'
  BY <1>1, <1>2, <1>4 DEF AtMmc, Fresh, Paced, SameWidth, Decoded
<1>6. CASE M!Fail
  BY <1>1, <1>3, <1>5, <1>6, PacedFor, GivesUp DEF M!Fail, Rates
<1>7. CASE /\ todo' = M!ModeSteps(width) \o <<"rst_n">> /\ out' = out
           /\ M!Hs400Wanted => width = 8
  <2>1. todo' = StepsOf(ModeList) /\ ModeList \in Lists /\ out' = "running"
    BY <1>1, <1>7, ModeLists
  <2>2. PICK p \in Lists : p = ModeList
    BY <2>1
  <2>3. At(p, 1)'
    BY <2>1, <2>2, Begin
  <2>4. /\ p \in {"hs", "ddr", "hs200", "hs400"}
        /\ M!Hs400Wanted <=> p = "hs400"
    BY <2>2 DEF ModeList
  <2>5. M!Hs400Wanted' <=> p = "hs400"
    BY <1>1, <2>4 DEF M!Hs400Wanted
  <2>6. Chosen'
    BY <1>1, <1>5 DEF Chosen
  <2>7. CASE p = "hs"
    <3>1. AtHs(1)'
      BY <1>1, <1>5, <2>6 DEF AtHs
    <3> QED
      BY <1>3, <2>1, <2>3, <2>7, <3>1, GoesOn DEF Somewhere
  <2>8. CASE p = "ddr"
    <3>1. AtDdr(1)'
      BY <1>1, <1>5, <2>6 DEF AtDdr
    <3> QED
      BY <1>3, <2>1, <2>3, <2>8, <3>1, GoesOn DEF Somewhere
  <2>9. ~card'.ddr /\ ~host'.selIn /\ ~host'.calibrated /\ ~host'.tuned /\ card'.timing = "HS"
        /\ host'.timing # "HS400"
    BY <1>1, <1>5 DEF Fresh
  <2>10. CASE p = "hs200"
    <3>1. AtHs200("hs200", 1)'
      BY <1>5, <2>5, <2>6, <2>9, <2>10 DEF AtHs200
    <3> QED
      BY <1>3, <2>1, <2>3, <2>10, <3>1, GoesOn DEF Somewhere
  <2>11. CASE p = "hs400"
    <3>1. host'.width = 8
      BY <1>4, <1>7, <2>4, <2>11
    <3>2. AtHs200("hs400", 1)'
      BY <1>5, <2>5, <2>6, <2>9, <2>11, <3>1 DEF AtHs200
    <3> QED
      BY <1>3, <2>1, <2>3, <2>11, <3>2, GoesOn DEF Somewhere
  <2> QED
    BY <2>4, <2>7, <2>8, <2>10, <2>11
<1> QED
  BY <1>1, <1>6, <1>7

LEMMA PublishKeeps ==
  ASSUME CardInv, M!PlatformCallbackInitSlot
  PROVE  CardInv'
<1>1. /\ todo = <<>> /\ out = "running" /\ todo' = <<>> /\ out' = "published"
      /\ UNCHANGED <<cfg, host, card, drv>> /\ CardShape /\ Somewhere
  BY DEF CardInv, M!PlatformCallbackInitSlot
<1>2. (M!Agree(host, card) \/ M!NarrowDdr \/ M!Refused) /\ Decoded
  BY <1>1, AgreesAtEnd
<1>3. CardShape'
  BY <1>1 DEF CardShape
<1>4. (host.caps.base > 0 => Slowly)'
  BY <1>1 DEF CardInv, Slowly, Paced, M!Refused
<1>5. BusAgrees'
  BY <1>1, <1>2 DEF BusAgrees, M!BusAgrees, M!Agree, M!HostMode, M!CardMode, M!NarrowDdr, M!Refused
<1>6. CapacityIsTheCards'
  <2>1. drv'.blocks = drv.blocks /\ card'.blocks = card.blocks /\ card'.csd = card.csd
    BY <1>1
  <2>2. (card.csd.form = "ext" => card.csd.sectors < 2 ^ (M!SecBits - 1))
           => drv.blocks = card.blocks
    BY <1>1, <1>2, DecodedSize
  <2> QED
    BY <2>1, <2>2 DEF CapacityIsTheCards, M!CapacityIsTheCards
<1> QED
  BY <1>1, <1>3, <1>4, <1>5, <1>6 DEF CardInv

(* Before the card answered. *)

LEMMA Answering ==
  ASSUME CardInv, out = "running", todo # <<>>,
         Head(todo) \in {"mmc_init", "reset", "op_cond", "if_cond", "app_op_cond"}
  PROVE  Unanswered
<1>1. Somewhere
  BY DEF CardInv
<1>2. M!Step(Head(todo))
  BY DEF M!Step
<1> QED
  BY <1>1, <1>2, MmcPosition, SdPosition, HsPosition, DdrPosition, Hs200Position, Hs400Position
     DEF Somewhere, MmcOrder, SdOrder, HsOrder, DdrOrder, Hs200Order, Hs400Order

LEMMA InitKeeps ==
  ASSUME CardInv, NEW c \in CapSets, M!mmc_init(c)
  PROVE  CardInv'
<1> DEFINE div == M!HostDiv(c.base, 400)
<1>1. /\ M!Step("mmc_init") /\ CardShape /\ out = "running"
      /\ UNCHANGED <<out, cfg, card, drv>> /\ todo' = <<"reset">>
      /\ host' = [host EXCEPT !.caps = c, !.div = div]
  BY DEF CardInv, M!mmc_init, M!Step
<1> HIDE DEF div
<1>2. Unanswered /\ todo = <<"mmc_init">> /\ host.core = 200000
  <2>1. Unanswered
    BY <1>1, Answering DEF M!Step
  <2> QED
    BY <1>1, <2>1 DEF Unanswered, M!Step, M!CORE_KHZ
<1>3. c.base \in M!CORE_KHZ .. MAX_BASE_CLK
  <2>1. c.base >= M!CORE_KHZ
    BY SlotAssumption DEF BaseClockAssumption
  <2>2. c.base \in 1 .. MAX_BASE_CLK
    BY CapsAssumption
  <2> QED
    BY <2>1, <2>2, ClockLimits DEF M!CORE_KHZ
<1>4. /\ host'.width = host.width /\ host'.uhs = host.uhs /\ host'.core = host.core
      /\ host'.half = host.half /\ host'.selIn = host.selIn /\ host'.tuned = host.tuned
      /\ host'.calibrated = host.calibrated /\ host'.timing = host.timing
      /\ host'.caps = c /\ host'.div = div
  BY <1>1 DEF CardShape
<1>5. CardShape'
  BY <1>1, <1>3, <1>4 DEF CardShape
<1>6. Paced(host', 400)
  BY <1>2, <1>4 DEF Paced, div
<1>7. Unanswered'
  BY <1>1, <1>2, <1>4, <1>6 DEF Unanswered, Fresh
<1> QED
  BY <1>1, <1>5, <1>7, GoesOn DEF Somewhere

LEMMA ResetKeeps ==
  ASSUME CardInv, M!mmc_reset_card
  PROVE  CardInv'
<1>1. /\ M!Step("reset") /\ CardShape /\ out = "running"
      /\ UNCHANGED <<out, cfg, host, drv>> /\ todo' \in {<<"op_cond">>, <<"if_cond">>}
      /\ \/ card' = card
         \/ card' = [card EXCEPT !.state = "idle", !.width = 1, !.timing = "legacy", !.ddr = FALSE]
  BY DEF CardInv, M!mmc_reset_card, M!Ends, M!Step
<1>2. Unanswered /\ Paced(host, 400)
  <2>1. Unanswered
    BY <1>1, Answering DEF M!Step
  <2> QED
    BY <1>1, <2>1 DEF Unanswered, M!Step
<1>3. CASE card' = card
  <2>1. CardShape'
    BY <1>1, <1>3 DEF CardShape
  <2>2. Unanswered'
    BY <1>1, <1>2, <1>3 DEF Unanswered, Fresh, Paced
  <2> QED
    BY <1>1, <2>1, <2>2, GoesOn DEF Somewhere
<1>4. CASE card' = [card EXCEPT !.state = "idle", !.width = 1, !.timing = "legacy", !.ddr = FALSE]
  <2>1. /\ card'.state = "idle" /\ card'.width = 1 /\ card'.timing = "legacy" /\ card'.ddr = FALSE
    BY <1>1, <1>4 DEF CardShape
  <2>2. CardShape'
    BY <1>1, <1>4 DEF CardShape
  <2>3. Unanswered'
    BY <1>1, <1>2, <2>1 DEF Unanswered, Fresh, Paced
  <2> QED
    BY <1>1, <2>2, <2>3, GoesOn DEF Somewhere
<1> QED
  BY <1>1, <1>3, <1>4

LEMMA OpCondKeeps ==
  ASSUME CardInv, M!mmc_send_op_cond
  PROVE  CardInv'
<1>1. /\ M!Step("op_cond") /\ CardShape /\ out = "running" /\ UNCHANGED <<out, cfg, host, drv>>
      /\ \/ /\ todo' = M!InitSteps(FALSE) /\ card' = [card EXCEPT !.state = "ready"]
            /\ ~card.sd /\ card.state = "idle"
         \/ todo' \in {todo, <<"if_cond">>} /\ card' = card
  BY DEF CardInv, M!mmc_send_op_cond, M!Step
<1>2. Unanswered /\ Paced(host, 400) /\ todo = <<"op_cond">>
  <2>1. Unanswered
    BY <1>1, Answering DEF M!Step
  <2> QED
    BY <1>1, <2>1 DEF Unanswered, M!Step
<1>3. CASE todo' \in {todo, <<"if_cond">>} /\ card' = card
  <2>1. CardShape'
    BY <1>1, <1>3 DEF CardShape
  <2>2. Unanswered'
    BY <1>1, <1>2, <1>3 DEF Unanswered, Fresh, Paced
  <2> QED
    BY <1>1, <2>1, <2>2, GoesOn DEF Somewhere
<1>4. CASE /\ todo' = M!InitSteps(FALSE) /\ card' = [card EXCEPT !.state = "ready"]
           /\ ~card.sd /\ card.state = "idle"
  <2>1. /\ card'.sd = card.sd /\ card'.width = card.width /\ card'.timing = card.timing
        /\ card'.ddr = card.ddr /\ CardShape'
    BY <1>1, <1>4 DEF CardShape
  <2>2. At("mmc", 1)'
    BY <1>4, Begin DEF Lists, StepsOf
  <2>3. AtMmc(1)'
    BY <1>1, <1>2, <1>4, <2>1 DEF Unanswered, AtMmc, Fresh, Paced
  <2> QED
    BY <1>1, <2>1, <2>2, <2>3, GoesOn DEF Somewhere
<1> QED
  BY <1>1, <1>3, <1>4

LEMMA IfCondKeeps ==
  ASSUME CardInv, M!SendIfCond
  PROVE  CardInv'
<1>1. /\ M!Step("if_cond") /\ CardShape /\ out = "running" /\ UNCHANGED <<cfg, host, card>>
      /\ drv' = [drv EXCEPT !.rca = 0]
      /\ \/ M!Fail
         \/ /\ todo' = <<"app_op_cond">> /\ out' = out /\ card.sd /\ card.state = "idle"
         \/ todo' = todo /\ out' = out
  BY DEF CardInv, M!SendIfCond, M!Step
<1>2. Unanswered /\ Paced(host, 400) /\ todo = <<"if_cond">>
  <2>1. Unanswered
    BY <1>1, Answering DEF M!Step
  <2> QED
    BY <1>1, <2>1 DEF Unanswered, M!Step
<1>3. /\ drv'.sd = drv.sd /\ drv'.width = drv.width /\ CardShape'
  BY <1>1 DEF CardShape
<1>4. CASE M!Fail
  BY <1>1, <1>3, <1>4, GivesUpAsIs DEF M!Fail
<1>5. CASE /\ out' = out
           /\ \/ todo' = <<"app_op_cond">> /\ card.sd /\ card.state = "idle"
              \/ todo' = todo
  <2>1. Unanswered'
    BY <1>1, <1>2, <1>3, <1>5 DEF Unanswered, Fresh, Paced
  <2> QED
    BY <1>1, <1>3, <1>5, <2>1, GoesOn DEF Somewhere
<1> QED
  BY <1>1, <1>4, <1>5

LEMMA AppOpCondKeeps ==
  ASSUME CardInv, M!SendAppOpCond
  PROVE  CardInv'
<1>1. /\ M!Step("app_op_cond") /\ CardShape /\ out = "running" /\ UNCHANGED <<cfg, host>>
      /\ \/ /\ todo' = M!InitSteps(TRUE) /\ out' = out
            /\ card' = [card EXCEPT !.state = "ready"] /\ drv' = [drv EXCEPT !.sd = TRUE]
         \/ UNCHANGED <<todo, out, card, drv>>
         \/ M!Fail /\ UNCHANGED <<card, drv>>
  BY DEF CardInv, M!SendAppOpCond, M!Step
<1>2. /\ Unanswered /\ Paced(host, 400) /\ todo = <<"app_op_cond">>
      /\ card.sd /\ card.state = "idle"
  <2>1. Unanswered
    BY <1>1, Answering DEF M!Step
  <2> QED
    BY <1>1, <2>1 DEF Unanswered, M!Step
<1>3. CASE UNCHANGED <<card, drv>>
  <2>1. CardShape'
    BY <1>1, <1>3 DEF CardShape
  <2>2. CASE M!Fail
    BY <1>1, <1>3, <2>1, <2>2, GivesUpAsIs DEF M!Fail
  <2>3. CASE UNCHANGED <<todo, out>>
    <3>1. Unanswered'
      BY <1>1, <1>2, <1>3, <2>3 DEF Unanswered, Fresh, Paced
    <3> QED
      BY <1>1, <2>1, <2>3, <3>1, GoesOn DEF Somewhere
  <2>4. CASE todo' = M!InitSteps(TRUE) /\ card' = [card EXCEPT !.state = "ready"]
    <3>1. card'.state = "ready"
      BY <1>1, <2>4 DEF CardShape
    <3> QED
      BY <1>2, <1>3, <3>1
  <2> QED
    BY <1>1, <2>2, <2>3, <2>4
<1>4. CASE /\ todo' = M!InitSteps(TRUE) /\ out' = out
           /\ card' = [card EXCEPT !.state = "ready"] /\ drv' = [drv EXCEPT !.sd = TRUE]
  <2>1. /\ card'.sd = card.sd /\ card'.width = card.width /\ card'.timing = card.timing
        /\ card'.ddr = card.ddr
    BY <1>1, <1>4 DEF CardShape
  <2>2. drv'.sd = TRUE /\ drv'.width = drv.width
    BY <1>1, <1>4 DEF CardShape
  <2>3. CardShape'
    BY <1>1, <1>4 DEF CardShape
  <2>4. At("sd", 1)'
    BY <1>4, Begin DEF Lists, StepsOf
  <2>5. AtSd(1)'
    BY <1>1, <1>2, <2>1, <2>2 DEF Unanswered, AtSd, Fresh, Paced, SameWidth
  <2> QED
    BY <1>1, <1>4, <2>3, <2>4, <2>5, GoesOn DEF Somewhere
<1> QED
  BY <1>1, <1>3, <1>4

LEMMA CardStarts == M!Init => CardInv
<1> SUFFICES ASSUME M!Init PROVE CardInv
  OBVIOUS
<1>1. PICK c \in Cards, used \in BOOLEAN :
        card = [sd |-> c.sd, hs |-> c.hs, modes |-> c.modes, scr4 |-> c.scr4, csd |-> c.csd,
                blocks |-> c.blocks, rstN |-> c.rstN,
                state |-> IF used THEN "tran" ELSE "idle", width |-> IF used THEN 4 ELSE 1,
                timing |-> IF used THEN "HS" ELSE "legacy", ddr |-> FALSE]
  BY DEF M!Init
<1>2. /\ todo = <<"mmc_init">> /\ out = "running"
      /\ host.width = 1 /\ host.uhs = "SDR12" /\ host.core = M!CORE_KHZ /\ host.half = FALSE
      /\ host.selIn = FALSE /\ host.timing = "none" /\ host.tuned = FALSE
      /\ host.calibrated = FALSE /\ host.caps.base = 0
      /\ drv.sd = FALSE /\ drv.width = 1
  BY DEF M!Init
<1>3. /\ card.csd = c.csd /\ card.blocks = c.blocks /\ card.ddr = FALSE
      /\ card.state \in {"idle", "tran"}
      /\ card.state = "idle" => card.width = 1 /\ card.timing = "legacy"
  BY <1>1
<1>4. host = [width |-> host.width, uhs |-> host.uhs, div |-> host.div, core |-> host.core,
              half |-> host.half, selIn |-> host.selIn, timing |-> host.timing,
              tuned |-> host.tuned, calibrated |-> host.calibrated, caps |-> host.caps]
  BY DEF M!Init
<1>5. card = [sd |-> card.sd, hs |-> card.hs, modes |-> card.modes, scr4 |-> card.scr4,
              csd |-> card.csd, blocks |-> card.blocks, rstN |-> card.rstN,
              state |-> card.state, width |-> card.width, timing |-> card.timing,
              ddr |-> card.ddr]
  BY <1>1
<1>6. drv = [sd |-> drv.sd, rca |-> drv.rca, width |-> drv.width, blocks |-> drv.blocks]
  BY DEF M!Init
<1>7. CardShape
  BY <1>2, <1>3, <1>4, <1>5, <1>6 DEF CardShape
<1>8. Unanswered
  BY <1>2, <1>3 DEF Unanswered, Fresh
<1>9. BusAgrees
  BY <1>7, <1>8, <1>2, HoldsAnywhere DEF Somewhere
<1> QED
  BY <1>2, <1>7, <1>8, <1>9 DEF CardInv, Somewhere, CapacityIsTheCards, M!CapacityIsTheCards

LEMMA CardStepKeeps ==
  ASSUME CardInv, M!CardStep
  PROVE  CardInv'
  BY ResetKeeps, OpCondKeeps, IfCondKeeps, AppOpCondKeeps, IdentifyKeeps, HsTimingKeeps, WidthKeeps,
     DdrWidthKeeps, Hs200TimingKeeps, Hs400TimingKeeps, HostSdr25Keeps, HostDdr50Keeps,
     HostSdr12Keeps, HostSdr104Keeps, Clock400Keeps, TuneKeeps, ClockBackKeeps, Hs400ClockKeeps,
     Hs400TuneKeeps, ReadRegistersKeeps, SdHsKeeps, DecodeKeeps, BusWidthKeeps, SdWidthKeeps,
     EnableRstNKeeps, PublishKeeps DEF M!CardStep

\* The steps of the others leave the card alone.
LEMMA CardInvStays ==
  ASSUME CardInv, UNCHANGED mvars
  PROVE  CardInv'
<1>1. UNCHANGED <<todo, out, cfg, host, card, drv>>
  BY DEF mvars
<1> USE <1>1
<1>2. CardShape'
  BY DEF CardInv, CardShape
<1>3. (host.caps.base > 0 => Slowly)'
  BY DEF CardInv, Slowly, Paced, M!Refused
<1>4. (IF out = "running" THEN Somewhere ELSE todo = <<>>)'
  <2>1. CASE out = "running"
    <3>1. Somewhere
      BY <2>1 DEF CardInv
    <3>2. Unanswered => Unanswered'
      BY DEF Unanswered, Fresh, Paced
    <3>3. \A p, k : At(p, k) => At(p, k)'
      BY DEF At
    <3>4. \A k : AtMmc(k) => AtMmc(k)'
      BY DEF AtMmc, Fresh, Paced, Decoded
    <3>5. \A k : AtSd(k) => AtSd(k)'
      BY DEF AtSd, Fresh, Paced, SameWidth, Decoded
    <3>6. Chosen => Chosen'
      BY DEF Chosen, SameWidth, Decoded
    <3>7. \A k : AtHs(k) => AtHs(k)'
      BY <3>6 DEF AtHs, Fresh, Paced
    <3>8. \A k : AtDdr(k) => AtDdr(k)'
      BY <3>6 DEF AtDdr, Fresh, Paced
    <3>9. \A p, k : AtHs200(p, k) => AtHs200(p, k)'
      BY <3>6 DEF AtHs200, Paced, M!Hs400Wanted
    <3>10. \A k : AtHs400(k) => AtHs400(k)'
      BY <3>6 DEF AtHs400, Paced
    <3> HIDE <1>1
    <3>11. Somewhere'
      BY <3>1, <3>2, <3>3, <3>4, <3>5, <3>7, <3>8, <3>9, <3>10 DEF Somewhere
    <3> QED
      BY <1>1, <2>1, <3>11
  <2>2. CASE out # "running"
    BY <2>2 DEF CardInv
  <2> QED
    BY <2>1, <2>2
<1>5. BusAgrees'
  BY DEF CardInv, BusAgrees, M!BusAgrees, M!Agree, M!HostMode, M!CardMode, M!NarrowDdr, M!Refused
<1>6. CapacityIsTheCards'
  BY DEF CardInv, CapacityIsTheCards, M!CapacityIsTheCards
<1> QED
  BY <1>2, <1>3, <1>4, <1>5, <1>6 DEF CardInv

LEMMA CardHolds == SlotSpec => [](ClockSound /\ CardInv)
<1>1. SlotInit => ClockSound /\ CardInv
  BY ClockSoundInit, CardStarts DEF SlotInit
<1>2. ClockSound /\ CardInv /\ [SlotNext]_vars => (ClockSound /\ CardInv)'
  <2> SUFFICES ASSUME ClockSound, CardInv, [SlotNext]_vars PROVE (ClockSound /\ CardInv)'
    OBVIOUS
  <2>1. CASE HostNext
    <3>1. [Next]_ivars /\ UNCHANGED mvars
      BY <2>1 DEF HostNext
    <3> QED
      BY <3>1, ClockSoundKeeps, CardInvStays
  <2>2. CASE mmc_init
    <3>1. M!mmc_init(caps) /\ caps \in CapSets /\ [Next]_ivars
      BY <2>2 DEF mmc_init, ClockSound
    <3>2. CardInv'
      BY <3>1, InitKeeps
    <3> QED
      BY <3>1, <3>2, ClockSoundKeeps
  <2>3. CASE CardNext
    <3>1. M!CardStep /\ [Next]_ivars
      BY <2>3 DEF CardNext
    <3> QED
      BY <3>1, ClockSoundKeeps, CardStepKeeps
  <2>4. CASE Open \/ Manage \/ UNCHANGED vars
    <3>1. [Next]_ivars /\ UNCHANGED mvars
      BY <2>4 DEF Open, Manage, vars
    <3> QED
      BY <3>1, ClockSoundKeeps, CardInvStays
  <2> QED
    BY <2>1, <2>2, <2>3, <2>4 DEF SlotNext
<1> QED
  BY <1>1, <1>2, PTL DEF SlotSpec

\* The card is never clocked faster than the timing it is in takes, whatever
\* the base clock of the host, the card, the platform's configuration and the
\* way every command ends (mmc_sdhci.c 802-1017).
THEOREM ClockKeepsWithinLimit == SlotSpec => []ClockWithinLimit
<1>1. CardInv => ClockWithinLimit
  <2>1. CASE host.caps.base > 0
    BY <2>1, SlowEnough DEF CardInv
  <2>2. CASE ~(host.caps.base > 0)
    BY <2>2 DEF ClockWithinLimit, M!ClockWithinLimit
  <2> QED
    BY <2>1, <2>2
<1> QED
  BY <1>1, CardHolds, PTL

\* Whenever data moves, and when the device is published, host and card agree
\* on width and mode (mmc_sdhci.c 1539-1662).
THEOREM LinesAgree == SlotSpec => []BusAgrees
<1>1. CardInv => BusAgrees
  BY DEF CardInv
<1> QED
  BY <1>1, CardHolds, PTL

\* The size of the published device is the card's (mmc_sdhci.c 68-225).
THEOREM CapacityDecoded == SlotSpec => []CapacityIsTheCards
<1>1. CardInv => CapacityIsTheCards
  BY DEF CardInv
<1> QED
  BY <1>1, CardHolds, PTL

-----------------------------------------------------------------------------
(* The operations on a card: the partition register.                        *)

\* The card has the fields Open gives it.
CardKnown ==
  /\ dev = [kind |-> dev.kind, unit |-> dev.unit, group |-> dev.group, known |-> dev.known,
            pwrDis |-> dev.pwrDis, state |-> dev.state, erased |-> dev.erased,
            protected |-> dev.protected, before |-> dev.before, boot |-> dev.boot,
            access |-> dev.access,
            switchFailed |-> dev.switchFailed, garbled |-> dev.garbled]
  /\ dev.kind \in {"mmc", "sd"}

LEMMA KnownCard == CardKnown => dev # G!NoDev
  BY DEF CardKnown, G!NoDev

\* An operation has the fields of Idle.
OpShape ==
  /\ op = [name |-> op.name, of |-> op.of, ret |-> op.ret, addr |-> op.addr, len |-> op.len,
           unit |-> op.unit, set |-> op.set, i |-> op.i, retry |-> op.retry, left |-> op.left,
           failed |-> op.failed]
  /\ op.name \in {"none", "erase", "wp", "rpmb", "returned"}

\* The registers of a card are right, or are known not to be.
PartitionInv ==
  /\ OpShape
  /\ ext = [good |-> ext.good, boot |-> ext.boot, access |-> ext.access]
  /\ dev = G!NoDev => op = G!Idle /\ ext.boot = 1
  /\ dev # G!NoDev =>
       /\ CardKnown
       /\ dev.boot = 1 \/ dev.garbled
       /\ ext.good => ext.boot = 1 \/ dev.garbled
       /\ op.name # "rpmb" /\ ~dev.switchFailed => dev.access = G!PART_ACCESS_DEFAULT

LEMMA PartitionOpen ==
  ASSUME PartitionInv, NEW kind \in {"mmc", "sd"}, G!Open(kind)
  PROVE  PartitionInv'
<1> USE DEF G!Open, PartitionInv, OpShape
<1>1. /\ op' = op /\ ext' = ext /\ dev = G!NoDev
      /\ ext.boot = 1 /\ op.name = "none"
  BY DEF G!Idle
<1>2. CardKnown' /\ dev'.boot = 1 /\ dev'.access = G!PART_ACCESS_DEFAULT
  BY DEF CardKnown
<1>3. dev' # G!NoDev
  BY <1>2 DEF CardKnown, G!NoDev
<1> QED
  BY <1>1, <1>2, <1>3

\* The card stays the card when an operation changes some of its fields.
LEMMA SwitchPartKeeps ==
  ASSUME PartitionInv, dev # G!NoDev, NEW type, NEW end \in {"ok", "lost", "late"},
         G!mmc_sdhci_switch_part(type, end)
  PROVE  /\ CardKnown' /\ ext' = [good |-> ext'.good, boot |-> ext'.boot, access |-> ext'.access]
         /\ dev'.boot = 1 \/ dev'.garbled
         /\ ext'.good => ext'.boot = 1 \/ dev'.garbled
         /\ ~dev'.switchFailed => dev'.access = type
         /\ end # "ok" => dev'.switchFailed
         /\ dev'.kind = dev.kind /\ dev'.unit = dev.unit /\ dev'.group = dev.group
         /\ dev'.known = dev.known
<1> USE DEF PartitionInv, OpShape
<1> DEFINE bad == dev.garbled \/ ~ext.good
           failed == dev.switchFailed \/ end = "late"
<1>1. CASE end = "lost"
  <2>1. dev' = [dev EXCEPT !.switchFailed = TRUE] /\ ext' = ext
    BY <1>1 DEF G!mmc_sdhci_switch_part
  <2> QED
    BY <1>1, <2>1 DEF CardKnown
<1>2. CASE end # "lost"
  <2>1. dev' = [dev EXCEPT !.boot = ext.boot, !.access = type, !.switchFailed = failed,
                           !.garbled = bad]
    BY <1>2 DEF G!mmc_sdhci_switch_part, G!PartAccess
  <2>2. ext' = ext \/ ext' = [ext EXCEPT !.access = type]
    BY <1>2 DEF G!mmc_sdhci_switch_part, G!PartAccess
  <2>3. bad => dev'.garbled
    BY <2>1 DEF CardKnown
  <2>4. failed => dev'.switchFailed
    BY <2>1 DEF CardKnown
  <2>5. /\ dev'.boot = ext.boot /\ dev'.access = type /\ CardKnown'
        /\ dev'.kind = dev.kind /\ dev'.unit = dev.unit /\ dev'.group = dev.group
        /\ dev'.known = dev.known
    BY <2>1 DEF CardKnown
  <2>6. ext'.good = ext.good /\ ext'.boot = ext.boot
        /\ ext' = [good |-> ext'.good, boot |-> ext'.boot, access |-> ext'.access]
    BY <2>2
  <2> QED
    BY <1>2, <2>3, <2>4, <2>5, <2>6
<1> QED
  BY <1>1, <1>2

\* What a call for write protection leaves.
LEMMA WpStarts ==
  ASSUME G!mmc_set_clr_power_on_wp_user
  PROVE  /\ op.name = "none" /\ dev # G!NoDev /\ dev' = dev /\ dev.kind = "mmc"
         /\ \E addr \in 0..Blocks - 1, len \in 1..Blocks, set \in BOOLEAN :
              /\ addr + len <= Blocks
              /\ LET o == [G!Idle EXCEPT !.name = "wp", !.addr = addr, !.len = len, !.set = set]
                 IN  (op' = o /\ ~(len < dev.known)) \/ G!Return(o, 1)
         /\ op'.name = "wp" \/ (op'.name = "returned" /\ op'.of = "wp")
         /\ \/ \E boot \in {0, 1} :
                 ext' = [good |-> FALSE, boot |-> boot, access |-> G!PART_ACCESS_DEFAULT]
            \/ ext' = ext
            \/ ext' = [good |-> TRUE, boot |-> dev.boot, access |-> dev.access]
         /\ OpShape'
<1>1. PICK addr \in 0..Blocks - 1, len \in 1..Blocks, set \in BOOLEAN,
           end \in {"ok", "no switch", "no read", "no enable"} :
        LET o == [G!Idle EXCEPT !.name = "wp", !.addr = addr, !.len = len, !.set = set]
        IN  /\ addr + len <= Blocks
            /\ \/ end = "no read" /\ \E boot \in {0, 1} :
                     ext' = [good |-> FALSE, boot |-> boot, access |-> G!PART_ACCESS_DEFAULT]
               \/ end = "no switch" /\ ext' = ext
               \/ end \in {"ok", "no enable"}
                  /\ ext' = [good |-> TRUE, boot |-> dev.boot, access |-> dev.access]
            /\ IF end # "ok" \/ dev.pwrDis \/ len < dev.known THEN G!Return(o, 1) ELSE op' = o
  BY DEF G!mmc_set_clr_power_on_wp_user
<1> DEFINE o == [G!Idle EXCEPT !.name = "wp", !.addr = addr, !.len = len, !.set = set]
<1>2. addr + len <= Blocks /\ ((op' = o /\ ~(len < dev.known)) \/ G!Return(o, 1))
  BY <1>1
<1>3. /\ op'.name = "wp" \/ (op'.name = "returned" /\ op'.of = "wp")
      /\ OpShape'
  BY <1>2 DEF G!Return, G!Idle, OpShape
<1>4. \/ \E boot \in {0, 1} :
           ext' = [good |-> FALSE, boot |-> boot, access |-> G!PART_ACCESS_DEFAULT]
      \/ ext' = ext
      \/ ext' = [good |-> TRUE, boot |-> dev.boot, access |-> dev.access]
  BY <1>1
<1>5. op.name = "none" /\ dev # G!NoDev /\ dev' = dev /\ dev.kind = "mmc"
  BY DEF G!mmc_set_clr_power_on_wp_user, G!Ready
<1> QED
  BY <1>2, <1>3, <1>4, <1>5

\* An erase runs to its end in one step.
LEMMA EraseReturns ==
  ASSUME G!mmc_sdhci_erase
  PROVE  \E addr, len, unit, r :
           G!Return([G!Idle EXCEPT !.name = "erase", !.addr = addr, !.len = len, !.unit = unit], r)
  BY ZenonT(40) DEF G!mmc_sdhci_erase

LEMMA PartitionManage ==
  ASSUME PartitionInv, G!ManageStep
  PROVE  PartitionInv'
<1> USE DEF PartitionInv, OpShape
<1>0. dev # G!NoDev
  <2>1. CASE dev = G!NoDev
    <3>1. op.name = "none" /\ ~G!Ready
      BY <2>1 DEF G!Idle, G!Ready
    <3> QED
      BY <2>1, <3>1 DEF G!ManageStep, G!mmc_sdhci_erase, G!mmc_set_clr_power_on_wp_user, G!WpGroup,
         G!WpDone, G!RpmbStart, G!RpmbCommand, G!RpmbEnd, G!mmc_put_card_to_sleep, G!Forget
  <2> QED
    BY <2>1
<1>1. CardKnown /\ dev.kind \in {"mmc", "sd"}
  BY <1>0 DEF CardKnown
\* A step that changes no register of the card.
<1>2. ASSUME CardKnown', dev'.boot = dev.boot, dev'.garbled = dev.garbled,
             dev'.access = dev.access, dev'.switchFailed = dev.switchFailed,
             ext' = ext,
             OpShape',
             op.name = "rpmb" => op'.name = "rpmb"
      PROVE  PartitionInv'
  <2>1. dev' # G!NoDev
    BY <1>2 DEF CardKnown, G!NoDev
  <2> QED
    BY <1>0, <1>2, <2>1
<1>3. CASE G!mmc_sdhci_erase
  <2>1. /\ op.name = "none" /\ ext' = ext
        /\ dev' = dev \/ \E e : dev' = [dev EXCEPT !.erased = e]
    BY <1>3 DEF G!mmc_sdhci_erase, G!Ready
  <2>2. \E addr, len, unit, r :
           G!Return([G!Idle EXCEPT !.name = "erase", !.addr = addr, !.len = len, !.unit = unit], r)
    BY <1>3, EraseReturns
  <2>3. /\ OpShape'
        /\ op'.name = "returned"
    BY <2>2 DEF G!Return, G!Idle
  <2>4. CardKnown' /\ dev'.boot = dev.boot /\ dev'.garbled = dev.garbled
        /\ dev'.access = dev.access /\ dev'.switchFailed = dev.switchFailed
    BY <1>1, <2>1 DEF CardKnown
  <2> QED
    BY <1>2, <2>1, <2>3, <2>4
<1>4. CASE G!mmc_set_clr_power_on_wp_user
  <2>1. dev' = dev /\ op.name = "none" /\ OpShape' /\ op'.name \in {"wp", "returned"}
    BY <1>4, WpStarts
  <2>2. /\ ext' = [good |-> ext'.good, boot |-> ext'.boot, access |-> ext'.access]
        /\ ext'.good => (ext'.boot = ext.boot /\ ext.good) \/ ext'.boot = dev.boot
    <3>1. CASE ext' = ext
      BY <3>1
    <3>2. CASE ext' = [good |-> TRUE, boot |-> dev.boot, access |-> dev.access]
      BY <3>2
    <3>3. CASE \E boot \in {0, 1} :
                 ext' = [good |-> FALSE, boot |-> boot, access |-> G!PART_ACCESS_DEFAULT]
      <4>1. PICK boot \in {0, 1} :
               ext' = [good |-> FALSE, boot |-> boot, access |-> G!PART_ACCESS_DEFAULT]
        BY <3>3
      <4>2. ext'.good = FALSE
        BY <4>1
      <4>3. ext' = [good |-> ext'.good, boot |-> ext'.boot, access |-> ext'.access]
        BY <4>1
      <4> QED
        BY <4>2, <4>3
    <3> QED
      BY <1>4, <3>1, <3>2, <3>3, WpStarts
  <2> QED
    BY <1>0, <1>1, <2>1, <2>2 DEF CardKnown
<1>5. CASE G!WpGroup \/ G!WpDone
  <2>1. /\ op.name = "wp" /\ ext' = ext
        /\ dev' = dev \/ \E p : dev' = [dev EXCEPT !.protected = p]
    BY <1>5 DEF G!WpGroup, G!WpDone
  <2>2. \/ \E r : G!Return(op, r)
        \/ \E i, retry : op' = [op EXCEPT !.i = i, !.retry = retry]
    BY <1>5 DEF G!WpGroup, G!WpDone
  <2>3. CardKnown' /\ dev'.boot = dev.boot /\ dev'.garbled = dev.garbled
        /\ dev'.access = dev.access /\ dev'.switchFailed = dev.switchFailed
    BY <1>1, <2>1 DEF CardKnown
  <2> QED
    BY <1>2, <2>1, <2>2, <2>3 DEF G!Return
<1>6. CASE G!RpmbStart
  <2>1. PICK end \in {"ok", "lost", "late"} :
          /\ G!mmc_sdhci_switch_part(G!PART_ACCESS_RPMB, end)
          /\ \E o : /\ o = [G!Idle EXCEPT !.name = "rpmb", !.left = o.left, !.retry = o.retry]
                    /\ IF end = "ok" THEN op' = o ELSE G!Return(o, 1)
    BY <1>6 DEF G!RpmbStart, G!Idle
  <2>2. /\ OpShape'
        /\ op'.name \in {"rpmb", "returned"} /\ (end = "ok" => op'.name = "rpmb")
    BY <2>1 DEF G!Return, G!Idle
  <2>3. /\ CardKnown' /\ ext' = [good |-> ext'.good, boot |-> ext'.boot, access |-> ext'.access]
        /\ dev'.boot = 1 \/ dev'.garbled
        /\ ext'.good => ext'.boot = 1 \/ dev'.garbled
        /\ end # "ok" => dev'.switchFailed
    BY <1>0, <2>1, SwitchPartKeeps
  <2>4. dev' # G!NoDev
    BY <2>3 DEF CardKnown, G!NoDev
  <2> QED
    BY <2>2, <2>3, <2>4
<1>7. CASE G!RpmbCommand
  <2>1. /\ op.name = "rpmb" /\ dev' = dev /\ ext' = ext
        /\ \E f, l, r : op' = [op EXCEPT !.failed = f, !.left = l, !.retry = r]
    <3>1. \/ op' = [op EXCEPT !.failed = TRUE]
          \/ \E polls : op' = [op EXCEPT !.left = @ - 1, !.retry = @ - polls]
      BY <1>7 DEF G!RpmbCommand
    <3>2. CASE op' = [op EXCEPT !.failed = TRUE]
      <4>1. op' = [op EXCEPT !.failed = TRUE, !.left = op.left, !.retry = op.retry]
        BY <3>2
      <4> QED
        BY <1>7, <4>1 DEF G!RpmbCommand
    <3>3. CASE \E polls : op' = [op EXCEPT !.left = @ - 1, !.retry = @ - polls]
      <4>1. PICK polls : op' = [op EXCEPT !.failed = op.failed, !.left = op.left - 1,
                                          !.retry = op.retry - polls]
        BY <3>3
      <4> QED
        BY <1>7, <4>1 DEF G!RpmbCommand
    <3> QED
      BY <3>1, <3>2, <3>3
  <2>2. CardKnown' /\ dev'.boot = dev.boot /\ dev'.garbled = dev.garbled
        /\ dev'.access = dev.access /\ dev'.switchFailed = dev.switchFailed
    BY <1>1, <2>1 DEF CardKnown
  <2> QED
    BY <1>2, <2>1, <2>2
<1>8. CASE G!RpmbEnd
  <2>1. PICK end \in {"ok", "lost", "late"} :
          /\ G!mmc_sdhci_switch_part(G!PART_ACCESS_DEFAULT, end)
          /\ \E r : G!Return(op, r)
    BY <1>8 DEF G!RpmbEnd
  <2>2. /\ OpShape'
        /\ op'.name = "returned"
    BY <2>1 DEF G!Return
  <2>3. /\ CardKnown' /\ ext' = [good |-> ext'.good, boot |-> ext'.boot, access |-> ext'.access]
        /\ dev'.boot = 1 \/ dev'.garbled
        /\ ext'.good => ext'.boot = 1 \/ dev'.garbled
        /\ ~dev'.switchFailed => dev'.access = G!PART_ACCESS_DEFAULT
    BY <1>0, <2>1, SwitchPartKeeps
  <2>4. dev' # G!NoDev
    BY <2>3 DEF CardKnown, G!NoDev
  <2> QED
    BY <2>2, <2>3, <2>4
<1>9. CASE G!mmc_put_card_to_sleep
  <2>1. op' = op /\ ext' = ext /\ \E st : dev' = [dev EXCEPT !.state = st]
    BY <1>9 DEF G!mmc_put_card_to_sleep
  <2>2. CardKnown' /\ dev'.boot = dev.boot /\ dev'.garbled = dev.garbled
        /\ dev'.access = dev.access /\ dev'.switchFailed = dev.switchFailed
    BY <1>1, <2>1 DEF CardKnown
  <2> QED
    BY <1>2, <2>1, <2>2
<1>10. CASE G!Forget
  <2>1. /\ op.name = "returned" /\ op' = G!Idle /\ ext' = ext
        /\ dev' = [dev EXCEPT !.erased = {}, !.before = dev.protected]
    BY <1>10 DEF G!Forget
  <2>2. CardKnown' /\ dev'.boot = dev.boot /\ dev'.garbled = dev.garbled
        /\ dev'.access = dev.access /\ dev'.switchFailed = dev.switchFailed
    BY <1>1, <2>1 DEF CardKnown
  <2> QED
    BY <1>2, <2>1, <2>2 DEF G!Idle
<1> QED
  BY <1>3, <1>4, <1>5, <1>6, <1>7, <1>8, <1>9, <1>10 DEF G!ManageStep

\* The quotient and the remainder are the only ones there are.
LEMMA DivisionUnique ==
  ASSUME NEW n \in Nat, n > 0, NEW q \in Nat, NEW r \in 0 .. n - 1
  PROVE  (q * n + r) \div n = q /\ (q * n + r) % n = r
<1> DEFINE a == q * n + r
           p == a \div n
<1>1. a \in Nat /\ q * n \in Nat
  OBVIOUS
<1>2. p \in Nat /\ a % n \in 0 .. n - 1 /\ a = p * n + (a % n)
  BY <1>1, Division
<1>3. ~(p < q)
  <2> SUFFICES ASSUME p + 1 <= q PROVE FALSE
    BY <1>2
  <2>1. (p + 1) * n <= q * n /\ p * n \in Nat
    BY <1>2, TimesKeepsOrder
  <2>2. (p + 1) * n = p * n + n
    BY <1>2
  <2> QED
    BY <1>1, <1>2, <2>1, <2>2
<1>4. ~(q < p)
  <2> SUFFICES ASSUME q + 1 <= p PROVE FALSE
    BY <1>2
  <2>1. (q + 1) * n <= p * n /\ p * n \in Nat
    BY <1>2, TimesKeepsOrder
  <2>2. (q + 1) * n = q * n + n
    OBVIOUS
  <2> QED
    BY <1>1, <1>2, <2>1, <2>2
<1>5. p = q
  BY <1>2, <1>3, <1>4
<1>6. a % n = r
  BY <1>1, <1>2, <1>5
<1> QED
  BY <1>5, <1>6

\* A quotient is ordered as the multiples around the number are.
LEMMA QuotientBounds ==
  ASSUME NEW n \in Nat, n > 0, NEW a \in Nat, NEW q \in Nat
  PROVE  (q * n <= a <=> q <= a \div n) /\ (a < q * n <=> a \div n < q)
<1> DEFINE p == a \div n
<1>1. p \in Nat /\ a % n \in 0 .. n - 1 /\ a = p * n + (a % n) /\ p * n \in Nat /\ q * n \in Nat
  BY Division
<1>2. q <= p => q * n <= a
  <2>1. q <= p => q * n <= p * n
    BY <1>1, TimesKeepsOrder
  <2> QED
    BY <1>1, <2>1
<1>3. p < q => a < q * n
  <2>1. p + 1 <= q => (p + 1) * n <= q * n
    BY <1>1, TimesKeepsOrder
  <2>2. (p + 1) * n = p * n + n
    BY <1>1
  <2> HIDE DEF p
  <2> QED
    BY <1>1, <2>1, <2>2
<1> HIDE DEF p
<1> QED
  BY <1>1, <1>2, <1>3 DEF p

-----------------------------------------------------------------------------
(* Erase.                                                                    *)

\* The multiple of a size a number lies on or behind.
LEMMA GroupOf ==
  ASSUME NEW x \in Nat, NEW u \in Nat, u > 0
  PROVE  /\ (x \div u) \in Nat /\ (x \div u) * u \in Nat
         /\ (x \div u) * u <= x /\ x < (x \div u) * u + u
  BY Division

LEMMA InGroup ==
  ASSUME NEW x \in Nat, NEW b \in Nat, NEW u \in Nat, u > 0
  PROVE  x \in G!Group(b, u) <=> x \in 0 .. Blocks - 1 /\ x \div u = b \div u
<1> DEFINE q == b \div u
<1>1. q \in Nat /\ x \div u \in Nat /\ q * u \in Nat /\ (q + 1) * u = q * u + u
  BY Division
<1>2. (q * u <= x <=> q <= x \div u) /\ (x < (q + 1) * u <=> x \div u < q + 1)
  BY <1>1, QuotientBounds
<1>3. (q * u <= x /\ x < q * u + u) <=> x \div u = q
  BY <1>1, <1>2
<1> QED
  BY <1>3 DEF G!Group, G!BlocksOf

\* Whole groups, from a group's start on, are what erasing its blocks and the
\* last group's first block erases.
LEMMA WholeGroupsErased ==
  ASSUME NEW u \in Nat, u > 0, NEW a \in Nat, a % u = 0, NEW n \in Nat, n > 0,
         Blocks \in Nat, a + n * u <= Blocks
  PROVE  UNION {G!Group(b, u) : b \in {b \in 0..Blocks - 1 : a <= b /\ b <= a + (n - 1) * u}}
           = G!BlocksOf(a, n * u)
<1> DEFINE q == a \div u
           Named == {b \in 0..Blocks - 1 : a <= b /\ b <= a + (n - 1) * u}
<1>1. q \in Nat /\ a = q * u
  BY Division
<1>2. n * u = (n - 1) * u + u /\ (n - 1) * u \in Nat /\ n * u \in Nat
  OBVIOUS
<1>3. (q + n) * u = a + n * u /\ q + n \in Nat /\ (q + (n - 1)) * u = a + (n - 1) * u
      /\ q + (n - 1) \in Nat /\ (q + (n - 1)) + 1 = q + n
  BY <1>1
<1>4. ASSUME NEW x \in 0 .. Blocks - 1
      PROVE  (a <= x /\ x < a + n * u) <=> (q <= x \div u /\ x \div u < q + n)
  <2>1. x \in Nat
    OBVIOUS
  <2> QED
    BY <1>1, <1>3, <2>1, QuotientBounds
<1>5. ASSUME NEW b \in Named, NEW x \in G!Group(b, u) PROVE x \in G!BlocksOf(a, n * u)
  <2>1. b \in Nat /\ b \in 0 .. Blocks - 1 /\ x \in 0 .. Blocks - 1 /\ x \in Nat
    BY DEF G!Group, G!BlocksOf
  <2>2. x \div u = b \div u
    BY <2>1, InGroup
  <2>3. a <= b /\ b < a + n * u
    BY <1>2, <2>1
  <2> QED
    BY <1>4, <2>1, <2>2, <2>3 DEF G!BlocksOf
<1>6. ASSUME NEW x \in G!BlocksOf(a, n * u) PROVE \E b \in Named : x \in G!Group(b, u)
  <2> DEFINE b == (x \div u) * u
  <2>1. x \in 0 .. Blocks - 1 /\ x \in Nat /\ a <= x /\ x < a + n * u
    BY DEF G!BlocksOf
  <2>2. x \div u \in Nat /\ q <= x \div u /\ x \div u <= q + (n - 1)
    BY <1>1, <1>4, <2>1, Division
  <2>3. b \in Nat /\ b <= x /\ a <= b /\ b <= a + (n - 1) * u
    BY <1>1, <1>3, <2>1, <2>2, TimesKeepsOrder, GroupOf
  <2>4. b + 0 = b /\ b \div u = x \div u
    <3>1. 0 \in 0 .. u - 1
      OBVIOUS
    <3>2. ((x \div u) * u + 0) \div u = x \div u
      BY <2>2, <3>1, DivisionUnique
    <3> QED
      BY <2>3, <3>2
  <2>5. b \in Named /\ x \in G!Group(b, u)
    BY <2>1, <2>3, <2>4, InGroup
  <2> QED
    BY <2>5
<1> QED
  BY <1>5, <1>6

\* The number of whole units, and where the last of them starts.
LEMMA LastUnit ==
  ASSUME NEW u \in Nat, u > 0, NEW len \in Nat, len >= u, NEW addr \in Nat
  PROVE  LET n == len \div u
         IN  /\ n \in Nat /\ n > 0 /\ n * u <= len /\ (n - 1) * u \in Nat
             /\ (n - 1) * u < len
             /\ G!EraseEnd(addr, len, u) = addr + (n - 1) * u
<1> DEFINE n == len \div u
<1>1. n \in Nat /\ n * u <= len
  BY Division
<1>2. 1 * u <= len /\ 1 \in Nat
  OBVIOUS
<1>3. n > 0
  BY <1>1, <1>2, QuotientBounds
<1>4. n * u = (n - 1) * u + u /\ (n - 1) * u \in Nat
  BY <1>1, <1>3
<1> HIDE DEF n
<1>5. ~(addr + (n - 1) * u > addr + len)
  BY <1>1, <1>4
<1> QED
  BY <1>1, <1>3, <1>4, <1>5 DEF G!EraseEnd, n

LEMMA Sizes ==
  /\ Blocks \in Nat /\ Units \subseteq Nat /\ StatRetry \in Nat
  /\ Blocks <= G!AllBits - 1024
  BY SlotAssumption DEF G!ManageAssumption

\* The card has one of the sizes Open gives it.
SizesKnown ==
  dev # G!NoDev =>
    /\ CardKnown
    /\ dev.unit \in Nat
    /\ dev.kind = "mmc" => /\ dev.unit > 0 /\ dev.group \in {dev.unit, 2 * dev.unit}
                           /\ dev.known \in {dev.unit, dev.group}

\* What is erased is the last operation's, what was protected before it is known.
EraseInv ==
  /\ SizesKnown
  /\ dev = G!NoDev => op.name = "none"
  /\ dev # G!NoDev /\ op.name = "none" => dev.erased = {} /\ dev.before = dev.protected
  /\ EraseExact

LEMMA EraseOpen ==
  ASSUME EraseInv, NEW kind \in {"mmc", "sd"}, G!Open(kind)
  PROVE  EraseInv'
<1>1. PICK unit \in Units, group \in {1, 2}, hc \in BOOLEAN, pwrDis \in BOOLEAN :
        /\ kind = "mmc" => unit > 0
        /\ dev' = [kind |-> kind, unit |-> unit, group |-> group * unit,
                   known |-> IF hc THEN unit ELSE group * unit, pwrDis |-> pwrDis,
                   state |-> "tran", erased |-> {}, protected |-> {}, before |-> {},
                   boot |-> 1, access |-> G!PART_ACCESS_DEFAULT,
                   switchFailed |-> FALSE, garbled |-> FALSE]
  BY ZenonT(30) DEF G!Open
<1>2. op.name = "none" /\ op' = op
  BY DEF G!Open, EraseInv, G!Idle
<1>3. unit \in Nat
  BY Sizes
<1>4. /\ dev'.kind = kind /\ dev'.unit = unit /\ dev'.group = group * unit
      /\ dev'.known = IF hc THEN unit ELSE group * unit
      /\ dev'.erased = {} /\ dev'.before = dev'.protected /\ CardKnown'
  BY <1>1 DEF CardKnown
<1>5. group * unit \in {unit, 2 * unit}
  BY <1>3
<1> QED
  BY <1>1, <1>2, <1>3, <1>4, <1>5, KnownCard DEF EraseInv, SizesKnown, EraseExact, G!EraseExact,
     G!Returned

\* An operation on a card that is no erase.
LEMMA EraseKept ==
  ASSUME EraseInv, dev # G!NoDev, CardKnown', dev'.kind = dev.kind, dev'.unit = dev.unit,
         dev'.group = dev.group, dev'.known = dev.known, ~(op'.name = "returned" /\ op'.of = "erase"),
         op'.name = "none" => dev'.erased = {} /\ dev'.before = dev'.protected
  PROVE  EraseInv'
<1>1. dev' # G!NoDev
  BY DEF CardKnown, G!NoDev
<1> QED
  BY <1>1 DEF EraseInv, SizesKnown, EraseExact, G!EraseExact, G!Returned

LEMMA EraseStep ==
  ASSUME EraseInv, G!mmc_sdhci_erase
  PROVE  EraseInv'
<1> USE DEF EraseInv, SizesKnown
<1>1. PICK addr \in 0..Blocks - 1, len \in 0..Blocks,
           unit \in IF ext.good \/ dev.kind = "sd" THEN {dev.unit} ELSE {0, 1, dev.unit} :
        LET o == [G!Idle EXCEPT !.name = "erase", !.addr = addr, !.len = len, !.unit = unit]
        IN  /\ addr + len <= Blocks
            /\ \/ len < unit /\ G!Return(o, 1) /\ dev' = dev
               \/ (unit = 0 \/ (len >= unit /\ dev.kind = "sd")) /\ G!Return(o, 2) /\ dev' = dev
               \/ /\ unit > 0 /\ len >= unit
                  /\ \E r \in {0, 1}, done \in BOOLEAN :
                        /\ r = 0 => done
                        /\ dev' = IF done
                                  THEN [dev EXCEPT !.erased =
                                          G!ErasedBy(addr, G!EraseEnd(addr, len, unit))]
                                  ELSE dev
                        /\ G!Return(o, r)
  BY DEF G!mmc_sdhci_erase
<1> DEFINE o == [G!Idle EXCEPT !.name = "erase", !.addr = addr, !.len = len, !.unit = unit]
<1>2. dev # G!NoDev /\ CardKnown /\ dev.erased = {} /\ ext' = ext /\ op.name = "none"
  BY DEF G!mmc_sdhci_erase, G!Ready
<1>3. addr \in Nat /\ len \in Nat /\ addr + len <= Blocks /\ Blocks \in Nat
  BY <1>1, Sizes
<1>4. ASSUME NEW r, G!Return(o, r)
      PROVE  /\ op'.name = "returned" /\ op'.of = "erase" /\ op'.addr = addr /\ op'.len = len
             /\ op'.ret = r
  BY <1>4 DEF G!Return, G!Idle
<1>5. ASSUME dev' = dev, NEW r, G!Return(o, r), r # 0 PROVE EraseInv'
  <2>1. op'.name = "returned" /\ op'.ret # 0
    BY <1>4, <1>5
  <2> QED
    BY <1>2, <1>5, <2>1 DEF EraseExact, G!EraseExact, CardKnown
<1>6. ASSUME unit > 0, len >= unit, NEW r \in {0, 1}, G!Return(o, r),
             dev' = [dev EXCEPT !.erased = G!ErasedBy(addr, G!EraseEnd(addr, len, unit))]
      PROVE  EraseInv'
  <2> DEFINE n == len \div unit
             last == addr + (n - 1) * unit
  <2>1. /\ dev'.erased = G!ErasedBy(addr, G!EraseEnd(addr, len, unit)) /\ CardKnown'
        /\ dev'.kind = dev.kind /\ dev'.unit = dev.unit /\ dev'.group = dev.group
        /\ dev'.known = dev.known /\ dev'.protected = dev.protected
    BY <1>2, <1>6 DEF CardKnown
  <2>2. dev' # G!NoDev
    BY <2>1 DEF CardKnown, G!NoDev
  <2>3. op'.name = "returned" /\ op'.addr = addr /\ op'.len = len /\ op'.of = "erase"
    BY <1>4, <1>6
  <2>4. SUFFICES EraseExact'
    BY <1>2, <2>1, <2>2, <2>3
  <2>5. SUFFICES ASSUME ext.good,
                        dev.kind = "sd" \/ addr % unit = 0
                 PROVE  /\ dev'.erased \subseteq G!BlocksOf(addr, len)
                        /\ dev.kind = "mmc" =>
                             dev'.erased =
                               G!BlocksOf(addr, (len \div unit) * unit) \ dev.protected
    BY <1>1, <1>2, <2>1, <2>3 DEF EraseExact, G!EraseExact, G!Asked
  <2>6. unit = dev.unit /\ unit \in Nat
    BY <1>1, <1>2, <2>5
  <2>7. /\ n \in Nat /\ n > 0 /\ n * unit <= len /\ (n - 1) * unit \in Nat /\ n * unit \in Nat
        /\ (n - 1) * unit < len /\ G!EraseEnd(addr, len, unit) = last
    BY <1>3, <1>6, <2>6, LastUnit
  <2> HIDE DEF n
  <2>8. CASE dev.kind = "sd"
    <3>1. dev'.erased = {b \in 0..Blocks - 1 : addr <= b /\ b <= last} \ dev.protected
      BY <2>1, <2>7, <2>8 DEF G!ErasedBy, G!Named
    <3> QED
      BY <1>3, <2>7, <2>8, <3>1 DEF G!BlocksOf
  <2>9. CASE dev.kind = "mmc"
    <3>1. dev'.erased = G!Named(addr, last) \ dev.protected
      BY <2>1, <2>7 DEF G!ErasedBy
    <3> HIDE DEF last
    <3>2. G!Named(addr, last) = UNION {G!Group(b, unit) :
                                 b \in {b \in 0..Blocks - 1 : addr <= b /\ b <= last}}
      BY <2>6, <2>9 DEF G!Named
    <3>3. G!Named(addr, last) = G!BlocksOf(addr, n * unit)
      <4>1. /\ addr \in Nat /\ addr % unit = 0 /\ Blocks \in Nat /\ addr + n * unit <= Blocks
            /\ n \in Nat /\ n > 0 /\ unit \in Nat /\ unit > 0
        BY <1>3, <1>6, <2>5, <2>6, <2>7, <2>9
      <4>2. UNION {G!Group(b, unit) : b \in {b \in 0..Blocks - 1 :
                                               addr <= b /\ b <= addr + (n - 1) * unit}}
              = G!BlocksOf(addr, n * unit)
        BY ONLY <4>1, WholeGroupsErased, Zenon
      <4> QED
        BY ONLY <3>2, <4>2 DEF last
    <3>4. G!BlocksOf(addr, n * unit) \subseteq G!BlocksOf(addr, len)
      BY <1>3, <2>7 DEF G!BlocksOf
    <3> QED
      BY <2>7, <3>1, <3>3, <3>4 DEF n
  <2> QED
    BY <1>2, <2>8, <2>9 DEF CardKnown
<1>7. (\E r \in {1, 2} : dev' = dev /\ G!Return(o, r))
      \/ (/\ unit > 0 /\ len >= unit
          /\ \E r \in {0, 1}, done \in BOOLEAN :
                /\ r = 0 => done
                /\ dev' = IF done
                          THEN [dev EXCEPT !.erased = G!ErasedBy(addr, G!EraseEnd(addr, len, unit))]
                          ELSE dev
                /\ G!Return(o, r))
  BY <1>1
<1> HIDE DEF o
<1> QED
  BY <1>5, <1>6, <1>7

LEMMA EraseManage ==
  ASSUME PartitionInv, EraseInv, G!ManageStep
  PROVE  EraseInv'
<1> USE DEF EraseInv, SizesKnown
<1>1. CASE dev = G!NoDev
  <2>1. op.name = "none" /\ ~G!Ready
    BY <1>1 DEF G!Ready
  <2> QED
    BY <1>1, <2>1 DEF G!ManageStep, G!mmc_sdhci_erase, G!mmc_set_clr_power_on_wp_user, G!WpGroup,
       G!WpDone, G!RpmbStart, G!RpmbCommand, G!RpmbEnd, G!mmc_put_card_to_sleep, G!Forget
<1>2. CASE dev # G!NoDev
  <2>1. CardKnown
    BY <1>2
  <2>2. CASE G!mmc_sdhci_erase
    BY <2>2, EraseStep
  <2>3. CASE G!mmc_set_clr_power_on_wp_user
    <3>1. dev' = dev
      BY <2>3 DEF G!mmc_set_clr_power_on_wp_user
    <3>3. op'.name = "wp" \/ (op'.name = "returned" /\ op'.of = "wp")
      BY <2>3, WpStarts
    <3> QED
      BY <1>2, <2>1, <3>1, <3>3, EraseKept DEF G!Returned, CardKnown
  <2>4. CASE G!WpGroup \/ G!WpDone
    <3>1. op.name = "wp" /\ (dev' = dev \/ \E p : dev' = [dev EXCEPT !.protected = p])
      BY <2>4 DEF G!WpGroup, G!WpDone
    <3>2. (\E r : G!Return(op, r)) \/ \E i, retry : op' = [op EXCEPT !.i = i, !.retry = retry]
      BY <2>4 DEF G!WpGroup, G!WpDone
    <3>3. ~(op'.name = "returned" /\ op'.of = "erase") /\ op'.name # "none"
      BY <2>4, <3>1, <3>2 DEF G!Return, G!Returned, PartitionInv, OpShape
    <3> QED
      BY <1>2, <2>1, <3>1, <3>3, EraseKept DEF CardKnown
  <2>5. CASE G!RpmbStart
    <3>1. PICK n \in 1..G!MAX_RPMB_CMDS, end \in {"ok", "lost", "late"} :
            LET o == [G!Idle EXCEPT !.name = "rpmb", !.left = n, !.retry = RpmbRetry]
            IN  /\ G!mmc_sdhci_switch_part(G!PART_ACCESS_RPMB, end)
                /\ IF end = "ok" THEN op' = o ELSE G!Return(o, 1)
      BY <2>5 DEF G!RpmbStart
    <3> DEFINE o == [G!Idle EXCEPT !.name = "rpmb", !.left = n, !.retry = RpmbRetry]
    <3>2. op'.name = "rpmb" \/ (op'.name = "returned" /\ op'.of = "rpmb")
      <4>1. op' = o \/ G!Return(o, 1)
        BY <3>1
      <4> QED
        BY <4>1 DEF G!Return, G!Idle
    <3>3. /\ CardKnown' /\ dev'.kind = dev.kind /\ dev'.unit = dev.unit
          /\ dev'.group = dev.group /\ dev'.known = dev.known
      BY <1>2, <3>1, SwitchPartKeeps
    <3> QED
      BY <1>2, <3>2, <3>3, EraseKept DEF G!Returned
  <2>6. CASE G!RpmbEnd
    <3>1. PICK end \in {"ok", "lost", "late"} :
            /\ G!mmc_sdhci_switch_part(G!PART_ACCESS_DEFAULT, end)
            /\ \E r : G!Return(op, r)
      BY <2>6 DEF G!RpmbEnd
    <3>2. op'.name = "returned" /\ op'.of = "rpmb"
      <4>1. PICK r : G!Return(op, r)
        BY <3>1
      <4>2. op.name = "rpmb"
        BY <2>6 DEF G!RpmbEnd
      <4> QED
        BY <4>1, <4>2 DEF G!Return, PartitionInv, OpShape
    <3>3. /\ CardKnown' /\ dev'.kind = dev.kind /\ dev'.unit = dev.unit
          /\ dev'.group = dev.group /\ dev'.known = dev.known
      BY <1>2, <3>1, SwitchPartKeeps
    <3> QED
      BY <1>2, <3>2, <3>3, EraseKept DEF G!Returned
  <2>7. CASE G!RpmbCommand
    <3>1. op.name = "rpmb" /\ dev' = dev /\ op'.name = "rpmb"
      <4>1. /\ op.name = "rpmb" /\ dev' = dev
            /\ \/ op' = [op EXCEPT !.failed = TRUE]
               \/ \E polls : op' = [op EXCEPT !.left = op.left - 1, !.retry = op.retry - polls]
        BY <2>7 DEF G!RpmbCommand
      <4> QED
        BY <4>1 DEF PartitionInv, OpShape
    <3> QED
      BY <1>2, <2>1, <3>1, EraseKept DEF G!Returned, CardKnown
  <2>8. CASE G!mmc_put_card_to_sleep
    <3>1. op' = op /\ op.name = "none" /\ \E st : dev' = [dev EXCEPT !.state = st]
      BY <2>8 DEF G!mmc_put_card_to_sleep, G!Ready
    <3>2. /\ CardKnown' /\ dev'.kind = dev.kind /\ dev'.unit = dev.unit
          /\ dev'.group = dev.group /\ dev'.known = dev.known
          /\ dev'.erased = dev.erased /\ dev'.protected = dev.protected /\ dev'.before = dev.before
      BY <2>1, <3>1 DEF CardKnown
    <3> QED
      BY <1>2, <3>1, <3>2, EraseKept DEF G!Returned
  <2>9. CASE G!Forget
    <3>1. op' = G!Idle /\ dev' = [dev EXCEPT !.erased = {}, !.before = dev.protected]
      BY <2>9 DEF G!Forget
    <3>2. /\ CardKnown' /\ dev'.kind = dev.kind /\ dev'.unit = dev.unit
          /\ dev'.group = dev.group /\ dev'.known = dev.known
          /\ dev'.erased = {} /\ dev'.before = dev'.protected
      BY <2>1, <3>1 DEF CardKnown
    <3> QED
      BY <1>2, <3>1, <3>2, EraseKept DEF G!Returned, G!Idle
  <2> QED
    BY <2>2, <2>3, <2>4, <2>5, <2>6, <2>7, <2>8, <2>9 DEF G!ManageStep
<1> QED
  BY <1>1, <1>2

-----------------------------------------------------------------------------
(* Rounding up with a mask.                                                  *)

LEMMA WeightFacts ==
  ASSUME NEW w \in G!Weights
  PROVE  /\ w \in Nat /\ w > 0 /\ w <= G!AllBits
         /\ (G!AllBits + 1) % (2 * w) = 0
         /\ 2 * w \in G!Weights \/ 2 * w = G!AllBits + 1
  BY SMTT(30) DEF G!Weights, G!AllBits

LEMMA PowerFacts ==
  ASSUME NEW b \in G!PowersOf2, NEW w \in G!Weights
  PROVE  /\ b \in Nat /\ b > 0 /\ b <= 1024
         /\ w < b => b % (2 * w) = 0
         /\ ~(w < b) => w % b = 0
  BY SMTT(60) DEF G!Weights, G!PowersOf2

\* Two numbers with the same bits are the same.
LEMMA BitsDecide ==
  ASSUME NEW x \in Nat, NEW y \in Nat, x <= G!AllBits, y <= G!AllBits,
         \A w \in G!Weights : G!Bit(x, w) = G!Bit(y, w)
  PROVE  x = y
<1> DEFINE Apart == {w \in G!Weights : x \div w # y \div w}
<1>1. Apart \in SUBSET Nat /\ G!AllBits \in Nat /\ \A w \in Apart : w <= G!AllBits
  BY WeightFacts, SMT DEF G!AllBits
<1>2. CASE Apart # {}
  <2>1. PICK w \in Apart : \A v \in Apart : v <= w
    BY <1>1, <1>2, GreatestElement
  <2>2. w \in G!Weights /\ w \in Nat /\ w > 0
    BY WeightFacts
  <2>3. x \div (2 * w) = y \div (2 * w)
    <3>1. CASE 2 * w \in G!Weights
      <4>1. ~(2 * w <= w)
        BY <2>2
      <4> QED
        BY <2>1, <3>1, <4>1
    <3>2. CASE 2 * w = G!AllBits + 1
      <4>1. x < 1 * (2 * w) /\ y < 1 * (2 * w) /\ 2 * w > 0 /\ 2 * w \in Nat
        BY <1>1, <2>2, <3>2
      <4>2. x \div (2 * w) < 1 /\ y \div (2 * w) < 1
        BY <4>1, QuotientBounds
      <4>3. x \div (2 * w) \in Nat /\ y \div (2 * w) \in Nat
        BY <4>1, Division
      <4> QED
        BY <4>2, <4>3
    <3> QED
      BY <2>2, <3>1, <3>2, WeightFacts
  <2>4. ASSUME NEW a \in Nat PROVE a \div w = 2 * (a \div (2 * w)) + G!Bit(a, w)
    <3> DEFINE q == a \div w
    <3>1. /\ q \in Nat /\ a % w \in 0 .. w - 1 /\ a = q * w + (a % w)
          /\ q \div 2 \in Nat /\ q % 2 \in 0 .. 1 /\ q = (q \div 2) * 2 + (q % 2)
      BY <2>2, Division
    <3> HIDE DEF q
    <3> DEFINE h == q \div 2
               r == (q % 2) * w + (a % w)
    <3>2. h \in Nat /\ q % 2 \in {0, 1}
      BY <3>1
    <3>3. r \in 0 .. 2 * w - 1
      BY <2>2, <3>1, <3>2
    <3>4. a = h * (2 * w) + r
      <4>1. (h * 2 + (q % 2)) * w = h * (2 * w) + (q % 2) * w
        BY <2>2, <3>2
      <4> QED
        BY <2>2, <3>1, <3>2, <4>1
    <3> HIDE DEF h, r
    <3>5. a \div (2 * w) = h
      BY <2>2, <3>2, <3>3, <3>4, DivisionUnique
    <3> QED
      BY <3>1, <3>5 DEF h, q, G!Bit
  <2>5. x \div w = y \div w
    BY <2>2, <2>3, <2>4
  <2> QED
    BY <2>1, <2>5
<1>3. CASE Apart = {}
  <2>1. 1 \in G!Weights
    BY SMT DEF G!Weights
  <2>2. x \div 1 = y \div 1
    BY <1>3, <2>1
  <2> QED
    BY <2>2
<1> QED
  BY <1>2, <1>3

\* Masking the low bits rounds down to a multiple of a power of two.
LEMMA MaskRoundsDown ==
  ASSUME NEW b \in G!PowersOf2, NEW x \in Nat, x <= G!AllBits
  PROVE  G!And(x, G!AllBits - (b - 1)) = (x \div b) * b
<1> DEFINE z == (x \div b) * b
           cut == G!AllBits - (b - 1)
<1>1. b \in Nat /\ b > 0 /\ b <= 1024 /\ G!AllBits \in Nat /\ G!AllBits > 1024
  <2>1. b \in Nat /\ b > 0 /\ b <= 1024
    BY SMT DEF G!PowersOf2
  <2> QED
    BY <2>1, SMT DEF G!AllBits
<1>2. z \in Nat /\ z <= x /\ x < z + b /\ x \div b \in Nat /\ cut \in Nat
  BY <1>1, GroupOf
<1>3. ASSUME NEW w \in G!Weights PROVE G!Bit(z, w) = G!Bit(x, w) * G!Bit(cut, w)
  <2>1. w \in Nat /\ w > 0 /\ 2 * w \in Nat /\ 2 * w > 0
    BY WeightFacts
  <2>2. PICK t \in Nat : G!AllBits + 1 = t * (2 * w)
    <3>1. (G!AllBits + 1) \in Nat /\ (G!AllBits + 1) % (2 * w) = 0
      BY <1>1, WeightFacts
    <3>2. (G!AllBits + 1) \div (2 * w) \in Nat
          /\ G!AllBits + 1 = ((G!AllBits + 1) \div (2 * w)) * (2 * w)
      BY <2>1, <3>1, Division
    <3> QED
      BY <3>2
  <2>3. G!Bit(x, w) \in 0 .. 1
    <3>1. x \div w \in Nat
      BY <2>1, Division
    <3> QED
      BY <3>1 DEF G!Bit
  <2>4. CASE w < b
    <3>1. PICK m \in Nat : b = m * (2 * w)
      <4>1. b % (2 * w) = 0
        BY <2>4, PowerFacts
      <4>2. b \div (2 * w) \in Nat /\ b = (b \div (2 * w)) * (2 * w)
        BY <1>1, <2>1, <4>1, Division
      <4> QED
        BY <4>2
    <3>2. ASSUME NEW k \in Nat PROVE G!Bit(k * (2 * w), w) = 0
      <4>1. k * (2 * w) = (2 * k) * w + 0 /\ 2 * k \in Nat /\ 0 \in 0 .. w - 1
        BY <2>1
      <4>2. (k * (2 * w)) \div w = 2 * k
        BY <2>1, <4>1, DivisionUnique
      <4> QED
        BY <4>2 DEF G!Bit
    <3>3. z = ((x \div b) * m) * (2 * w) /\ (x \div b) * m \in Nat
      BY <1>2, <2>1, <3>1
    <3>4. cut = (t - m) * (2 * w) /\ t - m \in Nat
      <4>1. cut = t * (2 * w) - m * (2 * w)
        BY <1>1, <2>2, <3>1
      <4>2. t * (2 * w) - m * (2 * w) = (t - m) * (2 * w)
        BY <2>1
      <4>3. ~(t < m)
        <5>1. t < m => t * (2 * w) <= m * (2 * w)
          BY <2>1, TimesKeepsOrder
        <5> QED
          BY <1>1, <2>2, <3>1, <5>1
      <4> QED
        BY <4>1, <4>2, <4>3
    <3> HIDE DEF z, cut
    <3>5. G!Bit(z, w) = 0 /\ G!Bit(cut, w) = 0
      BY <3>2, <3>3, <3>4
    <3> QED
      BY <2>3, <3>5
  <2>5. CASE ~(w < b)
    <3>1. PICK m \in Nat : w = m * b
      <4>1. w % b = 0
        BY <2>5, PowerFacts
      <4>2. w \div b \in Nat /\ w = (w \div b) * b
        BY <1>1, <2>1, <4>1, Division
      <4> QED
        BY <4>2
    <3>2. z \div w = x \div w
      <4> DEFINE q == x \div w
      <4>1. q \in Nat /\ q * w <= x /\ x < q * w + w /\ q * w \in Nat
        BY <2>1, GroupOf
      <4>2. q * m \in Nat /\ q * w = (q * m) * b
        <5> HIDE DEF q
        <5>1. q * (m * b) = (q * m) * b
          BY <1>1, <3>1, <4>1
        <5> QED
          BY <3>1, <4>1, <5>1
      <4>3. q * m <= x \div b
        BY <1>1, <4>1, <4>2, QuotientBounds
      <4>4. (q * m) * b <= z
        BY <1>1, <1>2, <4>2, <4>3, TimesKeepsOrder
      <4>5. z - q * w \in 0 .. w - 1 /\ z = q * w + (z - q * w)
        BY <1>2, <2>1, <4>1, <4>2, <4>4
      <4> QED
        BY <2>1, <4>1, <4>5, DivisionUnique
    <3>3. cut \div w = 2 * t - 1 /\ (2 * t - 1) % 2 = 1
      <4>1. t > 0
        BY <1>1, <2>1, <2>2
      <4>2. w - b \in 0 .. w - 1
        BY <1>1, <2>1, <2>5
      <4>3. (2 * t - 1) * w = t * (2 * w) - w /\ 2 * t - 1 \in Nat
        BY <2>1, <4>1
      <4>4. cut = (2 * t - 1) * w + (w - b)
        BY <1>1, <2>1, <2>2, <4>3
      <4> HIDE DEF cut
      <4> QED
        BY <2>1, <4>1, <4>2, <4>3, <4>4, DivisionUnique
    <3> HIDE DEF z, cut
    <3> QED
      BY <2>3, <3>2, <3>3 DEF G!Bit
  <2> QED
    BY <2>4, <2>5
<1> HIDE DEF z
<1>4. z \in 0 .. x
  BY <1>2
<1>5. ASSUME NEW y \in 0 .. x, \A w \in G!Weights : G!Bit(y, w) = G!Bit(x, w) * G!Bit(cut, w)
      PROVE  y = z
  <2>1. y \in Nat /\ y <= G!AllBits /\ z <= G!AllBits
    BY <1>1, <1>2
  <2> HIDE DEF cut
  <2>2. \A w \in G!Weights : G!Bit(y, w) = G!Bit(z, w)
    BY <1>3, <1>5
  <2> QED
    BY <1>2, <2>1, <2>2, BitsDecide
<1>6. (CHOOSE y \in 0 .. x : \A w \in G!Weights : G!Bit(y, w) = G!Bit(x, w) * G!Bit(cut, w)) = z
  <2> HIDE DEF cut
  <2> QED
    BY <1>3, <1>4, <1>5
<1> QED
  BY <1>6 DEF G!And, z

\* So the groups of a request are the ones it needs, the last one not whole.
LEMMA GroupsOfRequest ==
  ASSUME NEW b \in G!PowersOf2, NEW len \in Nat, len > 0, len <= G!AllBits - 1024
  PROVE  LET n == G!WpGroups(len, b)
         IN  n \in Nat /\ len <= n * b /\ (n - 1) * b < len
<1> DEFINE n == (len + b - 1) \div b
<1>1. b \in Nat /\ b > 0 /\ b <= 1024 /\ G!AllBits \in Nat
  <2>1. b \in Nat /\ b > 0 /\ b <= 1024
    BY SMT DEF G!PowersOf2
  <2> QED
    BY <2>1, SMT DEF G!AllBits
<1>2. len + b - 1 \in Nat /\ len + b - 1 <= G!AllBits
  BY <1>1
<1>3. G!ROUNDUP(len, b) = n * b
  BY <1>2, MaskRoundsDown DEF G!ROUNDUP
<1>4. n \in Nat /\ n * b \in Nat /\ n * b <= len + b - 1 /\ len + b - 1 < n * b + b
  BY <1>1, <1>2, GroupOf
<1>5. (n * b) \div b = n
  <2>1. 0 \in 0 .. b - 1 /\ n * b + 0 = n * b
    BY <1>1, <1>4
  <2> HIDE DEF n
  <2> QED
    BY <1>1, <1>4, <2>1, DivisionUnique
<1> HIDE DEF n
<1>6. (n - 1) * b = n * b - b
  BY <1>1, <1>4
<1>7. G!WpGroups(len, b) = n
  BY <1>3, <1>5 DEF G!WpGroups
<1> QED
  BY <1>1, <1>4, <1>6, <1>7

-----------------------------------------------------------------------------
(* Write protection.                                                         *)

GroupNo(b, size) == b \div size

\* A block and the start of the driver's group it is in are in one group of
\* the card, whichever of the two sizes the driver takes.
LEMMA SameGroup ==
  ASSUME NEW u \in Nat, u > 0, NEW g \in Nat, g = u \/ g = 2 * u, NEW a \in Nat, a % g = 0,
         NEW y \in Nat
  PROVE  GroupNo(a + y, g) = GroupNo(a + GroupNo(y, u) * u, g)
<1> USE DEF GroupNo
<1> DEFINE j == y \div u
           s == y % u
           q == a \div g
<1>1. j \in Nat /\ s \in 0 .. u - 1 /\ y = j * u + s
  BY Division
<1>2. q \in Nat /\ a = q * g
  BY Division
<1> HIDE DEF j, s, q
<1>3. CASE g = u
  <2>1. a + y = (q + j) * u + s /\ a + j * u = (q + j) * u + 0 /\ 0 \in 0 .. u - 1
        /\ q + j \in Nat
    BY <1>1, <1>2, <1>3
  <2>2. ((q + j) * u + s) \div u = q + j /\ ((q + j) * u + 0) \div u = q + j
    BY <1>1, <2>1, DivisionUnique
  <2> QED
    BY <1>3, <2>1, <2>2 DEF j
<1>4. CASE g = 2 * u
  <2> DEFINE h == j \div 2
             r == j % 2
  <2>1. h \in Nat /\ r \in {0, 1} /\ j = h * 2 + r
    BY <1>1
  <2> HIDE DEF h, r
  <2>2. /\ j * u = h * (2 * u) + r * u /\ r * u \in {0, u} /\ (q + h) * g = q * g + h * g
        /\ q + h \in Nat /\ h * g \in Nat /\ q * g \in Nat
    <3>1. (h * 2 + r) * u = h * (2 * u) + r * u
      BY <2>1
    <3>2. r * u \in {0, u}
      BY <2>1
    <3> QED
      BY <1>2, <1>4, <2>1, <3>1, <3>2
  <2>3. r * u + s \in 0 .. g - 1 /\ r * u \in 0 .. g - 1
    BY <1>1, <1>4, <2>2
  <2>4. a + y = (q + h) * g + (r * u + s) /\ a + j * u = (q + h) * g + r * u
    BY <1>1, <1>2, <1>4, <2>2
  <2>5. ((q + h) * g + (r * u + s)) \div g = q + h /\ ((q + h) * g + r * u) \div g = q + h
    <3>1. g \in Nat /\ g > 0
      BY <1>4
    <3> QED
      BY <2>2, <2>3, <3>1, DivisionUnique
  <2> QED
    BY <2>4, <2>5 DEF j
<1> QED
  BY <1>3, <1>4

LEMMA InSomeGroup ==
  ASSUME NEW u \in Nat, u > 0, NEW g \in Nat, g = u \/ g = 2 * u, NEW a \in Nat, a % g = 0,
         NEW n \in Nat, NEW y \in Nat, y < n * u, a + y < Blocks
  PROVE  \E j \in Nat : j < n /\ a + y \in G!Group(a + j * u, g)
<1>1. GroupNo(a + y, g) = GroupNo(a + GroupNo(y, u) * u, g)
  BY SameGroup
<1> DEFINE j == GroupNo(y, u)
<1>2. j \in Nat /\ j < n
  BY QuotientBounds, Division DEF GroupNo
<1> HIDE DEF j
<1>3. a + j * u \in Nat /\ a + y \in 0 .. Blocks - 1 /\ g > 0
  BY <1>2, Sizes
<1>4. a + y \in G!Group(a + j * u, g)
  BY <1>1, <1>3, InGroup DEF GroupNo, j
<1> QED
  BY <1>2, <1>4

\* The request is one the property is about.
Whole == op.set /\ op.addr % dev.group = 0 /\ dev.known \in G!PowersOf2

\* While groups are protected, those done are, and every one protected holds
\* a block that was asked for.
WpInv ==
  /\ op.name = "wp" =>
       /\ dev # G!NoDev /\ dev.kind = "mmc"
       /\ op.addr \in Nat /\ op.len \in Nat /\ op.len > 0 /\ op.addr + op.len <= Blocks
       /\ op.i \in Nat
       /\ Whole =>
            /\ \A j \in Nat : j < op.i =>
                 G!Group(op.addr + j * dev.known, dev.group) \subseteq dev.protected
            /\ \A b \in dev.protected \ dev.before : G!Group(b, dev.group) \cap G!Asked # {}
  /\ WpCoversRequest

\* The groups are the request's.
LEMMA GroupStarts ==
  ASSUME NEW u \in G!PowersOf2, NEW len \in Nat, len > 0, NEW a \in Nat, a + len <= Blocks,
         NEW j \in Nat, j < G!WpGroups(len, u)
  PROVE  a + j * u \in G!BlocksOf(a, len) /\ a + j * u < Blocks
<1> DEFINE n == G!WpGroups(len, u)
<1>1. u \in Nat /\ u > 0
  BY PowerFacts, SMT DEF G!PowersOf2
<1>2. len <= G!AllBits - 1024 /\ Blocks \in Nat
  <2>1. G!AllBits \in Nat
    BY SMT DEF G!AllBits
  <2> QED
    BY <2>1, Sizes
<1>3. n \in Nat /\ (n - 1) * u < len
  BY <1>2, GroupsOfRequest
<1> HIDE DEF n
<1>4. j <= n - 1 /\ n - 1 \in Nat
  BY <1>3 DEF n
<1>5. j * u <= (n - 1) * u /\ j * u \in Nat /\ (n - 1) * u \in Nat
  BY <1>1, <1>4, TimesKeepsOrder
<1>6. j * u < len /\ a + j * u \in Nat
  BY <1>3, <1>5
<1> HIDE DEF n
<1> QED
  BY <1>2, <1>5, <1>6 DEF G!BlocksOf

LEMMA WpGroupStep ==
  ASSUME OpShape, EraseInv, WpInv, G!WpGroup
  PROVE  WpInv'
<1> DEFINE b == op.addr + op.i * dev.known
           at == G!Group(b, dev.group)
<1>1. /\ op.name = "wp" /\ op.i < G!WpGroups(op.len, dev.known) /\ dev # G!NoDev
      /\ dev.kind = "mmc" /\ CardKnown
      /\ dev.unit \in Nat /\ dev.unit > 0 /\ dev.group \in {dev.unit, 2 * dev.unit}
      /\ dev.known \in {dev.unit, dev.group}
      /\ op.addr \in Nat /\ op.len \in Nat /\ op.len > 0 /\ op.addr + op.len <= Blocks
      /\ op.i \in Nat
  BY DEF WpInv, EraseInv, SizesKnown, G!WpGroup
<1>2. \/ G!Return(op, 1) /\ dev' = dev
      \/ /\ b < Blocks
         /\ dev' = [dev EXCEPT !.protected = IF op.set THEN dev.protected \cup at
                                             ELSE dev.protected \ at]
         /\ G!Return(op, 1) \/ \E polls : op' = [op EXCEPT !.i = op.i + 1, !.retry = op.retry + polls]
  BY DEF G!WpGroup
<1>3. /\ op'.addr = op.addr /\ op'.len = op.len /\ op'.set = op.set
      /\ \/ op'.name = "returned" /\ op'.ret = 1 /\ op'.i = op.i
         \/ op'.name = "wp" /\ op'.i = op.i + 1
  BY <1>1, <1>2 DEF OpShape, G!Return
<1>4. /\ dev'.kind = dev.kind /\ dev'.unit = dev.unit /\ dev'.group = dev.group
      /\ dev'.known = dev.known /\ dev' # G!NoDev /\ dev'.before = dev.before
      /\ \/ dev'.protected = dev.protected /\ op'.name = "returned"
         \/ dev'.protected = IF op.set THEN dev.protected \cup at ELSE dev.protected \ at
  <2>1. CASE G!Return(op, 1) /\ dev' = dev
    BY <1>1, <2>1 DEF OpShape, G!Return
  <2>2. CASE dev' = [dev EXCEPT !.protected = IF op.set THEN dev.protected \cup at
                                              ELSE dev.protected \ at]
    <3> DEFINE p == IF op.set THEN dev.protected \cup at ELSE dev.protected \ at
    <3>1. dev' = [dev EXCEPT !.protected = p]
      BY <2>2
    <3> HIDE DEF p
    <3>2. /\ dev'.kind = dev.kind /\ dev'.unit = dev.unit /\ dev'.group = dev.group
          /\ dev'.known = dev.known /\ CardKnown' /\ dev'.protected = p
          /\ dev'.before = dev.before
      BY <1>1, <3>1 DEF CardKnown
    <3> QED
      BY <3>2, KnownCard DEF p, CardKnown, G!NoDev
  <2> QED
    BY <1>2, <2>1, <2>2
<1>5. Whole' => Whole
  BY <1>3, <1>4 DEF Whole
<1>6. ASSUME Whole
      PROVE  /\ \A x \in dev'.protected \ dev.before : G!Group(x, dev.group) \cap G!Asked # {}
             /\ op'.name = "wp" => \A j \in Nat : j < op.i + 1 =>
                  G!Group(op.addr + j * dev.known, dev.group) \subseteq dev'.protected
  <2>1. /\ \A j \in Nat : j < op.i =>
             G!Group(op.addr + j * dev.known, dev.group) \subseteq dev.protected
        /\ \A x \in dev.protected \ dev.before : G!Group(x, dev.group) \cap G!Asked # {}
    BY <1>1, <1>6 DEF WpInv
  <2>2. b \in G!Asked
    BY <1>1, <1>6, GroupStarts DEF Whole, G!Asked
  <2>3. dev.group \in Nat /\ dev.group > 0
    BY <1>1
  <2>4. ASSUME NEW x \in at PROVE b \in G!Group(x, dev.group)
    <3>1. x \in Nat /\ b \in Nat /\ x \in 0 .. Blocks - 1 /\ b \in 0 .. Blocks - 1
      BY <2>2 DEF G!Group, G!BlocksOf, G!Asked
    <3>2. x \div dev.group = b \div dev.group
      BY <2>3, <2>4, <3>1, InGroup
    <3> HIDE DEF b
    <3> QED
      BY <2>3, <3>1, <3>2, InGroup
  <2>5. dev'.protected \subseteq dev.protected \cup at
    BY <1>4
  <2>6. op'.name = "wp" => dev.protected \cup at \subseteq dev'.protected
    BY <1>4, <1>6 DEF Whole
  <2> HIDE DEF b
  <2>7. \A x \in dev'.protected \ dev.before : G!Group(x, dev.group) \cap G!Asked # {}
    BY <2>1, <2>2, <2>4, <2>5
  <2>8. ASSUME op'.name = "wp", NEW j \in Nat, j < op.i + 1
        PROVE  G!Group(op.addr + j * dev.known, dev.group) \subseteq dev'.protected
    <3>1. CASE j < op.i
      BY <2>1, <2>6, <2>8, <3>1
    <3>2. CASE j = op.i
      BY <2>6, <2>8, <3>2 DEF b
    <3>3. op.i \in Nat
      BY <1>1
    <3>4. j < op.i \/ j = op.i
      BY <2>8, <3>3
    <3> QED
      BY <3>1, <3>2, <3>4
  <2> QED
    BY <2>7, <2>8
<1>7. G!Asked' = G!Asked
  BY <1>3 DEF G!Asked
<1> HIDE DEF b, at
<1>8. CASE op'.name = "wp"
  <2>1. op.i + 1 \in Nat /\ op'.i = op.i + 1
    BY <1>1, <1>3, <1>8
  <2>2. Whole' => /\ \A j \in Nat : j < op'.i =>
                       G!Group(op'.addr + j * dev'.known, dev'.group) \subseteq dev'.protected
                  /\ \A x \in dev'.protected \ dev'.before : G!Group(x, dev'.group) \cap G!Asked' # {}
    BY <1>3, <1>4, <1>5, <1>6, <1>7, <1>8, <2>1
  <2>3. ~G!Returned("wp")'
    BY <1>8 DEF G!Returned
  <2> QED
    BY <1>1, <1>3, <1>4, <1>8, <2>1, <2>2, <2>3 DEF WpInv, WpCoversRequest, G!WpCoversRequest
<1>9. CASE op'.name = "returned" /\ op'.ret = 1
  <2>1. G!WpCoversRequest'
    BY <1>3, <1>4, <1>5, <1>6, <1>7, <1>9 DEF G!WpCoversRequest, Whole
  <2> QED
    BY <1>9, <2>1 DEF WpInv, WpCoversRequest
<1> QED
  BY <1>3, <1>8, <1>9

LEMMA WpDoneStep ==
  ASSUME OpShape, EraseInv, WpInv, G!WpDone
  PROVE  WpInv'
<1>1. /\ op.name = "wp" /\ op.i = G!WpGroups(op.len, dev.known) /\ dev # G!NoDev
      /\ dev.kind = "mmc" /\ CardKnown
      /\ dev.unit \in Nat /\ dev.unit > 0 /\ dev.group \in {dev.unit, 2 * dev.unit}
      /\ dev.known \in {dev.unit, dev.group}
      /\ op.addr \in Nat /\ op.len \in Nat /\ op.len > 0 /\ op.addr + op.len <= Blocks
      /\ op.i \in Nat /\ dev' = dev
  BY DEF WpInv, EraseInv, SizesKnown, G!WpDone
<1>2. /\ op'.name = "returned" /\ op'.addr = op.addr /\ op'.len = op.len /\ op'.set = op.set
  BY <1>1 DEF G!WpDone, OpShape, G!Return
<1>3. G!Asked' = G!Asked /\ (Whole' => Whole)
  BY <1>1, <1>2 DEF G!Asked, Whole
<1>4. ASSUME Whole
      PROVE  /\ \A x \in dev.protected \ dev.before : G!Group(x, dev.group) \cap G!Asked # {}
             /\ G!Asked \subseteq dev.protected
  <2>1. /\ \A j \in Nat : j < op.i =>
             G!Group(op.addr + j * dev.known, dev.group) \subseteq dev.protected
        /\ \A x \in dev.protected \ dev.before : G!Group(x, dev.group) \cap G!Asked # {}
    BY <1>1, <1>4 DEF WpInv
  <2> DEFINE u == dev.known
             g == dev.group
  <2>2. u \in G!PowersOf2 /\ u \in Nat /\ u > 0 /\ g \in {u, 2 * u} /\ g \in Nat /\ g > 0
        /\ op.addr % g = 0
    BY <1>1, <1>4 DEF Whole
  <2>3. op.len <= op.i * u
    <3>1. op.len <= G!AllBits - 1024
      <4>1. G!AllBits \in Nat
        BY SMT DEF G!AllBits
      <4> QED
        BY <1>1, <4>1, Sizes
    <3> HIDE DEF u
    <3>2. op.len <= G!WpGroups(op.len, u) * u
      BY <1>1, <2>2, <3>1, GroupsOfRequest
    <3> QED
      BY <1>1, <3>2 DEF u
  <2>4. ASSUME NEW x \in G!Asked PROVE x \in dev.protected
    <3> DEFINE y == x - op.addr
    <3>1. x \in 0 .. Blocks - 1 /\ op.addr <= x /\ x < op.addr + op.len /\ x \in Nat
      BY DEF G!Asked, G!BlocksOf
    <3>2. y \in Nat /\ y < op.i * u /\ op.addr + y < Blocks /\ op.addr + y = x
      BY <1>1, <2>2, <2>3, <3>1, Sizes
    <3> HIDE DEF u, g, y
    <3>3. PICK j \in Nat : j < op.i /\ op.addr + y \in G!Group(op.addr + j * u, g)
      BY <1>1, <2>2, <3>2, InSomeGroup
    <3> QED
      BY <2>1, <3>2, <3>3 DEF u, g
  <2> QED
    BY <2>1, <2>4
<1>5. G!WpCoversRequest'
  BY <1>1, <1>2, <1>3, <1>4 DEF G!WpCoversRequest, Whole
<1> QED
  BY <1>2, <1>5 DEF WpInv, WpCoversRequest

\* A step on the card that protects nothing.
LEMMA WpKept ==
  ASSUME WpInv, op'.name # "wp", ~(op'.name = "returned" /\ op'.of = "wp")
  PROVE  WpInv'
  BY DEF WpInv, WpCoversRequest, G!WpCoversRequest, G!Returned

LEMMA WpManage ==
  ASSUME PartitionInv, EraseInv, WpInv, G!ManageStep
  PROVE  WpInv'
<1>1. OpShape
  BY DEF PartitionInv
<1>2. CASE G!mmc_sdhci_erase
  <2>1. PICK addr, len, unit, r :
          G!Return([G!Idle EXCEPT !.name = "erase", !.addr = addr, !.len = len, !.unit = unit], r)
    BY <1>2, EraseReturns
  <2>2. op'.name = "returned" /\ op'.of = "erase"
    BY <2>1 DEF G!Return, G!Idle
  <2> QED
    BY <2>2, WpKept
<1>3. CASE G!mmc_set_clr_power_on_wp_user
  <2>1. PICK addr \in 0..Blocks - 1, len \in 1..Blocks, set \in BOOLEAN :
              /\ addr + len <= Blocks
              /\ LET o == [G!Idle EXCEPT !.name = "wp", !.addr = addr, !.len = len, !.set = set]
                 IN  (op' = o /\ ~(len < dev.known)) \/ G!Return(o, 1)
    BY <1>3, WpStarts
  <2> DEFINE o == [G!Idle EXCEPT !.name = "wp", !.addr = addr, !.len = len, !.set = set]
  <2>2. op.name = "none" /\ dev # G!NoDev /\ dev' = dev /\ dev.kind = "mmc"
    BY <1>3, WpStarts
  <2>3. dev'.protected \ dev'.before = {}
    BY <2>2 DEF EraseInv
  <2>4. addr \in Nat /\ len \in Nat /\ len > 0 /\ addr + len <= Blocks
    BY <2>1, Sizes
  <2>5. CASE op' = o
    <3>1. op'.name = "wp" /\ op'.addr = addr /\ op'.len = len /\ op'.i = 0
      BY <2>5 DEF G!Idle
    <3>2. ~G!Returned("wp")'
      BY <3>1 DEF G!Returned
    <3>3. \A j \in Nat : ~(j < op'.i)
      BY <3>1
    <3> QED
      BY <2>2, <2>3, <2>4, <3>1, <3>2, <3>3 DEF WpInv, WpCoversRequest, G!WpCoversRequest
  <2>6. CASE G!Return(o, 1)
    <3>1. op'.name = "returned" /\ op'.ret = 1
      BY <2>6 DEF G!Return, G!Idle
    <3> QED
      BY <2>2, <2>3, <3>1 DEF WpInv, WpCoversRequest, G!WpCoversRequest
  <2> QED
    BY <2>1, <2>5, <2>6
<1>4. CASE G!WpGroup
  BY <1>1, <1>4, WpGroupStep
<1>5. CASE G!WpDone
  BY <1>1, <1>5, WpDoneStep
<1>6. CASE G!RpmbStart
  <2>1. PICK n \in 1..G!MAX_RPMB_CMDS, end \in {"ok", "lost", "late"} :
          LET o == [G!Idle EXCEPT !.name = "rpmb", !.left = n, !.retry = RpmbRetry]
          IN  /\ G!mmc_sdhci_switch_part(G!PART_ACCESS_RPMB, end)
              /\ IF end = "ok" THEN op' = o ELSE G!Return(o, 1)
    BY <1>6 DEF G!RpmbStart
  <2> DEFINE o == [G!Idle EXCEPT !.name = "rpmb", !.left = n, !.retry = RpmbRetry]
  <2>2. op' = o \/ G!Return(o, 1)
    BY <2>1
  <2>3. op'.name = "rpmb" \/ (op'.name = "returned" /\ op'.of = "rpmb")
    BY <2>2 DEF G!Return, G!Idle
  <2> QED
    BY <2>3, WpKept
<1>7. CASE G!RpmbCommand
  <2>1. /\ op.name = "rpmb"
        /\ \/ op' = [op EXCEPT !.failed = TRUE]
           \/ \E polls : op' = [op EXCEPT !.left = op.left - 1, !.retry = op.retry - polls]
    BY <1>7 DEF G!RpmbCommand
  <2>2. op'.name = "rpmb"
    BY <1>1, <2>1 DEF OpShape
  <2> QED
    BY <2>2, WpKept
<1>8. CASE G!RpmbEnd
  <2>1. op.name = "rpmb" /\ \E r : G!Return(op, r)
    BY <1>8 DEF G!RpmbEnd
  <2>2. op'.name = "returned" /\ op'.of = "rpmb"
    BY <1>1, <2>1 DEF OpShape, G!Return
  <2> QED
    BY <2>2, WpKept
<1>9. CASE G!mmc_put_card_to_sleep
  <2>1. op' = op /\ op.name = "none"
    BY <1>9 DEF G!mmc_put_card_to_sleep, G!Ready
  <2> QED
    BY <2>1, WpKept
<1>10. CASE G!Forget
  <2>1. op'.name = "none"
    BY <1>10 DEF G!Forget, G!Idle
  <2> QED
    BY <2>1, WpKept
<1> QED
  BY <1>2, <1>3, <1>4, <1>5, <1>6, <1>7, <1>8, <1>9, <1>10 DEF G!ManageStep

-----------------------------------------------------------------------------
(* What the operations on a card promise, whatever is done with it.         *)

ManageInv == PartitionInv /\ EraseInv /\ WpInv

LEMMA ManageInit == G!Init => ManageInv
<1> SUFFICES ASSUME G!Init PROVE ManageInv
  OBVIOUS
<1>1. /\ dev = G!NoDev /\ op = G!Idle /\ ext = [good |-> TRUE, boot |-> 1, access |-> 0]
      /\ op.name = "none"
  BY DEF G!Init, G!Idle
<1>2. OpShape
  BY <1>1 DEF OpShape, G!Idle
<1>3. PartitionInv
  BY <1>1, <1>2 DEF PartitionInv
<1>4. EraseInv /\ WpInv
  BY <1>1 DEF EraseInv, SizesKnown, WpInv, EraseExact, G!EraseExact, WpCoversRequest,
     G!WpCoversRequest, G!Returned
<1> QED
  BY <1>3, <1>4 DEF ManageInv

LEMMA ManageNext == ManageInv /\ SlotNext => ManageInv'
<1> SUFFICES ASSUME ManageInv, SlotNext PROVE ManageInv'
  OBVIOUS
<1>1. CASE UNCHANGED gvars
  BY <1>1 DEF ManageInv, gvars, PartitionInv, OpShape, CardKnown, EraseInv, SizesKnown, WpInv, Whole,
     EraseExact, G!EraseExact, WpCoversRequest, G!WpCoversRequest, G!Returned, G!Asked
<1>2. CASE Open
  <2>1. PICK kind \in {"mmc", "sd"} : G!Open(kind)
    BY <1>2 DEF Open
  <2>2. PartitionInv' /\ EraseInv'
    BY <2>1, PartitionOpen, EraseOpen DEF ManageInv
  <2>3. op' = op /\ op.name = "none"
    BY <2>1 DEF G!Open, ManageInv, EraseInv
  <2>4. WpInv'
    BY <2>3, WpKept DEF ManageInv
  <2> QED
    BY <2>2, <2>4 DEF ManageInv
<1>3. CASE Manage
  BY <1>3, PartitionManage, EraseManage, WpManage DEF ManageInv, Manage
<1> QED
  BY <1>1, <1>2, <1>3 DEF SlotNext, HostNext, mmc_init, CardNext

LEMMA ManageStepKeeps == ManageInv /\ [SlotNext]_vars => ManageInv'
<1>1. ManageInv /\ UNCHANGED vars => ManageInv'
  BY DEF ManageInv, vars, gvars, PartitionInv, OpShape, CardKnown, EraseInv, SizesKnown, WpInv,
     Whole, EraseExact, G!EraseExact, WpCoversRequest, G!WpCoversRequest, G!Returned, G!Asked
<1> QED
  BY <1>1, ManageNext

\* Whatever becomes of an RPMB transfer, reads and writes go to the user
\* partition after it, and the boot configuration survives, unless a switch
\* itself failed or the registers were never read (mmc_sdhci.c 2373-2475).
THEOREM UserPartitionAfterRpmb == SlotSpec => []PartitionRestored
<1>1. SlotInit => ManageInv
  BY ManageInit DEF SlotInit
<1>2. ManageInv => PartitionRestored
  BY DEF ManageInv, PartitionInv, PartitionRestored, G!PartitionRestored
<1> QED
  BY <1>1, <1>2, ManageStepKeeps, PTL DEF SlotSpec

\* For every size of card and group: an erase stays in its range, and one that
\* returns 0 on an MMC card is complete but for what is protected (mmc_sdhci.c
\* 2045-2190).
THEOREM EraseStaysInRange == SlotSpec => []EraseExact
<1>1. SlotInit => ManageInv
  BY ManageInit DEF SlotInit
<1>2. ManageInv => EraseExact
  BY DEF ManageInv, EraseInv
<1> QED
  BY <1>1, <1>2, ManageStepKeeps, PTL DEF SlotSpec

\* For every size of card and group: a protection that succeeds covers what
\* was asked for, whatever stopped one that failed (mmc_sdhci.c 2231-2343).
THEOREM ProtectionCovers == SlotSpec => []WpCoversRequest
<1>1. SlotInit => ManageInv
  BY ManageInit DEF SlotInit
<1>2. ManageInv => WpCoversRequest
  BY DEF ManageInv, WpInv
<1> QED
  BY <1>1, <1>2, ManageStepKeeps, PTL DEF SlotSpec
================================================================================
