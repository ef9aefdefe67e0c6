------------------------------ MODULE MmcCard ------------------------------
(***************************************************************************)
(* Card initialisation: mmc_card_init of mmc_sdhci.c and every step it     *)
(* calls, from CMD0 to the block device that PlatformCallbackInitSlot      *)
(* publishes.  The driver is one thread; what varies is the card in the    *)
(* slot, the platform's configuration, the host's capabilities and how     *)
(* each command ends.  A function that issues several commands is the      *)
(* sequence of its steps, which "todo" holds; a step that fails drops the  *)
(* rest, the way every early return of the code does.                      *)
(*                                                                         *)
(* A command ends "ok", "lost" (no effect, an error is returned) or "late" *)
(* (the card did it, but the command or the status after it failed).       *)
(***************************************************************************)
EXTENDS Integers, Sequences, SdhciClock

CONSTANTS
    Configs,           \* what a platform passes to mmc_init
    CoreRates,         \* the rates, in kHz, the clock driver knows for the slot
    Cards,             \* the cards that may be in the slot
    OpCondRetries,     \* MMC_MAX_COMMAND_RETRY
    IfCondRetries,     \* SD_CMD8_MAX_RETRY
    AppOpCondRetries   \* SD_ACMD41_MAX_RETRY

RetriesAssumption ==
    {OpCondRetries, IfCondRetries, AppOpCondRetries} \subseteq Nat \ {0}

\* A card's registers name its size the way the standards lay down: in units
\* of 1024 blocks, in sectors, or as a count of blocks of the card's own size.
CardsAssumption ==
    \A c \in Cards :
        c.blocks = CASE c.csd.form = "v2" -> (1 + c.csd.size) * 1024
                     [] c.csd.form = "ext" -> c.csd.sectors
                     [] OTHER -> (2 ^ (c.csd.mult + 2) * (c.csd.size + 1) * c.csd.len) \div 512

VARIABLES
    todo,      \* the steps mmc_card_init has still to take
    ret,       \* the return value a step leaves for a later return
    tries,     \* the loop counter of the step that retries
    out,       \* "running", "failed", "asserted", "fault" or "published"
    cfg,       \* struct mmc_config_data
    host,      \* the host: width, UHS mode, dividers, timing saved by the driver
    card,      \* the card itself
    drv        \* struct mmc_card: what the driver knows
mvars == <<todo, ret, tries, out, cfg, host, card, drv>>

(* Steps of the functions that are called more than once *)

HsInterface == <<"hs_timing", "host_SDR25">>              \* mmc_set_hs_interface
DdrMode == <<"ddr_width", "host_DDR50">>                  \* mmc_set_ddr_mode
Hs200Mode == <<"width", "hs200_timing", "host_SDR104", "clock_400",
               "tuning", "clock_200">>                    \* mmc_set_hs200_mode
\* mmc_set_hs400_mode
Hs400Mode == Hs200Mode \o <<"host_SDR12">> \o HsInterface \o DdrMode
             \o <<"hs400_timing", "hs400_clock", "hs400_tuning">>
IdentifyCard == <<"cid", "rca", "csd", "select">>         \* mmc_identify_card

Step(name) == out = "running" /\ todo # <<>> /\ Head(todo) = name
Continue == todo' = Tail(todo) /\ out' = out
Fail == todo' = <<>> /\ out' = "failed"
Ends == {"ok", "lost", "late"}

(***************************************************************************)
(* The clock of the card: the core clock of the clock driver, divided by   *)
(* the host's divider and by the extra half the HS400 setting inserts.     *)
(***************************************************************************)
CardKHz(h) == (h.core \div h.div) \div (IF h.half THEN 2 ELSE 1)

\* The fastest clock a card may be given for the timing it is in.
Limit(c) ==
    CASE c.state \in {"idle", "ready", "ident"} -> 400
      [] c.timing = "legacy" -> IF c.sd THEN 25000 ELSE 26000
      [] c.timing = "HS" -> IF c.sd THEN 50000 ELSE 52000
      [] OTHER -> 200000

\* What the host's registers make of the lines.
HostMode(h) == IF h.selIn THEN "HS400"
               ELSE CASE h.uhs = "SDR12" -> "legacy" [] h.uhs = "SDR25" -> "HS"
                      [] h.uhs = "DDR50" -> "DDR" [] OTHER -> "HS200"
CardMode(c) == IF c.ddr /\ c.timing = "HS" THEN "DDR" ELSE c.timing
Agree(h, c) == h.width = c.width /\ HostMode(h) = CardMode(c)

\* sdhci_clk_supply: what the host divides by when the driver asks for khz.
HostDiv(base, khz) == DividesBy(FreqSelect(Divider(base, khz)))

\* sdhci_set_uhs_mode
UhsKHz == [SDR12 |-> 25000, SDR25 |-> 50000, DDR50 |-> 50000, SDR104 |-> 200000]
sdhci_set_uhs_mode(h, mode) ==
    [h EXCEPT !.uhs = mode, !.div = HostDiv(h.caps.base, UhsKHz[mode])]

\* sdhci_msm_set_mci_clk: for HS400 the clock is halved and, once tuned,
\* HS400 selected; otherwise only the selection is taken back.
\* Mutant: the clock is not halved.
SelectOnly(h) == IF h.timing = "HS400"
                 THEN [h EXCEPT !.selIn = h.selIn \/ (h.tuned /\ ~h.calibrated)]
                 ELSE [h EXCEPT !.selIn = FALSE]
sdhci_msm_set_mci_clk(h) ==
    IF h.timing = "HS400"
    THEN [h EXCEPT !.half = TRUE, !.selIn = h.selIn \/ (h.tuned /\ ~h.calibrated)]
    ELSE [h EXCEPT !.selIn = FALSE]

\* LibQcomPlatformMmcTranslateClockRate
TranslateClockRate(khz) == CASE khz = 96000 -> 100000 [] khz = 400000 -> 384000
                             [] khz = 192000 -> 200000 [] OTHER -> khz

\* LibQcomPlatformMmcClockConfig: a rate the clock driver lacks ends in ASSERT.
ClockConfig(h, khz) ==
    LET rate == TranslateClockRate(khz)
    IN  IF rate \in CoreRates[cfg.platform]
        THEN host' = [h EXCEPT !.core = rate] /\ Continue
        ELSE host' = h /\ todo' = <<>> /\ out' = "asserted"

(* mmc_decode_and_save_csd *)

SecBits == 8        \* the width sec_count is scaled to; the code's int has 32
\* The top byte of the sector count is shifted into the sign of an int, which
\* then widens to 64 bits (here to twice SecBits).
SecCount(sectors) == IF sectors < 2 ^ (SecBits - 1) THEN sectors
                     ELSE sectors + 2 ^ (2 * SecBits) - 2 ^ SecBits
\* The capacity in blocks of 512 bytes.
\* Mutant: C_SIZE is taken for the number of units, not for one less.
CapacityOffByOne(c) ==
    CASE c.csd.form = "v2" -> c.csd.size * 1024
      [] c.csd.form = "ext" -> SecCount(c.csd.sectors)
      [] OTHER -> (2 ^ (c.csd.mult + 2) * c.csd.size * c.csd.len) \div 512
mmc_decode_and_save_csd(c) ==
    CASE c.csd.form = "v2" -> (1 + c.csd.size) * 1024
      [] c.csd.form = "ext" -> SecCount(c.csd.sectors)
      [] OTHER -> (2 ^ (c.csd.mult + 2) * (c.csd.size + 1) * c.csd.len) \div 512

CORE_KHZ == 200000  \* the core clock the slot starts with

(* The initial state: what the boot loader left in the slot *)

Init ==
    /\ todo = <<"mmc_init">> /\ ret = 0 /\ tries = 0 /\ out = "running"
    /\ cfg \in Configs
    /\ \E c \in Cards, used \in BOOLEAN :
          card = [sd |-> c.sd, hs |-> c.hs, modes |-> c.modes, scr4 |-> c.scr4, csd |-> c.csd,
                  blocks |-> c.blocks, rstN |-> c.rstN,
                  state |-> IF used THEN "tran" ELSE "idle", width |-> IF used THEN 4 ELSE 1,
                  timing |-> IF used THEN "HS" ELSE "legacy", ddr |-> FALSE]
    /\ host = [width |-> 1, uhs |-> "SDR12", div |-> 1, core |-> CORE_KHZ, half |-> FALSE,
               selIn |-> FALSE, timing |-> "none", tuned |-> FALSE, calibrated |-> FALSE,
               caps |-> [base |-> 0, width8 |-> FALSE, ddr |-> FALSE, sdr104 |-> FALSE]]
    /\ drv = [sd |-> FALSE, rca |-> 0, width |-> 1, blocks |-> 0]

\* mmc_init, with the capabilities mmc_host_init has read.
mmc_init(caps) ==
    /\ Step("mmc_init")
    /\ host' = [host EXCEPT !.caps = caps, !.div = HostDiv(caps.base, 400)]
    /\ todo' = <<"reset">>
    /\ UNCHANGED <<ret, tries, out, cfg, card, drv>>

\* CMD0 has no response: when the card misses it, the host cannot tell.
mmc_reset_card ==
    /\ Step("reset")
    /\ \E end \in Ends, missed \in BOOLEAN :
          /\ card' = IF end = "lost" \/ missed THEN card
                     ELSE [card EXCEPT !.state = "idle", !.width = 1, !.timing = "legacy",
                                       !.ddr = FALSE]
          /\ todo' = IF end = "ok" THEN <<"op_cond">> ELSE <<"if_cond">>
    /\ tries' = 0
    /\ UNCHANGED <<ret, out, cfg, host, drv>>

InitSteps(sd) ==
    IdentifyCard \o IF sd THEN <<"sd_hs", "scr", "ssr", "decode", "sd_width", "rst_n">>
                    ELSE HsInterface \o <<"ext_csd", "decode", "bus_width">>

\* CMD1 until the card is no longer busy; any failure goes on to the SD card.
mmc_send_op_cond ==
    /\ Step("op_cond")
    /\ \E answer \in {"ready", "busy", "none"} :
          /\ answer # "none" => ~card.sd /\ card.state = "idle"
          /\ todo' = CASE answer = "ready" -> InitSteps(FALSE)
                       [] answer = "busy" /\ tries + 1 < OpCondRetries -> todo
                       [] OTHER -> <<"if_cond">>
          /\ tries' = IF answer = "busy" /\ tries + 1 < OpCondRetries THEN tries + 1 ELSE 0
          /\ card' = IF answer = "ready" THEN [card EXCEPT !.state = "ready"] ELSE card
    /\ UNCHANGED <<ret, out, cfg, host, drv>>

(* mmc_sd_card_init: CMD8, then CMD55 and ACMD41 *)

SendIfCond ==
    /\ Step("if_cond")
    /\ drv' = [drv EXCEPT !.rca = 0]
    /\ \E answer \in {"echo", "other", "none"} :
          /\ answer = "echo" => card.sd /\ card.state = "idle"
          /\ answer = "other" => card.sd \/ card.state = "tran"
          /\ CASE answer = "echo" ->
                     todo' = <<"app_op_cond">> /\ tries' = 0 /\ out' = out
               [] answer = "other" /\ tries + 1 < IfCondRetries ->
                     tries' = tries + 1 /\ UNCHANGED <<todo, out>>
               [] OTHER -> Fail /\ tries' = 0
    /\ UNCHANGED <<ret, cfg, host, card>>

SendAppOpCond ==
    /\ Step("app_op_cond")
    /\ \E answer \in {"ready", "busy", "none"} :
          /\ CASE answer = "ready" ->
                     /\ todo' = InitSteps(TRUE) /\ tries' = 0 /\ out' = out
                     /\ card' = [card EXCEPT !.state = "ready"]
                     /\ drv' = [drv EXCEPT !.sd = TRUE]
               [] answer = "busy" /\ tries + 1 < AppOpCondRetries ->
                     tries' = tries + 1 /\ UNCHANGED <<todo, out, card, drv>>
               [] OTHER -> Fail /\ tries' = 0 /\ UNCHANGED <<card, drv>>
    /\ UNCHANGED <<ret, cfg, host>>

(* mmc_identify_card: CMD2, CMD3, CMD9, CMD7 *)

NextState == [cid |-> "ident", rca |-> "stby", csd |-> "stby", select |-> "tran"]
Identify ==
    /\ \E name \in DOMAIN NextState, end \in Ends :
          /\ Step(name)
          /\ card' = IF end = "lost" THEN card ELSE [card EXCEPT !.state = NextState[name]]
          \* An MMC card is given its address, and told to the driver, before CMD3.
          /\ drv' = IF name = "rca" /\ (end = "ok" \/ ~drv.sd)
                    THEN [drv EXCEPT !.rca = 1] ELSE drv
          /\ IF end = "ok" THEN Continue ELSE Fail
    /\ UNCHANGED <<ret, tries, cfg, host>>

(* Steps that switch the card: mmc_switch_cmd, CMD6 and the status after it *)

mmc_switch_cmd(switched) ==
    /\ \E end \in Ends :
          /\ card' = IF end = "lost" THEN card ELSE switched
          /\ IF end = "ok" THEN Continue ELSE Fail
    /\ UNCHANGED <<ret, tries, cfg, host, drv>>

SwitchHsTiming == Step("hs_timing") /\ mmc_switch_cmd([card EXCEPT !.timing = "HS"])
\* Mutant: HS200 is set without the wide bus the card has to have first.
KeepWidth == Step("width") /\ Continue /\ UNCHANGED <<ret, tries, cfg, host, card, drv>>
mmc_set_bus_width ==
    Step("width") /\ mmc_switch_cmd([card EXCEPT !.width = drv.width, !.ddr = FALSE])
SwitchDdrWidth ==
    Step("ddr_width") /\ mmc_switch_cmd([card EXCEPT !.width = 8, !.ddr = TRUE])
SwitchHs200Timing == Step("hs200_timing") /\ mmc_switch_cmd([card EXCEPT !.timing = "HS200"])
SwitchHs400Timing == Step("hs400_timing") /\ mmc_switch_cmd([card EXCEPT !.timing = "HS400"])

(* Steps on the host alone *)

HostStep(next) ==
    /\ host' = next /\ Continue
    /\ UNCHANGED <<ret, tries, cfg, card, drv>>
HostSdr25 == Step("host_SDR25")
             /\ HostStep(sdhci_set_uhs_mode([host EXCEPT !.timing = "SDR25"], "SDR25"))
HostDdr50 == Step("host_DDR50")
             /\ HostStep(sdhci_set_uhs_mode([host EXCEPT !.timing = "DDR50"], "DDR50"))
HostSdr12 == Step("host_SDR12")
             /\ HostStep(sdhci_set_uhs_mode([host EXCEPT !.timing = "SDR12"], "SDR12"))
HostSdr104 == Step("host_SDR104") /\ HostStep(sdhci_set_uhs_mode(host, "SDR104"))

\* mmc_card_supports_hs400_mode and what the platform asked for.
Hs400Wanted == cfg.hs400 /\ "HS400" \in card.modes

\* In HS200 on the way to HS400 the core clock is 400 MHz, halved first.
Clock400ForTuning ==
    /\ Step("clock_400")
    /\ IF Hs400Wanted
       THEN ClockConfig(sdhci_msm_set_mci_clk([host EXCEPT !.timing = "HS400"]), 400000)
       ELSE UNCHANGED host /\ Continue
    /\ UNCHANGED <<ret, tries, cfg, card, drv>>

\* The error of the tuning is returned only after the clock is taken back.
Tune ==
    /\ Step("tuning")
    /\ ret' \in {0, 1}
    /\ host' = [host EXCEPT !.tuned = TRUE]
    /\ Continue
    /\ UNCHANGED <<tries, cfg, card, drv>>

ClockBackTo200 ==
    /\ Step("clock_200")
    /\ LET h == [host EXCEPT !.timing = "HS200"]
       IN  IF ret # 0
           THEN /\ host' = IF host.timing = "HS400"
                           THEN [sdhci_msm_set_mci_clk(h) EXCEPT !.core = 200000] ELSE h
                /\ Fail
           ELSE IF host.timing = "HS400"
                THEN ClockConfig(sdhci_msm_set_mci_clk(h), 192000)
                ELSE host' = h /\ Continue
    /\ UNCHANGED <<ret, tries, cfg, card, drv>>

Hs400Clock ==
    /\ Step("hs400_clock")
    /\ LET h == sdhci_set_uhs_mode([host EXCEPT !.timing = "HS400"], "SDR104")
       IN  ClockConfig(sdhci_msm_set_mci_clk(h), 400000)
    /\ UNCHANGED <<ret, tries, cfg, card, drv>>

Hs400Tune ==
    /\ Step("hs400_tuning")
    /\ host' = [host EXCEPT !.calibrated = TRUE]
    /\ Continue \/ Fail
    /\ UNCHANGED <<ret, tries, cfg, card, drv>>

(* Steps that read registers of the card over the data lines *)

ReadRegisters ==
    /\ Step("ext_csd") \/ Step("scr") \/ Step("ssr")
    /\ Continue \/ Fail
    /\ UNCHANGED <<ret, tries, cfg, host, card, drv>>

\* mmc_sd_set_hs does not look at what the card answered to the switch.
mmc_sd_set_hs ==
    /\ Step("sd_hs")
    /\ \E end \in Ends :
          /\ card' = IF end # "lost" /\ card.hs THEN [card EXCEPT !.timing = "HS"] ELSE card
          /\ IF end = "ok"
             THEN host' = sdhci_set_uhs_mode(host, "SDR25") /\ Continue
             ELSE host' = host /\ Fail
    /\ UNCHANGED <<ret, tries, cfg, drv>>

\* An SD card has no extended CSD: its bytes are read at a null pointer, which
\* faults or yields anything.
DecodeCsd ==
    /\ Step("decode")
    /\ \/ /\ drv' = [drv EXCEPT !.blocks = mmc_decode_and_save_csd(card)] /\ Continue
       \/ /\ drv.sd /\ drv' = drv /\ todo' = <<>> /\ out' = "fault"
    /\ UNCHANGED <<ret, tries, cfg, host, card>>

(* The width and the speed of an MMC card *)

BusWidth == CASE cfg.width = 8 /\ host.caps.width8 -> 8
              [] cfg.width = 4 -> 4
              [] OTHER -> 1
Hs200Wanted == cfg.hs200 /\ host.caps.sdr104 /\ "HS200" \in card.modes
DdrWanted == host.caps.ddr /\ "DDR" \in card.modes
ModeSteps(width) ==
    CASE Hs400Wanted -> Hs400Mode
      [] ~Hs400Wanted /\ Hs200Wanted -> Hs200Mode
      [] ~Hs400Wanted /\ ~Hs200Wanted /\ DdrWanted -> DdrMode
      [] OTHER -> HsInterface \o <<"width">>

SetBusWidthAndMode ==
    /\ Step("bus_width")
    /\ host' = [host EXCEPT !.width = BusWidth]
    /\ drv' = [drv EXCEPT !.width = BusWidth]
    \* HS400 needs the 8-bit bus and gives the whole card up without it.
    /\ IF Hs400Wanted /\ BusWidth # 8 THEN Fail
       ELSE todo' = ModeSteps(BusWidth) \o <<"rst_n">> /\ out' = out
    /\ UNCHANGED <<ret, tries, cfg, card>>

\* mmc_sd_set_bus_width, CMD55 and ACMD6, and the host after it.
SetSdBusWidth ==
    /\ Step("sd_width")
    /\ LET width == IF card.scr4 THEN 4 ELSE 1
       IN  \E end \in Ends :
              /\ card' = IF end = "lost" THEN card ELSE [card EXCEPT !.width = width]
              /\ IF end = "ok"
                 THEN /\ host' = [host EXCEPT !.width = width]
                      /\ drv' = [drv EXCEPT !.width = width]
                      /\ Continue
                 ELSE UNCHANGED <<host, drv>> /\ Fail
    /\ UNCHANGED <<ret, tries, cfg>>

EnableRstN ==
    /\ Step("rst_n")
    /\ \/ /\ drv.sd \/ card.rstN          \* nothing to do, or so it reads
          /\ Continue /\ card' = card
       \/ /\ drv.sd \/ ~card.rstN
          /\ \E end \in Ends :
                /\ card' = IF end = "lost" \/ drv.sd THEN card ELSE [card EXCEPT !.rstN = TRUE]
                /\ IF end = "ok" THEN Continue ELSE Fail
       \/ /\ drv.sd /\ todo' = <<>> /\ out' = "fault" /\ card' = card
    /\ UNCHANGED <<ret, tries, cfg, host, drv>>

\* PlatformCallbackInitSlot publishes what mmc_init returned.
PlatformCallbackInitSlot ==
    /\ todo = <<>> /\ out = "running"
    /\ out' = "published"
    /\ UNCHANGED <<todo, ret, tries, cfg, host, card, drv>>

CardStep ==
    \/ mmc_reset_card \/ mmc_send_op_cond \/ SendIfCond \/ SendAppOpCond \/ Identify
    \/ SwitchHsTiming \/ mmc_set_bus_width \/ SwitchDdrWidth
    \/ SwitchHs200Timing \/ SwitchHs400Timing
    \/ HostSdr25 \/ HostDdr50 \/ HostSdr12 \/ HostSdr104
    \/ Clock400ForTuning \/ Tune \/ ClockBackTo200 \/ Hs400Clock \/ Hs400Tune
    \/ ReadRegisters \/ mmc_sd_set_hs \/ DecodeCsd \/ SetBusWidthAndMode
    \/ SetSdBusWidth \/ EnableRstN \/ PlatformCallbackInitSlot

(* Properties *)

\* A card that refused high speed is one mmc_sd_set_hs drives at 50 MHz all
\* the same; the properties below say what holds but for that.
Refused == card.sd /\ ~card.hs /\ host.uhs = "SDR25"

\* The clock never runs faster than the timing the card is in at that moment
\* allows, through every switch of card, host and clock driver and their
\* failures ("to ensure card receives no more than 200 MHZ", mmc_sdhci.c
\* 832-836).
ClockWithinLimit == host.caps.base > 0 /\ ~Refused => CardKHz(host) <= Limit(card)

\* Whenever data moves, and when the device is published, host and card agree
\* on width and mode.  The fallback to DDR puts the card on 8 lines whatever
\* the host has (mmc_sdhci.c 876), so a narrow host is left out there.
NarrowDdr == card.ddr /\ host.width # 8
BusAgrees ==
    (out = "published" \/ (todo # <<>> /\ Head(todo) \in {"ext_csd", "tuning", "hs400_tuning",
                                                          "scr", "ssr"}))
        => Agree(host, card) \/ NarrowDdr \/ Refused

\* The size of the published device is the card's, unless the sector count
\* has its top bit set (mmc_sdhci.c 205-218).
CapacityIsTheCards ==
    (out = "published" /\ (card.csd.form = "ext" => card.csd.sectors < 2 ^ (SecBits - 1)))
        => drv.blocks = card.blocks
=============================================================================
