-------------------------------- MODULE Pmic --------------------------------
(***************************************************************************)
(* Pm8x41Dxe, and ResetSystemLib over it.  A function of the driver is a   *)
(* sequence of reads and writes of PMIC registers, each an SPMI command of *)
(* its own: written here as a program, run one command at a time.  The     *)
(* register functions ignore the result of a command, so a lost write      *)
(* changes nothing and a failed read gives 0.  A value is the set of the   *)
(* bits that are set, or holds one number.                                 *)
(***************************************************************************)
EXTENDS PmicMath, Sequences

CONSTANTS Calls,          \* the calls of a run, as records with a name in f
          Codes           \* what the converter makes of each channel

VARIABLES
    regs,                 \* the registers, by slave and name
    unlocked,             \* SEC_ACCESS was written: one secured register takes a write
    settled,              \* a reset that was disabled has been given its delay
    msm,                  \* PS_HOLD: {"up"}, or what the PMIC did when it dropped
    run                   \* the call: program, variables of the function, result
pvars == <<regs, unlocked, settled, msm, run>>

(* Programs *)

W(reg, val) == [op |-> "write", reg |-> reg, val |-> val]
R(reg) == [op |-> "read", reg |-> reg]
Or(bits) == [op |-> "or", bits |-> bits]
AndNot(bits) == [op |-> "andnot", bits |-> bits]
Put(reg) == [op |-> "put", reg |-> reg]
Save(reg) == [op |-> "save", reg |-> reg]
Restore(reg) == [op |-> "restore", reg |-> reg]
Test(bits) == [op |-> "test", bits |-> bits]
Delay == [op |-> "delay"]
Poll(reg, bits) == [op |-> "poll", reg |-> reg, bits |-> bits]
Return(value) == [op |-> "return", value |-> value]
PS_HOLD == [op |-> "ps_hold"]

SetBits(reg, bits) == <<R(reg), Or(bits), Put(reg)>>
ClearBits(reg, bits) == <<R(reg), AndNot(bits), Put(reg)>>
Num(n) == {<<"n", n>>}
Pon(name) == <<0, name>>

pm8x41_set_boot_done == SetBits(Pon("MISC_BOOT_DONE"), {"DONE"})

(* The pins *)

Functions == {"FUNC_LOW", "FUNC_HIGH"}
\* Mutant: the pin stays enabled while it is configured.
ConfigureEnabled(sid, c) ==
    <<W(<<sid, "GPIO_MODE">>, {c.function, c.direction}), W(<<sid, "GPIO_PULL">>, {c.pull}),
      W(<<sid, "GPIO_VIN">>, {c.vin_sel})>>
    \o (IF c.direction = "OUT" THEN <<W(<<sid, "GPIO_DIG_OUT">>, {c.out})>> ELSE <<>>)
    \o SetBits(<<sid, "GPIO_EN">>, {"EN"})
pm8x41_gpio_config_sid(sid, c) ==
    ClearBits(<<sid, "GPIO_EN">>, {"EN"})
    \o <<W(<<sid, "GPIO_MODE">>, {c.function, c.direction}), W(<<sid, "GPIO_PULL">>, {c.pull}),
         W(<<sid, "GPIO_VIN">>, {c.vin_sel})>>
    \o (IF c.direction = "OUT" THEN <<W(<<sid, "GPIO_DIG_OUT">>, {c.out})>> ELSE <<>>)
    \o SetBits(<<sid, "GPIO_EN">>, {"EN"})
pm8x41_gpio_config(c) == pm8x41_gpio_config_sid(0, c)
pm8x41_gpio_get_sid(sid) == <<R(<<sid, "GPIO_STATUS">>), Test({"VAL"})>>
pm8x41_gpio_get == pm8x41_gpio_get_sid(0)
pm8x41_gpio_set_sid(sid, value) ==
    <<R(<<sid, "GPIO_MODE">>), AndNot(Functions), Or({value}), Put(<<sid, "GPIO_MODE">>)>>
pm8x41_gpio_set(value) == pm8x41_gpio_set_sid(0, value)

(* Keys and resets *)

pm8x41_resin_s2_reset_enable ==
    <<W(Pon("RESIN_S2_CTL"), {}), Delay, W(Pon("RESIN_S1_TIMER"), Num(0)),
      W(Pon("RESIN_S2_TIMER"), Num(7)), W(Pon("RESIN_S2_CTL"), {"TYPE_WARM"})>>
    \o SetBits(Pon("RESIN_S2_CTL"), {"S2_RESET_EN"})
pm8x41_resin_s2_reset_disable == <<W(Pon("RESIN_S2_CTL"), {}), Delay>>
pm8x41_v2_resin_status ==
    pm8x41_resin_s2_reset_enable \o <<Delay, R(Pon("INT_RT_STS")), Test({"RESIN_BARK"})>>
    \o pm8x41_resin_s2_reset_disable
pm8x41_resin_status == <<R(Pon("INT_RT_STS")), Test({"RESIN_ON"})>>
pm8x41_get_pwrkey_is_pressed == <<R(Pon("INT_RT_STS")), Test({"KPDPWR_ON"})>>

\* Mutant: the type is written before the disable has kicked in.
ResetWithoutDelay(type) ==
    <<W(Pon("PS_HOLD_CTL"), {}), W(Pon("PS_HOLD_CTL"), {type})>>
    \o SetBits(Pon("PS_HOLD_CTL"), {"S2_RESET_EN"})
pm8x41_v2_reset_configure(type) ==
    <<W(Pon("PS_HOLD_CTL"), {}), Delay, W(Pon("PS_HOLD_CTL"), {type})>>
    \o SetBits(Pon("PS_HOLD_CTL"), {"S2_RESET_EN"})
pm8994_reset_configure(type) ==
    <<W(Pon("PS_HOLD_CTL2"), {}), Delay, W(Pon("PS_HOLD_CTL"), {type}),
      W(<<2, "PS_HOLD_CTL">>, {type}), W(Pon("PS_HOLD_CTL2"), {"S2_RESET_EN"})>>
pm8x41_reset_configure(type) ==
    <<W(Pon("PS_HOLD_CTL2"), {}), Delay, W(Pon("PS_HOLD_CTL"), {type}),
      W(Pon("PS_HOLD_CTL2"), {"S2_RESET_EN"})>>

shutdown_device == pm8x41_v2_reset_configure("SHUTDOWN") \o <<PS_HOLD>>
reboot_device(reason) ==
    pm8x41_v2_reset_configure(IF reason \in {"FASTBOOT", "DLOAD", "RECOVERY"}
                              THEN "WARM_RESET" ELSE "HARD_RESET") \o <<PS_HOLD>>
ResetCold == reboot_device("0")
ResetWarm == ResetCold
ResetPlatformSpecific == ResetCold

(* Regulators, PWM channels, watchdog and other single settings *)

pm8x41_ldo_set_voltage(type, voltage) ==
    LET range == LdoRange(type, voltage) IN
    <<W(<<1, "LDO_POWER_MODE">>, {"NORMAL"}), W(<<1, "LDO_RANGE">>, Num(range)),
      W(<<1, "LDO_STEP">>, Num(LdoMult(range, voltage)))>>
pm8x41_ldo_control(enable) == <<W(<<1, "LDO_EN">>, IF enable THEN {"EN"} ELSE {})>>
pm8x41_lpg_write_sid(sid, off, val) == <<W(<<sid, off>>, Num(val))>>
pm8x41_lpg_write(off, val) == pm8x41_lpg_write_sid(1, off, val)
pm8x41_get_pon_reason(reg) == <<R(Pon(reg)), Test({"BIT"})>>
pm8x41_enable_mvs(enable) == <<W(<<1, "MVS_EN">>, IF enable THEN {"EN"} ELSE {})>>
pm8x41_enable_mpp(sid, enable) == <<W(<<sid, "MPP_EN">>, IF enable THEN {"EN"} ELSE {})>>
pm8x41_config_output_mpp(sid, vin, mode) ==
    <<W(<<sid, "MPP_VIN">>, {vin}), W(<<sid, "MPP_MODE">>, {mode, "DIGITAL_OUTPUT"})>>
\* The second register is read only when the first says nothing.  A result of
\* 1 stands for the warm boot that the function returns as 0.
pm8x41_get_is_cold_boot ==
    <<R(Pon("WARMBOOT1")), Test({"WARM"}), [op |-> "stop_if"], R(Pon("WARMBOOT2")),
      Test({"WARM"})>>
pm8x41_diff_clock_ctrl(enable) ==
    IF enable THEN SetBits(Pon("DIFF_CLK1_EN"), {"EN"}) ELSE ClearBits(Pon("DIFF_CLK1_EN"), {"EN"})
pm8x41_clear_pmic_watchdog == <<W(Pon("WD_RESET_S2_CTL2"), {})>>

pm_vib_turn_on ==
    <<R(<<1, "VIB_VTG">>), AndNot({"LVL_LOW", "LVL_22"}), Or({"LVL_22"}), Put(<<1, "VIB_VTG">>)>>
    \o SetBits(<<1, "VIB_EN">>, {"EN"})
pm_vib_turn_off == ClearBits(<<1, "VIB_EN">>, {"EN"})

(* Charger and battery *)

Smbb(name) == <<0, name>>
\* Each secured register needs an unlock of its own.  The override of the
\* comparator is not taken back, and VCP is enabled whether it was or not.
pm8xxx_is_battery_broken ==
    <<Save(Smbb("IBAT_ATC")), Save(Smbb("VBAT_DET")),
      W(Smbb("IBAT_ATC"), Num(0)), W(Smbb("VBAT_DET"), Num(53)),
      W(Smbb("SEC_ACCESS"), {"UNLOCK"}), W(Smbb("COMP_OVR0"), {"DIS_VTRKL_FAULT"}),
      W(Smbb("VCP"), {}),
      W(Smbb("SEC_ACCESS"), {"UNLOCK"}), W(Smbb("TRKL_CHG_TEST"), {"FORCED_ON"}), Delay,
      R(Smbb("VBAT_IN_TSTS")), Test({"VBAT_DET_HI"}),
      W(Smbb("SEC_ACCESS"), {"UNLOCK"}), W(Smbb("TRKL_CHG_TEST"), {}),
      W(Smbb("VCP"), {"ENABLE"}), Restore(Smbb("IBAT_ATC")), Restore(Smbb("VBAT_DET"))>>
pmi8994_is_battery_broken ==
    ClearBits(<<2, "TRIM_OPTIONS">>, {"POLLER_EN"}) \o ClearBits(<<2, "CHGR_CFG2">>, {"TERM_EN"})
    \o <<Save(<<2, "FCC_CFG">>), W(<<2, "FCC_CFG">>, Num(0)), W(<<2, "FV_CFG">>, Num(63)), Delay,
         R(<<2, "INT_RT_STS">>), Test({"TAPER"}), W(<<2, "FV_CFG">>, Num(43))>>
    \o SetBits(<<2, "CHGR_CFG2">>, {"TERM_EN"}) \o <<Restore(<<2, "FCC_CFG">>)>>
    \o SetBits(<<2, "TRIM_OPTIONS">>, {"POLLER_EN"})

Limit(reg, mul) == IF mul = -1 THEN <<Return(-1)>> ELSE <<W(Smbb(reg), Num(mul)), Return(0)>>
pm8x41_iusb_max_config(current) == Limit("IUSB_MAX", iusb_max(current))
pm8x41_ibat_max_config(current) == Limit("IBAT_MAX", ibat_max(current))
pm8x41_chgr_vdd_max_config(vol) == Limit("VDD_MAX", vdd_max(vol))
\* BOOT_DONE is written, not set: the other bits of the register are cleared.
pm8x41_chgr_ctl_enable(enable) ==
    IF enable THEN <<W(Smbb("CHG_CTRL"), {"EN"}), W(Smbb("MISC_BOOT_DONE"), {"DONE"})>>
              ELSE <<W(Smbb("CHG_CTRL"), {})>>

(* The converter *)

\* The reading goes to the variables of the function, one after the other.
adc_measure ==
    <<W(Smbb("VADC_CONV_REQ"), {"REQ"}), Poll(Smbb("VADC_STATUS"), {"EOC"}),
      [op |-> "sample"]>>
adc_configure(chan) ==
    <<W(Smbb("VADC_MODE"), Num(0)), W(Smbb("VADC_CHAN_SEL"), Num(chan)),
      W(Smbb("VADC_EN"), {"EN"})>> \o adc_measure \o <<W(Smbb("VADC_EN"), {"LOW_BITS"})>>
pm8x41_adc_channel_read(ch) ==
    LET conf == get_channel_prop(ch) refs == ReferenceChannels(conf.calib) IN
    adc_configure(conf.chan) \o adc_configure(refs[1]) \o adc_configure(refs[2])
    \o <<[op |-> "calibrate", calib |-> conf.calib]>>
pm8x41_get_batt_voltage == pm8x41_adc_channel_read(6)
pm8x41_get_voltage_based_soc(cutoff, vdd) ==
    pm8x41_get_batt_voltage \o <<[op |-> "soc", cutoff |-> cutoff, vdd |-> vdd]>>
pm8x41_enable_mpp_as_adc(mpp_num) ==
    IF mpp_num > 7 THEN <<>>
    ELSE <<W(<<0, "MPP_MODE">>, {"AIN", "OUT_INVERT"}), W(<<0, "MPP_EN">>, {"EN"}),
           W(<<0, "MPP_AIN">>, {"ROUTE_AMUX3"})>>

(* The backlight *)

\* The addresses of the last two registers hold slave 1 already.
pm8x41_wled_config(sid) ==
    <<W(<<sid, "WLED_BRIGHTNESS">>, {"CONFIGURED"}), W(<<sid, "WLED_FULL_SCALE">>, {"CONFIGURED"}),
      W(<<sid + 1, "LAB_CURRENT_SENSE">>, Num(10)), W(<<sid + 1, "LAB_PS_CTL">>, Num(128))>>
pm8x41_wled_sink_control(sid, on) == <<W(<<sid, "WLED_SINK">>, IF on THEN {"EN"} ELSE {})>>
pm8x41_wled_iled_sync_control(sid, on) == <<W(<<sid, "WLED_SYNC">>, IF on THEN {"EN"} ELSE {})>>
pm8x41_wled_led_mod_enable(sid, on) == <<W(<<sid, "WLED_MOD">>, IF on THEN {"EN"} ELSE {})>>
pm8x41_wled_enable(sid, on) == <<W(<<sid, "WLED_EN">>, IF on THEN {"EN"} ELSE {})>>

(* The PWM *)

pm_pwm_config(duty_us, period_us) ==
    LET best == pm_pwm_calc_period(period_us)
        size == PwmSize(period_us)
    IN
    IF PwmRefused(duty_us, period_us) THEN <<Return(-1)>>
    ELSE <<W(<<1, "PWM_SIZE_CLK">>, {<<"size", size>>, <<"clk", best.clk + 1>>}),
           W(<<1, "PWM_PREDIV">>, {<<"div", best.div>>, <<"m", best.m>>}),
           W(<<1, "PWM_VALUE">>, Num(pm_pwm_calc_pwm_value(size, period_us, duty_us))),
           W(<<1, "PWM_SYNC">>, {"SYNC"}), Return(0)>>
pm_pwm_enable(on) == <<W(<<1, "PWM_EN">>, IF on THEN {"EN"} ELSE {})>>

\* The type of a reset is not the bit that enables it; the callers of
\* pm8x41_ldo_set_voltage stay above the regulator's lowest voltage and within
\* what its register holds; a channel is one of the table's.  The converter
\* stays in the range it is read in, and a channel above its reference.
Channels == {adc_data[i].chan : i \in 1..3}
CodesAssumption ==
    /\ \A chan \in Channels \cup {9, 10, 14, 15} :
          Codes[chan] \in Int /\ adc_limit_result_range(Codes[chan]) = Codes[chan]
    /\ Codes[9] < Codes[10]
    /\ \A chan \in Channels : Codes[9] <= Codes[chan]
CallsAssumption ==
    \A c \in Calls :
        /\ c.f # "none"
        /\ c.f = "gpio_config_sid" => c.sid \in 0..2
        /\ c.f \in {"reset_configure", "pm8994_reset_configure"} => c.type # "S2_RESET_EN"
        /\ c.f = "adc_channel_read" => c.chan \in Channels
        /\ c.f = "ldo_set_voltage" =>
              /\ c.type \in {"PLDO", "NLDO"} /\ c.voltage \in Nat
              /\ LdoMult(LdoRange(c.type, c.voltage), c.voltage) \in 0..255

Program(c) ==
    CASE c.f = "set_boot_done" -> pm8x41_set_boot_done
      [] c.f = "gpio_config" -> pm8x41_gpio_config(c)
      [] c.f = "gpio_config_sid" -> pm8x41_gpio_config_sid(c.sid, c)
      [] c.f = "gpio_get" -> pm8x41_gpio_get
      [] c.f = "gpio_set" -> pm8x41_gpio_set(c.value)
      [] c.f = "resin_s2_reset_enable" -> pm8x41_resin_s2_reset_enable
      [] c.f = "v2_resin_status" -> pm8x41_v2_resin_status
      [] c.f = "resin_status" -> pm8x41_resin_status
      [] c.f = "get_pwrkey_is_pressed" -> pm8x41_get_pwrkey_is_pressed
      [] c.f = "reset_configure" -> pm8x41_reset_configure(c.type)
      [] c.f = "pm8994_reset_configure" -> pm8994_reset_configure(c.type)
      [] c.f = "ResetShutdown" -> shutdown_device
      [] c.f = "ResetCold" -> ResetCold
      [] c.f = "ResetWarm" -> ResetWarm
      [] c.f = "ResetPlatformSpecific" -> ResetPlatformSpecific
      [] c.f = "ldo_set_voltage" -> pm8x41_ldo_set_voltage(c.type, c.voltage)
      [] c.f = "ldo_control" -> pm8x41_ldo_control(c.on)
      [] c.f = "lpg_write" -> pm8x41_lpg_write(c.off, c.val)
      [] c.f = "get_reason" -> pm8x41_get_pon_reason(c.reg)
      [] c.f = "enable_mvs" -> pm8x41_enable_mvs(c.on)
      [] c.f = "enable_mpp" -> pm8x41_enable_mpp(c.sid, c.on)
      [] c.f = "config_output_mpp" -> pm8x41_config_output_mpp(c.sid, c.vin, c.mode)
      [] c.f = "get_is_cold_boot" -> pm8x41_get_is_cold_boot
      [] c.f = "diff_clock_ctrl" -> pm8x41_diff_clock_ctrl(c.on)
      [] c.f = "clear_pmic_watchdog" -> pm8x41_clear_pmic_watchdog
      [] c.f = "vib_turn_on" -> pm_vib_turn_on
      [] c.f = "vib_turn_off" -> pm_vib_turn_off
      [] c.f = "pm8xxx_is_battery_broken" -> pm8xxx_is_battery_broken
      [] c.f = "pmi8994_is_battery_broken" -> pmi8994_is_battery_broken
      [] c.f = "iusb_max" -> pm8x41_iusb_max_config(c.ua)
      [] c.f = "ibat_max" -> pm8x41_ibat_max_config(c.ua)
      [] c.f = "vdd_max" -> pm8x41_chgr_vdd_max_config(c.uv)
      [] c.f = "chgr_ctl_enable" -> pm8x41_chgr_ctl_enable(c.on)
      [] c.f = "adc_channel_read" -> pm8x41_adc_channel_read(c.chan)
      [] c.f = "get_voltage_based_soc" -> pm8x41_get_voltage_based_soc(c.cutoff, c.vdd)
      [] c.f = "enable_mpp_as_adc" -> pm8x41_enable_mpp_as_adc(c.mpp)
      [] c.f = "wled_config" -> pm8x41_wled_config(c.sid)
      [] c.f = "wled_on" -> pm8x41_wled_led_mod_enable(c.sid, c.on)
                            \o pm8x41_wled_sink_control(c.sid, c.on)
                            \o pm8x41_wled_enable(c.sid, c.on)
                            \o pm8x41_wled_iled_sync_control(c.sid, c.on)
      [] c.f = "pwm_config" -> pm_pwm_config(c.duty, c.period)
      [] c.f = "pwm_enable" -> pm_pwm_enable(c.on)

(* The registers *)

Secured == {Smbb("COMP_OVR0"), Smbb("TRKL_CHG_TEST")}
ResetCtl == {Pon("PS_HOLD_CTL"), Pon("RESIN_S2_CTL")}
Registers ==
    ({0, 1, 2} \X {"GPIO_EN", "GPIO_MODE", "GPIO_PULL", "GPIO_VIN", "GPIO_DIG_OUT", "GPIO_STATUS",
                   "MPP_EN", "MPP_MODE", "MPP_VIN", "MPP_AIN", "WLED_BRIGHTNESS",
                   "WLED_FULL_SCALE", "WLED_SINK", "WLED_SYNC", "WLED_MOD", "WLED_EN",
                   "PS_HOLD_CTL", "LPG_VALUE"})
    \cup ({0} \X {"MISC_BOOT_DONE", "RESIN_S1_TIMER", "RESIN_S2_TIMER", "RESIN_S2_CTL",
                  "INT_RT_STS", "PS_HOLD_CTL2", "WARMBOOT1", "WARMBOOT2", "PON_REASON1",
                  "POFF_REASON1", "POFF_REASON2", "REVISION4", "DIFF_CLK1_EN",
                  "WD_RESET_S2_CTL2", "IBAT_ATC", "VBAT_DET", "COMP_OVR0", "VCP",
                  "TRKL_CHG_TEST", "VBAT_IN_TSTS", "IUSB_MAX", "IBAT_MAX", "VDD_MAX", "CHG_CTRL",
                  "VADC_CONV_REQ", "VADC_MODE", "VADC_CHAN_SEL", "VADC_EN"})
    \cup ({1} \X {"LDO_POWER_MODE", "LDO_RANGE", "LDO_STEP", "LDO_EN", "MVS_EN", "VIB_VTG",
                  "VIB_EN", "PWM_SIZE_CLK", "PWM_PREDIV", "PWM_VALUE", "PWM_SYNC", "PWM_EN"})
    \cup ({2} \X {"TRIM_OPTIONS", "CHGR_CFG2", "FCC_CFG", "FV_CFG", "INT_RT_STS"})
    \cup ({2, 3} \X {"LAB_CURRENT_SENSE", "LAB_PS_CTL"})

\* What was there before: nothing, or a configured and enabled device.  The
\* reset is enabled in one of the two places the kinds of PMIC have it.
Configured ==
    [r \in Registers |->
        CASE r[2] = "GPIO_MODE" -> {"FUNC_HIGH", "IN"} [] r[2] = "GPIO_PULL" -> {"PULLDOWN"}
          [] r[2] = "RESIN_S2_CTL" -> {"TYPE_HARD", "S2_RESET_EN"}
          [] r[2] = "PS_HOLD_CTL" -> {"WARM_RESET"} [] r[2] = "PS_HOLD_CTL2" -> {}
          [] r[2] = "INT_RT_STS" -> {"RESIN_BARK", "RESIN_ON", "KPDPWR_ON", "TAPER"}
          [] r[2] \in {"IBAT_ATC", "VBAT_DET", "FCC_CFG", "FV_CFG"} -> Num(7)
          [] r[2] = "VBAT_IN_TSTS" -> {"VBAT_DET_HI", "OTHER"}
          [] r[2] = "CHGR_CFG2" -> {"TERM_EN", "OTHER"} [] r[2] = "TRIM_OPTIONS" -> {"OTHER"}
          [] r[2] = "VADC_CHAN_SEL" -> Num(6)
          [] r[2] \in {"TRKL_CHG_TEST", "COMP_OVR0"} -> {}
          [] r[2] = "GPIO_STATUS" -> {"VAL", "OTHER"} [] r[2] = "VIB_VTG" -> {"LVL_LOW", "OTHER"}
          [] r[2] = "WARMBOOT2" -> {"WARM"} [] r[2] = "WARMBOOT1" -> {}
          [] OTHER -> {"EN", "BIT", "ENABLE"}]
Blank == [r \in Registers |-> {}]
Armed(where) == [Configured EXCEPT ![Pon(where)] = @ \cup {"S2_RESET_EN"}]

EnabledIn(rs, reg) ==
    \/ "S2_RESET_EN" \in rs[reg]
    \/ reg = Pon("PS_HOLD_CTL") /\ "S2_RESET_EN" \in rs[Pon("PS_HOLD_CTL2")]
Off(reg) == ~EnabledIn(regs, reg) /\ reg \in settled

\* A secured register needs the unlock; the type of a reset changes only while
\* the reset is off and the delay has passed.
Written(reg, val) ==
    CASE reg \in Secured /\ ~unlocked -> regs
      [] reg \in ResetCtl /\ ~Off(reg) ->
            [regs EXCEPT ![reg] = (@ \ {"S2_RESET_EN"}) \cup (val \cap {"S2_RESET_EN"})]
      [] reg[2] = "SEC_ACCESS" -> regs
      [] OTHER -> [regs EXCEPT ![reg] = val]
RegWrite(reg, val, lost) ==
    LET now == Written(reg, val) IN
    IF lost THEN UNCHANGED <<regs, unlocked, settled>>
    ELSE /\ regs' = now
         /\ unlocked' = IF reg[2] = "SEC_ACCESS" THEN TRUE
                        ELSE unlocked /\ reg \notin Secured
         /\ settled' = settled \ {r \in ResetCtl : EnabledIn(regs, r) /\ ~EnabledIn(now, r)}

NoRun == [call |-> [f |-> "none"], prog |-> <<>>, acc |-> {}, saved |-> Blank, vars |-> <<>>,
          result |-> 0, failed |-> FALSE, before |-> Blank]
Init ==
    /\ regs \in {Blank, Armed("PS_HOLD_CTL"), Armed("PS_HOLD_CTL2")}
    /\ unlocked = FALSE /\ msm = {"up"} /\ run = NoRun
    /\ settled = {r \in ResetCtl : ~EnabledIn(regs, r)}

\* A PMIC has the reset enable in one place.
Suits(c) ==
    /\ c.f \in {"reset_configure", "pm8994_reset_configure"}
           => "S2_RESET_EN" \notin regs[Pon("PS_HOLD_CTL")]
    /\ c.f \in {"ResetShutdown", "ResetCold", "ResetWarm", "ResetPlatformSpecific"}
           => "S2_RESET_EN" \notin regs[Pon("PS_HOLD_CTL2")]
Start(c) ==
    /\ run = NoRun /\ Suits(c)
    /\ run' = [NoRun EXCEPT !.call = c, !.prog = Program(c), !.before = regs]
    /\ UNCHANGED <<regs, unlocked, settled, msm>>

(* One step of the program *)

Number(reg) == (CHOOSE v \in regs[reg] : TRUE)[2]
Reading(reg, lost) == IF lost THEN {} ELSE regs[reg]
Next(change) == run' = [change EXCEPT !.prog = Tail(@)]
Losing(lost) == [run EXCEPT !.failed = @ \/ lost]

Command(lost) ==
    LET s == Head(run.prog) IN
    /\ run.prog # <<>> /\ UNCHANGED msm
    /\ \/ /\ s.op = "write" /\ RegWrite(s.reg, s.val, lost) /\ Next(Losing(lost))
       \/ /\ s.op = "put" /\ RegWrite(s.reg, run.acc, lost) /\ Next(Losing(lost))
       \/ /\ s.op = "restore" /\ RegWrite(s.reg, run.saved[s.reg], lost) /\ Next(Losing(lost))
       \/ /\ s.op = "read" /\ Next([Losing(lost) EXCEPT !.acc = Reading(s.reg, lost)])
          /\ UNCHANGED <<regs, unlocked, settled>>
       \/ /\ s.op = "save"
          /\ Next([Losing(lost) EXCEPT !.saved[s.reg] = Reading(s.reg, lost)])
          /\ UNCHANGED <<regs, unlocked, settled>>
       \/ /\ s.op = "sample"
          /\ Next([Losing(lost) EXCEPT !.vars = Append(@, adc_limit_result_range(
                     IF lost \/ regs[Smbb("VADC_CHAN_SEL")] = {} THEN 0
                     ELSE Codes[Number(Smbb("VADC_CHAN_SEL"))]))])
          /\ UNCHANGED <<regs, unlocked, settled>>

\* The conversion ends only when it was requested of an enabled converter.
Wait ==
    LET s == Head(run.prog) IN
    /\ run.prog # <<>>
    /\ \/ s.op = "delay" /\ settled' = ResetCtl /\ UNCHANGED msm
       \/ /\ s.op = "poll" /\ "EN" \in regs[Smbb("VADC_EN")]
          /\ "REQ" \in regs[Smbb("VADC_CONV_REQ")] /\ UNCHANGED <<settled, msm>>
       \/ /\ s.op = "ps_hold" /\ UNCHANGED settled
          /\ msm' = IF EnabledIn(regs, Pon("PS_HOLD_CTL"))
                    THEN (regs[Pon("PS_HOLD_CTL")] \ {"S2_RESET_EN"}) ELSE msm
    /\ Next(run) /\ UNCHANGED <<regs, unlocked>>

Flag(b) == IF b THEN 1 ELSE 0
Compute ==
    LET s == Head(run.prog) IN
    /\ run.prog # <<>>
    /\ \/ s.op = "or" /\ Next([run EXCEPT !.acc = @ \cup s.bits])
       \/ s.op = "andnot" /\ Next([run EXCEPT !.acc = @ \ s.bits])
       \/ s.op = "test" /\ Next([run EXCEPT !.result = Flag(run.acc \cap s.bits # {})])
       \/ s.op = "return" /\ Next([run EXCEPT !.result = s.value])
       \/ /\ s.op = "stop_if"
          /\ IF run.result = 1 THEN run' = [run EXCEPT !.prog = <<>>] ELSE Next(run)
       \/ /\ s.op = "calibrate" /\ run.vars[2] # run.vars[3]
          /\ Next([run EXCEPT !.result =
                     vadc_calibrate(run.vars[1], s.calib, run.vars[2], run.vars[3])])
       \/ /\ s.op = "soc"
          /\ Next([run EXCEPT !.result = voltage_based_soc(run.result, s.cutoff, s.vdd)])
    /\ UNCHANGED <<regs, unlocked, settled, msm>>

PmicStep ==
    \/ \E c \in Calls : Start(c)
    \/ \E lost \in IF run.failed THEN {FALSE} ELSE BOOLEAN : Command(lost)
    \/ Wait \/ Compute

(* Properties *)

Returned == run.call.f # "none" /\ run.prog = <<>> /\ ~run.failed
Same(rs) == \A r \in rs : regs[r] = run.before[r]

GpioRegs(sid) == {sid} \X {"GPIO_MODE", "GPIO_PULL", "GPIO_VIN"}
GpioAsAsked(sid, c) ==
    /\ regs[<<sid, "GPIO_MODE">>] = {c.function, c.direction}
    /\ regs[<<sid, "GPIO_PULL">>] = {c.pull} /\ regs[<<sid, "GPIO_VIN">>] = {c.vin_sel}
    /\ c.direction = "OUT" => regs[<<sid, "GPIO_DIG_OUT">>] = {c.out}

ResetArmed(type) ==
    /\ EnabledIn(regs, Pon("PS_HOLD_CTL"))
    /\ regs[Pon("PS_HOLD_CTL")] \ {"S2_RESET_EN"} = {type}

Volts(range, mult) == LdoVmin(range) + LdoStep(range) * mult
\* The limit in force: the hardware's reading of a multiplier.
Amps(n) == CASE n = 0 -> 100000 [] n = 1 -> 150000 [] OTHER -> 100000 * n

Ideal(code, high, low, gap, base) == 
    base + 100 * (((code - low) * (gap \div 100)) \div (high - low))

CurrentLimited(c) ==
    \/ Amps(Number(Smbb("IUSB_MAX"))) <= c.ua
    \/ c.ua < 150000 /\ Number(Smbb("IUSB_MAX")) = 1
ReadingWithin(c) ==
    LET exact == 3 * Ideal(Codes[c.chan], Codes[10], Codes[9], 625000, 625000)
    IN  Abs(run.result - exact) <= 3 * (Codes[c.chan] - Codes[9] + 100)
\* From 274.9 s on the period in ns over 64 does not fit into 32 bits.
PeriodWraps(period_us) == period_us >= 274877952
\* The period in ns over the steps of a size, rounded down.
TruePeriodN(period_us, size) ==
    IF size = 9 THEN (period_us \div 64) * 125 + ((period_us % 64) * 125) \div 64
                ELSE (period_us \div 8) * 125 + ((period_us % 8) * 125) \div 8
PwmSetting(reg, k) == (CHOOSE v \in regs[<<1, reg>>] : v[1] = k)[2]
\* A long period loses up to a microsecond when it is divided first.
Lost(period_us) == IF period_us < 4294967 THEN 0 ELSE 1000
PeriodBest(c) ==
    LET n == TruePeriodN(c.period, PwmSetting("PWM_SIZE_CLK", "size"))
        chosen == Err(n, PwmSetting("PWM_SIZE_CLK", "clk") - 1, PwmSetting("PWM_PREDIV", "div"),
                      PwmSetting("PWM_PREDIV", "m"))
    IN  PeriodWraps(c.period)
        \/ \A s \in Settings : chosen <= Err(n, s.clk, s.div, s.m) + 2 * Lost(c.period)

\* What a call of which no command failed has done when it returns: a reset is
\* armed with the type asked for and dropping PS_HOLD resets that way, the key
\* that bites is off again, a battery test leaves the charger as it was but
\* for the settings it cannot know, a pin is enabled as asked, a voltage or a
\* limit is the nearest that does not exceed the one asked for (an input
\* current between 100 and 150 mA is raised to 150), a reading is the
\* channel's within the rounding of the gain, a PWM period is the closest any
\* setting of its size makes, within the rounding of the period, unless that
\* wraps (pm8x41.c, pm8x41_adc.c, pm_pwm.c).
PmicPost ==
    Returned =>
    LET c == run.call IN
    CASE c.f \in {"reset_configure", "pm8994_reset_configure"} -> ResetArmed(c.type)
      [] c.f \in {"ResetCold", "ResetWarm", "ResetPlatformSpecific"} -> msm = {"HARD_RESET"}
      [] c.f = "ResetShutdown" -> msm = {"SHUTDOWN"}
      [] c.f = "resin_s2_reset_enable" -> regs[Pon("RESIN_S2_CTL")] = {"TYPE_WARM", "S2_RESET_EN"}
      [] c.f = "v2_resin_status" -> /\ "S2_RESET_EN" \notin regs[Pon("RESIN_S2_CTL")]
                                    /\ run.result = Flag("RESIN_BARK" \in regs[Pon("INT_RT_STS")])
      [] c.f = "pm8xxx_is_battery_broken" ->
            /\ Same({0} \X {"IBAT_ATC", "VBAT_DET", "TRKL_CHG_TEST", "CHG_CTRL"})
            /\ run.result = Flag("VBAT_DET_HI" \in regs[Smbb("VBAT_IN_TSTS")])
      [] c.f = "pmi8994_is_battery_broken" ->
            /\ Same({<<2, "FCC_CFG">>})
            /\ "TERM_EN" \in regs[<<2, "CHGR_CFG2">>] /\ "POLLER_EN" \in regs[<<2, "TRIM_OPTIONS">>]
      [] c.f = "gpio_config" -> GpioAsAsked(0, c) /\ "EN" \in regs[<<0, "GPIO_EN">>]
      [] c.f = "gpio_config_sid" ->
            /\ GpioAsAsked(c.sid, c) /\ "EN" \in regs[<<c.sid, "GPIO_EN">>]
            /\ \A sid \in 0..2 \ {c.sid} : Same(GpioRegs(sid))
      [] c.f = "gpio_set" -> regs[<<0, "GPIO_MODE">>] =
                                 (run.before[<<0, "GPIO_MODE">>] \ Functions) \cup {c.value}
      [] c.f = "get_is_cold_boot" ->
            run.result = Flag("WARM" \in regs[Pon("WARMBOOT1")] \cup regs[Pon("WARMBOOT2")])
      [] c.f = "ldo_set_voltage" ->
            LET range == Number(<<1, "LDO_RANGE">>) IN
            c.voltage - Volts(range, Number(<<1, "LDO_STEP">>)) \in 0..LdoStep(range) - 1
      [] c.f = "iusb_max" /\ run.result = 0 -> CurrentLimited(c)
      [] c.f = "ibat_max" /\ run.result = 0 ->
            c.ua - (BAT.min + BAT.step * Number(Smbb("IBAT_MAX"))) \in 0..BAT.step - 1
      [] c.f = "vdd_max" /\ run.result = 0 ->
            c.uv - (VDD.min + VDD.step * Number(Smbb("VDD_MAX"))) \in 0..VDD.step - 1
      [] c.f = "adc_channel_read" /\ get_channel_prop(c.chan).calib = "ABS" -> ReadingWithin(c)
      [] c.f = "pwm_config" /\ run.result = 0 -> PeriodBest(c)
      [] OTHER -> TRUE

\* Between two commands a pin is enabled only with the settings it had or with
\* those asked for, and a reset is enabled only with a whole type: pins and
\* resets are disabled before they change (pm8x41.c 115-141, 334-392).
NeverHalfConfigured ==
    run.call.f # "none" /\ ~run.failed =>
        /\ \A sid \in 0..2 :
              "EN" \in regs[<<sid, "GPIO_EN">>]
                  /\ run.call.f \in {"gpio_config", "gpio_config_sid"} =>
              Same(GpioRegs(sid)) \/ GpioAsAsked(sid, run.call)
        /\ run.call.f \in {"reset_configure", "pm8994_reset_configure"}
                /\ EnabledIn(regs, Pon("PS_HOLD_CTL")) =>
              ResetArmed(run.call.type) \/ Same({Pon("PS_HOLD_CTL"), Pon("PS_HOLD_CTL2")})
=============================================================================
