----------------------------- MODULE MCPlatform -----------------------------
(***************************************************************************)
(* Platform with two channels and two peripherals, whose table may hold a  *)
(* channel or none; each function of the PMIC driver at the limits of its  *)
(* arguments; and two pins.                                                *)
(***************************************************************************)
EXTENDS Platform, TLC

McPeripherals == {<<0, 0>>, <<0, 1>>, <<1, 1>>}

Gpio == [f |-> "gpio_config", function |-> "FUNC_LOW", direction |-> "OUT", pull |-> "PULL_UP",
         vin_sel |-> "VIN2", out |-> "DRIVE_LOW"]
Without == {"set_boot_done", "gpio_get", "resin_s2_reset_enable", "v2_resin_status",
            "resin_status", "get_pwrkey_is_pressed", "ResetShutdown", "ResetCold", "ResetWarm",
            "ResetPlatformSpecific", "get_is_cold_boot", "clear_pmic_watchdog", "vib_turn_on",
            "vib_turn_off", "pm8xxx_is_battery_broken", "pmi8994_is_battery_broken"}
McCalls ==
    [f : Without]
    \cup {Gpio, [Gpio EXCEPT !.direction = "IN"],
          [sid |-> 2] @@ [Gpio EXCEPT !.f = "gpio_config_sid"],
          [f |-> "gpio_set", value |-> "FUNC_LOW"],
          [f |-> "lpg_write", off |-> "LPG_VALUE", val |-> 3],
          [f |-> "config_output_mpp", sid |-> 0, vin |-> "VIN2", mode |-> "HIGH"]}
    \cup [f : {"reset_configure", "pm8994_reset_configure"}, type : {"HARD_RESET"}]
    \cup [f : {"ldo_set_voltage"}, type : {"PLDO", "NLDO"}, voltage : {750000, 1537499}]
    \cup [f : {"ldo_set_voltage"}, type : {"PLDO"},
          voltage : {1537500, 3074999, 3075000, 4900000}]
    \cup [f : {"ldo_control", "enable_mvs", "diff_clock_ctrl", "chgr_ctl_enable", "pwm_enable"},
          on : BOOLEAN]
    \cup [f : {"enable_mpp", "wled_on"}, sid : {1, 2}, on : BOOLEAN]
    \cup [f : {"get_reason"}, reg : {"PON_REASON1", "POFF_REASON1", "POFF_REASON2", "REVISION4"}]
    \cup [f : {"iusb_max"}, ua : {99999, 100000, 100001, 150000, 200000, 500000, 2500000, 2500001}]
    \cup [f : {"ibat_max"}, ua : {99999, 100000, 149999, 3250000, 3250001}]
    \cup [f : {"vdd_max"}, uv : {3239999, 3240000, 4209999, 5790000}]
    \cup [f : {"adc_channel_read"}, chan : {6, 39, 49}]
    \cup [f : {"get_voltage_based_soc"}, cutoff : {3000000, 4200000}, vdd : {4200000}]
    \cup [f : {"enable_mpp_as_adc"}, mpp : {7, 8}]
    \cup [f : {"wled_config"}, sid : {1, 2}]
    \cup [f : {"pwm_config"}, duty : {0, 7, 3000000},
          period : {6, 7, 100, 20000, 47999999, 48000000, 200000000, 300000000, 384000000}]
McCodes == (6 :> 34000) @@ (9 :> 26000) @@ (10 :> 36000) @@ (14 :> 25000) @@ (15 :> 42000)
            @@ (39 :> 26001) @@ (49 :> 30000)
=============================================================================
