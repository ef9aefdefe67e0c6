------------------------------ MODULE PmicMath ------------------------------
(***************************************************************************)
(* What the PMIC functions compute before they write it: regulator         *)
(* settings, current and voltage limits, calibrated readings and the       *)
(* period of the PWM.  Voltages in uV, currents in uA, clock periods in ns.*)
(***************************************************************************)
EXTENDS Integers, FiniteSets

(* pm8x41_ldo_set_voltage *)

PLDO_UV_MIN == 1537500
PDLO_UV_MID == 3075000
LdoRange(type, voltage) ==
    CASE type = "NLDO" \/ voltage < PLDO_UV_MIN -> 2
      [] type = "PLDO" /\ PLDO_UV_MIN <= voltage /\ voltage < PDLO_UV_MID -> 3
      [] OTHER -> 4
LdoVmin(range) == CASE range = 2 -> 750000 [] range = 3 -> 1500000 [] range = 4 -> 1750000
LdoStep(range) == CASE range = 2 -> 12500 [] range = 3 -> 25000 [] range = 4 -> 50000
\* Below LdoVmin the unsigned difference wraps: the callers stay above.
LdoMult(range, voltage) == (voltage - LdoVmin(range)) \div LdoStep(range)

(* The limits of the charger: what is written, -1 when it is refused *)

USB == [min |-> 100000, max |-> 2500000, step |-> 100000]
BAT == [min |-> 100000, max |-> 3250000, step |-> 50000]
VDD == [min |-> 3240000, max |-> 5790000, step |-> 10000]
iusb_max(current) ==
    CASE current \notin USB.min..USB.max -> -1
      [] current = 100000 -> 0
      [] current = 150000 -> 1
      [] OTHER -> current \div USB.step
ibat_max(current) ==
    IF current \in BAT.min..BAT.max THEN (current - BAT.min) \div BAT.step ELSE -1
vdd_max(vol) ==
    IF vol \in VDD.min..VDD.max THEN (vol - VDD.min) \div VDD.step ELSE -1

(* The converter *)

adc_data == <<[chan |-> 49, calib |-> "RATIO"], [chan |-> 6, calib |-> "ABS"],
              [chan |-> 39, calib |-> "ABS"]>>
\* The last entry for a channel that has none: the result is never NULL.
get_channel_prop(ch_num) ==
    LET Of == {i \in 1..3 : adc_data[i].chan = ch_num}
    IN  adc_data[IF Of = {} THEN 3 ELSE CHOOSE i \in Of : \A j \in Of : i <= j]

adc_limit_result_range(code) ==
    IF code < 24576 THEN 24576 ELSE IF code > 43008 THEN 43008 ELSE code

\* The references are measured on their channels; equal codes divide by zero.
ReferenceChannels(calib) == IF calib = "ABS" THEN <<10, 9>> ELSE <<15, 14>>
vadc_calibrate(code, calib, high, low) ==
    IF calib = "ABS" THEN 3 * ((code - low) * (625000 \div (high - low)) + 625000)
                     ELSE (code - low) * (1800000 \div (high - low))

\* 0 without a reading or with a cutoff that is too high.  The difference wraps
\* for a battery below the cutoff.
voltage_based_soc(batt_vol, cutoff_vol, vdd) ==
    IF batt_vol = 0 \/ cutoff_vol >= vdd THEN 0
    ELSE ((batt_vol - cutoff_vol) * 100) \div (vdd - cutoff_vol)

(* pm_pwm_config *)

Clk == 0..2
Div == 0..3
ClockPeriod == [c \in Clk |-> CASE c = 0 -> 976562 [] c = 1 -> 30517 [] c = 2 -> 52]
PreDivide == [d \in Div |-> CASE d = 0 -> 1 [] d = 1 -> 3 [] d = 2 -> 5 [] d = 3 -> 6]
pt_t(d, c) == PreDivide[d] * ClockPeriod[c]

Abs(x) == IF x < 0 THEN -x ELSE x
Doubled == <<1, 2, 4, 8, 16, 32, 64, 128>>
Err(period_n, c, d, m) == Abs(period_n - pt_t(d, c) * Doubled[m + 1])

\* The exponents the inner loop tries: it stops behind one that was worse.
Tried(period_n, c, d) ==
    {m \in 0..7 : \A k \in 1..m - 1 :
        Err(period_n, c, d, k) <= Err(period_n, c, d, k - 1)}
Settings == [clk : Clk, div : Div, m : 0..7]
Before(s, t) ==
    \/ s.clk < t.clk
    \/ s.clk = t.clk /\ s.div < t.div
    \/ s.clk = t.clk /\ s.div = t.div /\ s.m < t.m

\* In 32 bits: a short period is multiplied with 1000 and divided by 64, a long
\* one divided first.  Its product wraps; as 1000 is 8 times 125, this is an
\* eighth of it modulo an eighth of 2^32.
Eighth(period_us) ==
    IF period_us < 4294967 THEN (period_us * 125) \div 64
                           ELSE ((period_us \div 64) * 125) % 536870912
\* Nine bits from MAX_MPT on, 749999616.
PwmSize(period_us) == IF Eighth(period_us) >= 93749952 THEN 9 ELSE 6
PeriodN(period_us) ==
    CASE PwmSize(period_us) = 9 -> Eighth(period_us)
      [] PwmSize(period_us) = 6 /\ period_us < 4294967 -> (period_us * 125) \div 8
      [] PwmSize(period_us) = 6 /\ period_us >= 4294967 -> 8 * Eighth(period_us)
\* The first of the settings that come closest.
pm_pwm_calc_period(period_us) ==
    LET n == PeriodN(period_us)
        E(s) == Err(n, s.clk, s.div, s.m)
        S == {s \in Settings : s.m \in Tried(n, s.clk, s.div)}
        least == CHOOSE e \in {E(s) : s \in S} : \A s \in S : e <= E(s)
        Best == {s \in S : E(s) = least}
    IN  CHOOSE s \in Best : \A t \in Best : s = t \/ Before(s, t)

pm_pwm_calc_pwm_value(size, period_us, duty_us) ==
    LET top == 2^(32 - size)
        value == IF duty_us < top THEN (duty_us * 2^size) \div period_us
                                  ELSE duty_us \div (period_us \div 2^size)
    IN  IF value > 2^size - 1 THEN 2^size - 1 ELSE value

PM_PWM_PERIOD_MIN == 7
PM_PWM_PERIOD_MAX == 384000000
PwmRefused(duty_us, period_us) ==
    duty_us > period_us \/ period_us \notin PM_PWM_PERIOD_MIN..PM_PWM_PERIOD_MAX
=============================================================================
