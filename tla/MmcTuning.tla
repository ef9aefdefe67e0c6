------------------------------ MODULE MmcTuning ------------------------------
(***************************************************************************)
(* Tuning of the receive clock for HS200 and HS400:                        *)
(* sdhci_msm_execute_tuning and sdhci_msm_find_appropriate_phase of        *)
(* src/Driver/SdhciMMCHSDxe/sdhci_msm.c with mmc_set_drv_type of           *)
(* mmc_sdhci.c.                                                            *)
(*                                                                         *)
(* A sweep sets the delay line to each phase, reads the tuning block and   *)
(* keeps the phases whose block was right.  When every phase passes, the   *)
(* sweep is repeated with the card's next driver type.  What the card, the *)
(* delay line and the board do is a choice: the window of good phases may  *)
(* differ from sweep to sweep.                                             *)
(*                                                                         *)
(* passed, stale, unset, refused, lost and result are history variables.   *)
(***************************************************************************)
EXTENDS Naturals, FiniteSets

CONSTANTS
    MAX_PHASES,              \* phases of the delay line (16)
    MX_DRV_SUPPORTED_HS200,  \* the last driver type tried (3)
    SupportedDrv             \* driver types in the card's ext_csd

Phases == 0 .. MAX_PHASES - 1
NONE == MAX_PHASES

ASSUME TuningAssumption ==
    /\ MAX_PHASES \in Nat \ {0} /\ MX_DRV_SUPPORTED_HS200 \in Nat
    /\ SupportedDrv \subseteq 0 .. MX_DRV_SUPPORTED_HS200

VARIABLES
    pc,                  \* the driver's place in sdhci_msm_execute_tuning
    phase, tuned_phases, drv_type, drv_type_changed, ret,   \* its locals
    tuning_data,         \* the read buffer holds the tuning "block" or "junk"
    attempt_cdr_unlock,  \* a static flag: never cleared
    tuning_done, calibration_done, saved_phase,   \* host->msm_host
    dll,                 \* the phase the delay line is set to, NONE if unknown
    clk_out,             \* its output clock: "on", "stopping" or "off"
    card_drv,            \* the card's driver type
    passed,              \* history: phases of this sweep that read the block
    stale,               \* history: a phase was kept on the data of another read
    unset,               \* history: the selected phase could not be set
    refused,             \* history: a switch of the driver type was reported failed
    lost,                \* history: the card missed the last switch, reported done
    result               \* history: "none", "tuned", "calibrated" or "failed"

localVars == <<phase, tuned_phases, drv_type, drv_type_changed, tuning_data>>
hostVars == <<attempt_cdr_unlock, tuning_done, calibration_done, saved_phase>>
historyVars == <<passed, stale, unset, refused, lost, result>>
vars == <<pc, localVars, ret, hostVars, dll, clk_out, card_drv, historyVars>>

-----------------------------------------------------------------------------
(* sdhci_msm_find_appropriate_phase. A row is a run of consecutive phases,  *)
(* named by its first phase; the last row goes on into row 0 when the table *)
(* holds both ends of the circle.                                           *)

Rows(table) == {p \in table : p = 0 \/ p - 1 \notin table}
Row(table, p) == {q \in table : q >= p /\ p .. q \subseteq table}
found_loop(table) == 0 \in table /\ MAX_PHASES - 1 \in table
Merged(table) == found_loop(table) /\ Cardinality(table) < MAX_PHASES
LastRow(table) == CHOOSE p \in Rows(table) : \A q \in Rows(table) : q <= p

phases_per_row(table, p) ==
    IF Merged(table) /\ p = 0 THEN 0
    ELSE IF Merged(table) /\ p = LastRow(table)
    THEN Cardinality(Row(table, p)) + Cardinality(Row(table, 0))
    ELSE Cardinality(Row(table, p))
sub_phases(table, p, i) == (p + i) % MAX_PHASES

max_phases_row(table) ==
    CHOOSE p \in Rows(table) : \A q \in Rows(table) :
        \/ phases_per_row(table, q) < phases_per_row(table, p)
        \/ phases_per_row(table, q) = phases_per_row(table, p) /\ p <= q
(* Mutant: the index is not taken down to count from 0. *)
ThreeQuarters(max_phases) == (max_phases * 3) \div 4
max_phases_3_4_idx(max_phases) ==
    IF (max_phases * 3) \div 4 = 0 THEN 0 ELSE (max_phases * 3) \div 4 - 1
sdhci_msm_find_appropriate_phase(table) ==
    sub_phases(table, max_phases_row(table),
               max_phases_3_4_idx(phases_per_row(table, max_phases_row(table))))

-----------------------------------------------------------------------------
Init ==
    /\ pc = "idle" /\ ret = 0
    /\ phase = 0 /\ tuned_phases = {} /\ drv_type = 0 /\ drv_type_changed = FALSE
    /\ tuning_data = "junk"
    /\ attempt_cdr_unlock = FALSE /\ tuning_done = FALSE /\ calibration_done = FALSE
    /\ saved_phase = 0 /\ dll = NONE /\ clk_out = "on" /\ card_drv = 0
    /\ passed = {} /\ stale = FALSE /\ unset = FALSE /\ refused = FALSE /\ lost = FALSE
    /\ result = "none"

Forgets ==
    /\ passed' = {} /\ stale' = FALSE /\ unset' = FALSE /\ refused' = FALSE /\ lost' = FALSE
    /\ result' = "none"

(* Entry. The buffer comes from the pool, where the block of an earlier     *)
(* call may still lie.  mmc_card_init enters HS400 after a successful HS200 *)
(* only, and tunes HS200 again only after the card was initialised anew.    *)
ExecuteTuningHS200 ==
    /\ pc = "idle" /\ ~tuning_done
    /\ pc' = "initDll" /\ ret' = 0
    /\ phase' = 0 /\ tuned_phases' = {} /\ drv_type' = 0 /\ drv_type_changed' = FALSE
    /\ tuning_data' \in {"junk", "block"}
    /\ Forgets /\ UNCHANGED <<hostVars, dll, clk_out, card_drv>>

ExecuteTuningHS400 ==
    /\ pc = "idle" /\ tuning_done /\ result = "tuned"
    /\ ~calibration_done
    /\ pc' = "calibrate" /\ ret' = 0
    /\ UNCHANGED <<localVars, hostVars, dll, clk_out, card_drv, historyVars>>

(* sdhci_msm_init, run when the host is initialised: no state of an earlier *)
(* initialisation but the static flag and saved_phase survives.             *)
Reinitialise ==
    /\ pc = "idle" /\ tuning_done
    /\ tuning_done' = FALSE /\ calibration_done' = FALSE
    /\ card_drv' = 0
    /\ dll' = NONE
    /\ Forgets /\ clk_out' = "on"
    /\ UNCHANGED <<pc, localVars, ret, attempt_cdr_unlock, saved_phase>>

(* sdhci_msm_config_dll stops the output clock, waits until it has stopped  *)
(* and turns it on at the new phase. The first wait has no timeout.         *)
Configures ==
    \/ pc = "sweep" /\ phase < MAX_PHASES
    \/ pc = "select" /\ tuned_phases # {}
    \/ pc = "calibrate"
StopClock ==
    /\ Configures /\ clk_out = "on" /\ clk_out' = "stopping"
    /\ UNCHANGED <<pc, localVars, ret, hostVars, dll, card_drv, historyVars>>
HwClockStops ==
    /\ clk_out = "stopping" /\ clk_out' = "off"
    /\ UNCHANGED <<pc, localVars, ret, hostVars, dll, card_drv, historyVars>>
StartClock == clk_out = "off" /\ clk_out' = "on"

(* sdhci_msm_hs400_calibration: the delay line is reset, set to the saved   *)
(* phase and calibrated; each of the three may time out.                    *)
HS400Calibration(ok) ==
    /\ pc = "calibrate" /\ pc' = "out"
    /\ StartClock \/ (~ok /\ clk_out = "on" /\ UNCHANGED clk_out)
    /\ IF ok THEN ret' = 0 /\ calibration_done' = TRUE /\ dll' = saved_phase
       ELSE ret' = 1 /\ dll' = NONE /\ UNCHANGED calibration_done
    /\ UNCHANGED <<localVars, attempt_cdr_unlock, tuning_done, saved_phase, card_drv, historyVars>>

InitDll(locked) ==
    /\ pc = "initDll"
    /\ IF locked THEN pc' = "sweep" /\ UNCHANGED ret ELSE pc' = "out" /\ ret' = 1
    /\ dll' = NONE /\ clk_out' = "on"
    /\ UNCHANGED <<localVars, hostVars, card_drv, historyVars>>

(* One turn of the sweep. The command reads the block, reads something      *)
(* else, fails with nothing read although sdhci_send_command returns 0      *)
(* (errors are ignored while tuning), or is reported failed.                *)
Reads == {"block", "junk", "ignored", "error"}
DataAfter(read) == IF read \in {"block", "junk"} THEN read ELSE tuning_data
Kept(read) == read # "error" /\ DataAfter(read) = "block"

TunePhase(read) ==
    /\ pc = "sweep" /\ phase < MAX_PHASES
    /\ StartClock /\ dll' = phase
    /\ tuning_data' = DataAfter(read)
    /\ tuned_phases' = IF Kept(read) THEN tuned_phases \cup {phase} ELSE tuned_phases
    /\ passed' = IF read = "block" THEN passed \cup {phase} ELSE passed
    /\ stale' = (stale \/ (Kept(read) /\ read # "block"))
    /\ phase' = phase + 1
    /\ UNCHANGED <<pc, drv_type, drv_type_changed, ret, hostVars, card_drv, unset, refused, lost,
                   result>>

TunePhaseDllFails ==
    /\ pc = "sweep" /\ phase < MAX_PHASES
    /\ StartClock
    /\ pc' = "out" /\ ret' = 1 /\ dll' = NONE
    /\ UNCHANGED <<localVars, hostVars, card_drv, historyVars>>

AllPassed == Cardinality(tuned_phases) = MAX_PHASES

SweepDone ==
    /\ pc = "sweep" /\ phase = MAX_PHASES
    /\ pc' = IF AllPassed THEN "nextDrv" ELSE "restore"
    /\ UNCHANGED <<localVars, ret, hostVars, dll, clk_out, card_drv, historyVars>>

(* mmc_set_drv_type sends CMD6 and reads the card's status, when the card   *)
(* supports the type; when it does not, it reports a change. Tuning ignores *)
(* an error of CMD6: a switch may be reported done and not have reached the *)
(* card, or be reported failed and have.                                    *)
mmc_set_drv_type(type, reported, switched) ==
    /\ type \notin SupportedDrv => reported /\ ~switched
    /\ card_drv' = IF switched THEN type ELSE card_drv
    /\ refused' = (refused \/ ~reported)

(* Mutant: the new sweep does not forget the phases of the one before. *)
NextDrvKeepsPhases(changed, switched) ==
    /\ pc = "nextDrv" /\ drv_type < MX_DRV_SUPPORTED_HS200
    /\ drv_type' = drv_type + 1
    /\ mmc_set_drv_type(drv_type + 1, changed, switched)
    /\ drv_type_changed' = changed
    /\ IF changed
       THEN pc' = "sweep" /\ phase' = 0 /\ passed' = {} /\ stale' = FALSE
       ELSE UNCHANGED <<pc, phase, passed, stale>>
    /\ UNCHANGED <<tuned_phases, tuning_data, ret, hostVars, dll, clk_out, unset, lost, result>>
(* Mutant: the same driver type is tried again and again. *)
NextDrvStays(changed, switched) ==
    /\ pc = "nextDrv" /\ drv_type < MX_DRV_SUPPORTED_HS200
    /\ UNCHANGED drv_type
    /\ mmc_set_drv_type(drv_type + 1, changed, switched)
    /\ drv_type_changed' = changed
    /\ IF changed
       THEN pc' = "sweep" /\ phase' = 0 /\ tuned_phases' = {} /\ passed' = {} /\ stale' = FALSE
       ELSE UNCHANGED <<pc, phase, tuned_phases, passed, stale>>
    /\ UNCHANGED <<tuning_data, ret, hostVars, dll, clk_out, unset, lost, result>>
NextDrvType(changed, switched) ==
    /\ pc = "nextDrv" /\ drv_type < MX_DRV_SUPPORTED_HS200
    /\ drv_type' = drv_type + 1
    /\ mmc_set_drv_type(drv_type + 1, changed, switched)
    /\ drv_type_changed' = changed
    /\ IF changed
       THEN pc' = "sweep" /\ phase' = 0 /\ tuned_phases' = {} /\ passed' = {} /\ stale' = FALSE
       ELSE UNCHANGED <<pc, phase, tuned_phases, passed, stale>>
    /\ UNCHANGED <<tuning_data, ret, hostVars, dll, clk_out, unset, lost, result>>

NoMoreDrvTypes ==
    /\ pc = "nextDrv" /\ drv_type = MX_DRV_SUPPORTED_HS200
    /\ drv_type' = drv_type + 1
    /\ pc' = "restore"
    /\ UNCHANGED <<phase, tuned_phases, drv_type_changed, tuning_data, ret, hostVars, dll, clk_out,
                   card_drv, historyVars>>

(* Mutant: the strength is restored only when every phase passed again. *)
RestoreWhenAllPassed(changed, switched) ==
    /\ pc = "restore" /\ pc' = "select"
    /\ IF drv_type_changed /\ AllPassed
       THEN /\ mmc_set_drv_type(0, changed, switched)
            /\ lost' = (0 \in SupportedDrv /\ changed /\ ~switched)
       ELSE UNCHANGED <<card_drv, refused, lost>>
    /\ attempt_cdr_unlock' = (attempt_cdr_unlock \/ AllPassed)
    /\ UNCHANGED <<localVars, ret, tuning_done, calibration_done, saved_phase, dll, clk_out,
                   passed, stale, unset, result>>
(* Restore the driver strength when the last attempt changed it. *)
RestoreDrvType(changed, switched) ==
    /\ pc = "restore" /\ pc' = "select"
    /\ IF drv_type_changed
       THEN /\ mmc_set_drv_type(0, changed, switched)
            /\ lost' = (0 \in SupportedDrv /\ changed /\ ~switched)
       ELSE UNCHANGED <<card_drv, refused, lost>>
    /\ attempt_cdr_unlock' = (attempt_cdr_unlock \/ AllPassed)
    /\ UNCHANGED <<localVars, ret, tuning_done, calibration_done, saved_phase, dll, clk_out,
                   passed, stale, unset, result>>

SelectPhase(set) ==
    LET selected == sdhci_msm_find_appropriate_phase(tuned_phases) IN
    /\ pc = "select" /\ pc' = "out"
    /\ IF tuned_phases = {}
       THEN ret' = 1 /\ UNCHANGED <<phase, dll, clk_out, saved_phase, unset>>
       ELSE /\ ret' = 0 /\ phase' = selected /\ StartClock
            /\ IF set THEN dll' = selected /\ saved_phase' = selected /\ UNCHANGED unset
               ELSE dll' = NONE /\ unset' = TRUE /\ UNCHANGED saved_phase
    /\ UNCHANGED <<tuned_phases, drv_type, drv_type_changed, tuning_data, attempt_cdr_unlock,
                   tuning_done, calibration_done, card_drv, passed, stale, refused, lost,
                   result>>

(* The exit every path takes: one more read of the block when all phases    *)
(* ever passed, whose outcome nothing uses, and the locals go out of scope. *)
Out ==
    /\ pc = "out" /\ pc' = "idle"
    /\ tuning_done' = TRUE
    /\ result' = IF ret # 0 THEN "failed" ELSE IF calibration_done THEN "calibrated" ELSE "tuned"
    /\ phase' = 0 /\ tuned_phases' = {} /\ drv_type' = 0 /\ drv_type_changed' = FALSE
    /\ tuning_data' = "junk"
    /\ UNCHANGED <<ret, attempt_cdr_unlock, calibration_done, saved_phase, dll, clk_out,
                   card_drv, passed, stale, unset, refused, lost>>

Tuning ==
    \/ \E ok \in BOOLEAN : HS400Calibration(ok) \/ InitDll(ok) \/ SelectPhase(ok)
    \/ \E read \in Reads : TunePhase(read)
    \/ StopClock \/ TunePhaseDllFails \/ SweepDone \/ NoMoreDrvTypes \/ Out
    \/ \E changed, switched \in BOOLEAN :
          NextDrvType(changed, switched) \/ RestoreDrvType(changed, switched)

Next == Tuning \/ HwClockStops \/ ExecuteTuningHS200 \/ ExecuteTuningHS400 \/ Reinitialise

Spec == Init /\ [][Next]_vars

(* The driver runs on. Each of its waits has a timeout but the one for the  *)
(* delay line's clock to stop: that it does is assumed of the hardware.     *)
FairSpec == Spec /\ WF_vars(Tuning) /\ WF_vars(HwClockStops)

-----------------------------------------------------------------------------
(* Properties. *)

(* sdhci_msm_execute_tuning: "0 on Success, 1 on Failure". After a success  *)
(* the delay line holds, and saved_phase remembers, a phase at which the    *)
(* card's tuning block was read right.                                      *)
Succeeded == pc = "idle" /\ result \in {"tuned", "calibrated"}
SuccessMeansTuned == Succeeded => saved_phase \in passed /\ dll = saved_phase

(* The same, unless a phase was kept on the data of another phase's read or *)
(* the selected phase could not be set: nothing else spoils a success, not  *)
(* a new sweep, a driver type, a failed HS400 or a second initialisation.   *)
TunedUnlessMasked == ~stale /\ ~unset => SuccessMeansTuned

(* The selected phase is in a run of tuned phases around the circle that no *)
(* other run exceeds, and, when the run has three phases or more, both its  *)
(* neighbours were tuned as well: it is never at the edge of the window.    *)
Arc(p, n) == {(p + i) % MAX_PHASES : i \in 0 .. n - 1}
SelectedInWidestWindow ==
    pc = "out" /\ ret = 0 /\ ~tuning_done /\ ~unset =>
        \E p \in Phases, n \in 1 .. MAX_PHASES :
            /\ Arc(p, n) \subseteq tuned_phases
            /\ \A q \in Phases, m \in n + 1 .. MAX_PHASES : ~(Arc(q, m) \subseteq tuned_phases)
            /\ saved_phase \in Arc(p, n)
            /\ n >= 3 => saved_phase \in Arc(p + 1, n - 2)

(* The comment "Restore the driver strength to default value": after tuning *)
(* the card is back at its default driver type, unless a switch was         *)
(* reported failed or the restore itself was lost while errors of commands  *)
(* are ignored. A switch lost before it and any number of sweeps do no      *)
(* harm, and no type stays that was not switched back (sdhci_msm.c 783-800). *)
DrvTypeRestored ==
    pc = "idle" /\ result # "failed" /\ ~refused /\ ~lost /\ 0 \in SupportedDrv => card_drv = 0

(* However many sweeps it takes, tuning ends, if the delay line's clock     *)
(* stops when it is told to (sdhci_msm.c 404-447, 702-871).                 *)
TuningReturns == pc # "idle" ~> pc = "idle"
==============================================================================
