----------------------------- MODULE SdhciInit -----------------------------
(***************************************************************************)
(* Bringing up the SD host controller: mmc_host_init of mmc_sdhci.c, the   *)
(* Qualcomm part of sdhci_msm.c and the standard part of sdhci.c.  The     *)
(* driver runs once, top down; beside it run the controller, which asks    *)
(* for bus power through its own interrupt, and the interrupt handler that *)
(* answers for the PMIC and signals the event the driver sleeps on.        *)
(***************************************************************************)
EXTENDS Integers, FiniteSets, SdhciClock

CONSTANT
    CapSets       \* what the capability registers of a controller may report

\* The register names the base clock in MHz, in 8 bits.
MAX_BASE_CLK == 255000
ASSUME CapsAssumption ==
    CapSets \subseteq [base : 1 .. MAX_BASE_CLK, width8 : BOOLEAN, ddr : BOOLEAN, sdr104 : BOOLEAN]

VARIABLES
    ipc,          \* where mmc_host_init is
    status,       \* SDCC_HC_PWRCTL_STATUS: requests raised and not cleared
    acked,        \* the requests SDCC_HC_PWRCTL_CTL has answered
    mask,         \* SDCC_HC_PWRCTL_MASK: is the interrupt enabled
    gic,          \* the handler: "none", "registered" or "unmasked"
    event,        \* is sdhc_event signalled
    bus,          \* the power of the bus: "off", "asked", "raised" or "on"
    caps,         \* what sdhci_init read of the capability registers
    ctrl1,        \* SDHCI_HOST_CTRL1
    clk           \* SDHCI_CLK_CTRL: divider, clock stable, clock enabled
ivars == <<ipc, status, acked, mask, gic, event, bus, caps, ctrl1, clk>>

Requests == {"BUS_ON", "IO_HIGH"}
NoCaps == [base |-> 0, width8 |-> FALSE, ddr |-> FALSE, sdr104 |-> FALSE]

Init ==
    /\ ipc = "msm_init"
    /\ status \in SUBSET Requests        \* the boot loader used the slot, or not
    /\ acked = status
    /\ mask = FALSE /\ gic = "none" /\ event = FALSE
    /\ bus = "off" /\ caps = NoCaps /\ ctrl1 = {}
    /\ clk = [reg |-> 0, stable |-> FALSE, on |-> FALSE]

(* sdhci_msm_init *)

\* The soft reset may raise again what the slot had on before.
sdhci_soft_reset ==
    /\ ipc = "msm_init"
    /\ \E again \in SUBSET status : acked' = acked \ again
    /\ ipc' = "clear" /\ ctrl1' = {}
    /\ UNCHANGED <<status, mask, gic, event, bus, caps, clk>>

\* Mutant: the pending interrupt is left for the handler.
LeavePendingIrq == ipc = "clear" /\ ipc' = "register"
                   /\ UNCHANGED <<status, acked, mask, gic, event, bus, caps, ctrl1, clk>>
sdhci_clear_power_ctrl_irq ==
    /\ ipc = "clear"
    /\ status' = {} /\ acked' = {}       \* cleared, and answered in CTL
    /\ ipc' = "register"
    /\ UNCHANGED <<mask, gic, event, bus, caps, ctrl1, clk>>

register_int_handler ==
    /\ ipc = "register"
    /\ gic' = "registered" /\ ipc' = "unmask"
    /\ UNCHANGED <<status, acked, mask, event, bus, caps, ctrl1, clk>>

\* Mutant: the interrupt stays masked in the interrupt controller.
NotUnmasked == ipc = "unmask" /\ ipc' = "enable"
               /\ UNCHANGED <<status, acked, mask, gic, event, bus, caps, ctrl1, clk>>
unmask_interrupt ==
    /\ ipc = "unmask"
    /\ gic' = "unmasked" /\ ipc' = "enable"
    /\ UNCHANGED <<status, acked, mask, event, bus, caps, ctrl1, clk>>

EnablePwrCtrlInt ==
    /\ ipc = "enable"
    /\ mask' = TRUE /\ ipc' = "caps"
    /\ UNCHANGED <<status, acked, gic, event, bus, caps, ctrl1, clk>>

(* sdhci_init *)

ReadCaps ==
    /\ ipc = "caps"
    /\ caps' \in CapSets /\ ipc' = "power"
    /\ UNCHANGED <<status, acked, mask, gic, event, bus, ctrl1, clk>>

sdhci_set_bus_power_on ==
    /\ ipc = "power"
    /\ bus' = "asked" /\ ipc' = "wait"
    /\ UNCHANGED <<status, acked, mask, gic, event, caps, ctrl1, clk>>

WaitForEvent ==
    /\ ipc = "wait" /\ event
    /\ event' = FALSE /\ ipc' = "setup"
    /\ UNCHANGED <<status, acked, mask, gic, bus, caps, ctrl1, clk>>

\* The ADMA selection writes the whole register, after the bus width was
\* or-ed into it; sdhci_error_status_enable writes the four enable registers.
SetupHost ==
    /\ ipc = "setup"
    /\ ctrl1' = {"ADMA32"} /\ ipc' = "clock"
    /\ UNCHANGED <<status, acked, mask, gic, event, bus, caps, clk>>

(* sdhci_clk_supply(host, 400 kHz) *)

sdhci_clk_supply ==
    /\ ipc = "clock"
    /\ clk' = [reg |-> FreqSelect(Divider(caps.base, 400)), stable |-> FALSE, on |-> FALSE]
    /\ ipc' = "stable"
    /\ UNCHANGED <<status, acked, mask, gic, event, bus, caps, ctrl1>>

EnableClock ==
    /\ ipc = "stable" /\ clk.stable
    /\ clk' = [clk EXCEPT !.on = TRUE] /\ ipc' = "up"
    /\ UNCHANGED <<status, acked, mask, gic, event, bus, caps, ctrl1>>

(* The controller and the interrupt *)

HwPowerRequest ==
    /\ bus = "asked" /\ bus' = "raised"
    /\ status' = status \cup {"BUS_ON"} /\ acked' = acked \ {"BUS_ON"}
    /\ UNCHANGED <<ipc, mask, gic, event, caps, ctrl1, clk>>

HwClockStable ==
    /\ ipc = "stable" /\ ~clk.stable
    /\ clk' = [clk EXCEPT !.stable = TRUE]
    /\ UNCHANGED <<ipc, status, acked, mask, gic, event, bus, caps, ctrl1>>

\* sdhci_int_handler answers by the mask register, which has every bit set,
\* and leaves the status register alone.
sdhci_int_handler ==
    /\ gic = "unmasked" /\ mask /\ status \ acked # {}
    /\ acked' = status
    /\ bus' = IF bus = "raised" THEN "on" ELSE bus
    /\ event' = TRUE
    /\ UNCHANGED <<ipc, status, mask, gic, caps, ctrl1, clk>>

DriverStep ==
    \/ sdhci_soft_reset \/ sdhci_clear_power_ctrl_irq
    \/ register_int_handler \/ unmask_interrupt \/ EnablePwrCtrlInt
    \/ ReadCaps \/ sdhci_set_bus_power_on \/ WaitForEvent \/ SetupHost
    \/ sdhci_clk_supply \/ EnableClock
HardwareStep == HwPowerRequest \/ HwClockStable
Next == DriverStep \/ HardwareStep \/ sdhci_int_handler
Spec == Init /\ [][Next]_ivars

(* Properties *)

\* The driver goes past WaitForEvent only when the request for bus power that
\* it waits for has been answered: a wake-up left over from before (the reset
\* may raise the interrupt of the last use of the slot) would start the card's
\* clock on an unpowered bus (sdhci_msm.c 174-182, sdhci.c 937-940).
PowerBeforeUse == ipc \in {"setup", "clock", "stable", "up"} => bus = "on"

\* The clock the card gets for identification is the fastest the divider has
\* that does not exceed 400 kHz (sdhci.c 145-190).
IdentificationClock ==
    clk.on => LET by == DividesBy(clk.reg)
              IN  /\ caps.base <= 400 * by
                  /\ \A d \in 1..(SDHCI_CLK_MAX_DIV \div 2) - 1 :
                        caps.base <= 400 * 2 * d => by <= 2 * d
=============================================================================
