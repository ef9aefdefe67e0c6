------------------------------ MODULE Platform ------------------------------
(***************************************************************************)
(* The drivers of the platform that the other drivers stand on: the SPMI   *)
(* arbiter, the PMIC and pin interrupts.  They do not share state, so a    *)
(* behaviour takes one of them (driver) and the others rest.               *)
(***************************************************************************)
EXTENDS Integers, FiniteSets, Sequences

CONSTANTS Peripherals, max_peripherals, Leftover, WriteSizes, ReadSizes, MaxCmds,   \* Spmi
          Calls, Codes,                                                             \* Pmic
          MaxPin, Types, LoopLimit                                                  \* GpioInterrupt

VARIABLES driver,
          spmi_version, arb, chnl_tbl, regs, call, cmds,
          pregs, unlocked, settled, msm, run,
          width, summary, pin, at

Sp == INSTANCE Spmi
Pm == INSTANCE Pmic WITH regs <- pregs
Gp == INSTANCE GpioInterrupt

ASSUME PlatformAssumption ==
    Sp!ArbiterAssumption /\ Pm!CallsAssumption /\ Pm!CodesAssumption /\ Gp!GpioAssumption

svars == <<spmi_version, arb, chnl_tbl, regs, call, cmds>>
pvars == <<pregs, unlocked, settled, msm, run>>
gvars == <<width, summary, pin, at>>
platformVars == <<driver, svars, pvars, gvars>>

Drivers == {"spmi", "pmic", "gpio"}
PlatformInit ==
    /\ driver \in Drivers
    /\ Sp!Init /\ (driver # "spmi" => /\ spmi_version = 1 /\ arb.ver = 1
                                      /\ \A i \in Sp!Channels : arb.chan[i] = Sp!Unused
                                      /\ chnl_tbl = [p \in Peripherals |-> CHOOSE left \in Leftover : TRUE])
    /\ Pm!Init /\ (driver # "pmic" => pregs = Pm!Blank)
    /\ Gp!Init /\ (driver # "gpio" => width = 1 /\ \A p \in Gp!Pins : ~pin[p].level)

SpmiNext == /\ driver = "spmi" /\ Sp!SpmiStep
            /\ UNCHANGED <<driver, pvars, gvars>>
PmicNext == /\ driver = "pmic" /\ Pm!PmicStep
            /\ UNCHANGED <<driver, svars, gvars>>
Pins(A) == /\ driver = "gpio" /\ A
           /\ UNCHANGED <<driver, svars, pvars>>
PlatformNext == SpmiNext \/ PmicNext \/ Pins(Gp!GpioStep)

\* The driver and the interrupt handler run on; clients and pins may stop.
PlatformSpec ==
    /\ PlatformInit /\ [][PlatformNext]_platformVars
    /\ WF_platformVars(Pins(Gp!InitStep)) /\ WF_platformVars(Pins(Gp!CallStep))
    /\ WF_platformVars(Pins(Gp!InterruptsLibIrqHandler))

(* Properties *)

\* A command reaches the peripheral it names, with its bytes in place (spmi.c
\* 150-349).
SpmiReaches == Sp!SpmiReaches

\* What a call has done when it returns and no command failed (pm8x41.c).
PmicPost == Pm!PmicPost

\* Nothing is enabled between two commands with half of its settings
\* (pm8x41.c 115-141, 334-392).
NeverHalfConfigured == Pm!NeverHalfConfigured

\* The emulation of both edges waits for the next edge (Interrupts.c 52-71).
NextEdgeDetected == Gp!NextEdgeDetected

\* A pending pin is served (Interrupts.c 237-267).
PinServed == Gp!PinServed
=============================================================================
