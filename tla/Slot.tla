-------------------------------- MODULE Slot --------------------------------
(***************************************************************************)
(* The SD slot from the first register write to the published block        *)
(* device: SdhciInit brings up the host, MmcCard initialises the card once *)
(* it is up, and MmcManage works on the card that was published.           *)
(***************************************************************************)
EXTENDS SdhciInit, Sequences

CONSTANTS
    Configs, CoreRates, Cards, OpCondRetries, IfCondRetries, AppOpCondRetries,  \* of MmcCard
    Blocks, Units, StatRetry, RpmbRetry, MaxOps,                                \* of MmcManage
    Explored       \* bound: the configurations in which the operations follow

VARIABLES todo, ret, tries, out, cfg, host, card, drv,
          dev, ext, op, ops

M == INSTANCE MmcCard
G == INSTANCE MmcManage

\* The platform feeds the controller with a core clock that its capability
\* register covers.
BaseClockAssumption == \A c \in CapSets : c.base >= M!CORE_KHZ
ASSUME SlotAssumption ==
    M!RetriesAssumption /\ M!CardsAssumption /\ G!ManageAssumption /\ BaseClockAssumption

mvars == <<todo, ret, tries, out, cfg, host, card, drv>>
gvars == <<dev, ext, op, ops>>
vars == <<ivars, mvars, gvars>>

SlotInit == Init /\ M!Init /\ G!Init
HostNext == Next /\ UNCHANGED <<mvars, gvars>>
mmc_init == ipc = "up" /\ M!mmc_init(caps) /\ UNCHANGED <<ivars, gvars>>
CardNext == M!CardStep /\ UNCHANGED <<ivars, gvars>>
\* The operations do not depend on how the card was brought up.
Open == out = "published" /\ <<cfg, caps>> \in Explored
        /\ G!Open(IF drv.sd THEN "sd" ELSE "mmc") /\ UNCHANGED <<ivars, mvars>>
Manage == G!ManageStep /\ UNCHANGED <<ivars, mvars>>
SlotNext == HostNext \/ mmc_init \/ CardNext \/ Open \/ Manage

\* The driver runs, the controller raises its interrupt and its clock becomes
\* stable, and an interrupt that is raised and unmasked is handled.
Fairness ==
    /\ WF_vars(DriverStep /\ UNCHANGED <<mvars, gvars>>)
    /\ WF_vars(HardwareStep /\ UNCHANGED <<mvars, gvars>>)
    /\ WF_vars(sdhci_int_handler /\ UNCHANGED <<mvars, gvars>>)
    /\ WF_vars(mmc_init) /\ WF_vars(CardNext)
SlotSpec == SlotInit /\ [][SlotNext]_vars /\ Fairness

(* Properties, with PowerBeforeUse and IdentificationClock *)

\* The card is never clocked beyond the timing it is in (mmc_sdhci.c 802-1017).
ClockWithinLimit == M!ClockWithinLimit

\* Host and card agree on width and mode whenever data moves (mmc_sdhci.c
\* 1539-1662).
BusAgrees == M!BusAgrees

\* The size of the published device is the card's (mmc_sdhci.c 68-225).
CapacityIsTheCards == M!CapacityIsTheCards

\* An erase is confined to its range and complete in it but for what is
\* protected (mmc_sdhci.c 2045-2190).
EraseExact == G!EraseExact

\* A range reported protected is protected, and nothing far from it
\* (mmc_sdhci.c 2231-2343).
WpCoversRequest == G!WpCoversRequest

\* After an RPMB transfer the card is back on the user partition (mmc_sdhci.c
\* 2373-2475).
PartitionRestored == G!PartitionRestored

\* Bringing up the slot ends, whatever the card does: no wait for an event or
\* a register and no retry loop of it goes on for ever (mmc_sdhci.c 360-411,
\* 1184-1276, sdhci.c 937-940).
InitReturns == <>(out # "running")
=============================================================================
