# Lumia650Pkg: a TLA+ development

Lumia650Pkg is an EDK2 platform package: it turns a Lumia 650 (Qualcomm MSM8909,
32-bit ARM, called 8x09 in the code) into a UEFI machine. `src/` holds the DXE drivers and libraries that
come before an operating system. One core runs everything. Concurrency comes from
UEFI's priority levels (a timer or an interrupt handler preempts the running code,
never the reverse), and from hardware that works in parallel with the driver polling it.

## Inventory

| Part | State it keeps | Operations | Talks to |
|---|---|---|---|
| **ButtonsDxe, ButtonsLib** | button matrices, pressed keys, two key rings, notification list, timer | read, read-ex, wait, reset, register, unregister, timer tick | console and boot manager (protocols), TLMM GPIOs, PMIC over SPMI |
| **sdhci.c** command engine | controller registers, retry counters, response | send a command, reset, set clock, power, bus width | controller; mmc_sdhci.c above |
| **sdhci_msm.c** | DLL phase, tuning flags, power control event | initialise, tune, calibrate, acknowledge power interrupts | sdhci.c, mmc_sdhci.c, interrupt controller |
| **mmc_sdhci.c** | card identity, ext_csd, timing and width | initialise card, switch modes, read, write, erase, write-protect, RPMB | sdhci.c |
| **MMCHS.c** | block media | block read and write | UEFI block I/O above, mmc_sdhci.c below |
| **ClockDxe** | clock tree with enable counts and rates | get, enable, disable, set rate | every driver with a clock |
| **GpioTlmmDxe, GpioTlmmInterruptDxe** | pin configuration; handlers and mask bitmaps | configure, register, mask, acknowledge, dispatch | interrupt controller, clients |
| **SpmiDxe, Pm8x41Dxe** | arbiter channel table; PMIC registers | byte reads and writes; PMIC operations | each other, ButtonsLib |
| **BamDxe** | descriptor FIFO offsets | initialise pipe, add descriptors, wait for events | peripherals with DMA |
| **FrameBufferSerialPortLib, SimpleFbDxe** | cursor, colours | write characters, wrap, clear | DEBUG output, graphics output |
| **PlatformBootManagerLib** | boot options, key options | before and after console | ButtonsDxe's keys |
| **PrePi, PlatformPeiLib, MemoryInitPeiLib** | HOBs, memory map, GIC | early start | everything after |
| **LcmLib, MallocLib, QTimerLib, StrLib, MicroLibC** | none | lcm, memalign, ticks to time, strings | the ported drivers |
| **Keypad drivers** | bitmaps, notification list | as ButtonsDxe | in the repository but in no platform description file |

What is hard, and which properties make each part correct:

* Buttons: a reset runs with the timer free to fire between its stores; a poll can fail
  half way; one poll feeds two rings with their own readers; a list is edited while the
  timer may walk it. Correct means: a key queue for the console (nothing lost, repeated
  or reordered), one key per press session, one notification per key and function.
* Command engine: status bits are sticky and there is one register for all commands;
  completions and errors come in any order, late, or never. Correct means: a 0 says *this*
  command is done, a command starts from clean status, and every call returns.
* Block I/O: a request is cut into commands and each command into descriptor lines, at
  sizes that do not divide each other, and any command or the stop command may fail.
  Correct means: the bytes moved are those asked for, each to its place; success is whole.
* Tuning: sweeps are repeated with other driver types over a circular table of phases.
  Correct means: the phase kept is a good one, inside the widest window.
* Card: host and card are switched one after the other through width, timing and clock, by
  commands that may be refused, lost or late. Correct means: both agree whenever data moves,
  the clock stays within what the card's timing allows, and the published size is the card's.
* Card management: erase and protection work by groups, RPMB by a partition switch around
  three commands. Correct means: nothing outside the range is touched, and the card is back on
  the user partition.
* Clocks: one count for all clients and names. Correct means: on while anybody holds it, and at the rate
  asked for, whatever rate it had before.
* Pin interrupts: one handler scans all pins while clients change them. Correct means: a pending pin is
  served, and an emulated edge waits for the edge that comes next.
* SPMI and PMIC: a PMIC function is a sequence of commands, each of which may be lost. Correct
  means: a command reaches the peripheral it names, nothing is enabled half configured, and a function that
  returns has done what its comment says.
* BAM, console, keypad: a ring shared with an engine, a cursor shared with handlers, keys that depend on time.

## Modules

| Module | Models | Notes |
|---|---|---|
| `KeyFifo` | what a text input protocol promises | abstract specification |
| `ButtonsDxe` | ButtonsDxe.c, ButtonsLib.c | implements `KeyFifo` |
| `ButtonsDxe_proofs` | | TLAPS proofs |
| `SdhciHost`, `MCSdhciHost` | sdhci_send_command, sdhci_cmd_complete, line reset | driver and controller interleaved |
| `SdhciHost_proofs` | | TLAPS proofs |
| `MmcBlockIo` | MMCHS.c block calls, mmc_sdhci.c transfers, ADMA descriptors | uses outcomes of the engine |
| `MmcBlockIo_proofs` | | TLAPS proofs |
| `MmcTuning` | sdhci_msm_execute_tuning, the phase choice, mmc_set_drv_type | |
| `MmcTuning_proofs` | | TLAPS proofs |
| `SdhciInit`, `SdhciClock` | mmc_host_init, sdhci_init, the power control interrupt, the clock divider | driver, controller and handler interleaved |
| `MmcCard` | mmc_card_init and every step under it, the slot's configuration and clocks | uses `SdhciClock` |
| `MmcManage` | erase, write protection, RPMB, sleep | works on a published card |
| `Slot` | | composes `SdhciInit`, `MmcCard`, `MmcManage`, for any value of their constants |
| `MCMmcCard` | | gives those constants the values of the run |
| `Slot_proofs` | | TLAPS proofs |
| `ClockTree` | clock.c, clock_lib2.c, clock_pll.c | for any table of clocks |
| `Msm8909Clock`, `MCClock` | the table of msm8909-clock.c; two clients of it | |
| `GpioInterrupt` | GpioTlmmInterruptDxe over InterruptsLib | pins, clients and handler interleaved |
| `Spmi` | spmi.c | driver and arbiter interleaved |
| `Pmic`, `PmicMath` | Pm8x41Dxe, ResetSystemLib | functions as programs of SPMI commands |
| `FbConsole` | FrameBufferSerialPortLib | |
| `BamPipe` | bam.c | driver and engine interleaved |
| `KeypadDevice`, `KeypadDxe` | KeypadDeviceImplLib and its helper; KeypadDxe | |
| `Platform`, `Devices` | | compose drivers without shared state, for any value of their constants |
| `MCPlatform`, `MCDevices` | | give those constants the values of the runs |
| `Devices_proofs` | | TLAPS proofs about `ClockTree` and `Devices` |
| `Platform_proofs` | | TLAPS proofs about `Platform` |
| `DataLemmas` | | lemmas on numbers and sequences that several proofs cite |

### ButtonsDxe

The application's calls run at TPL_APPLICATION, the tick at TPL_CALLBACK. What the code
does with the TPL raised is one action (`KeysDxeReadKeyStroke`, `WaitForKeyCallback`,
`PollForKeyCallback`). What it does with the TPL down is one action per store or call
the tick can fall between: `KeysDxeResetCommon` is nine (`pc` walks through them),
registration is two, unregistration three, and the notify loop of
`KeysDxeReadKeyStrokeEx` a second one after the read. `Poll` is PollForKey with
everything under it: the array read (which may stop after 0, 1 or 2 buttons and leave
what it read), ProcessArray, ConvertEfiKeyCode and the two ring writes. The held buttons
are a free choice at each poll. The rings are arrays with cursors, as in the code; keys
carry an ordinal so that a repeated or lost key is seen. `made`, `unread`, `delivered`,
`sessionKeys` and `calls` are history variables.

Notification functions are assumed not to call the driver; the fields no 8x09 key
uses (camera, home and rotate lock keys, keysReleased) are left out. Registering a key is
modelled for the codes the map can produce.

### SdhciHost

Four controller actions (`Hw...`) raise bits; the driver's actions each read or write one
register, or a group no controller step can come between with a different result. `pc`
names the loop: `present` (line inhibit), `pollCmd`, `pollData`, the three places where the error
register is read after the status register (`pollCmdErr`, `pollDataErr`,
`pollTuningErr`) and `err`, the common exit. The controller is taken as the code relies
on it: bits stay until written back or until the command and data lines are reset, and that
reset clears the error bits, which the driver never writes back. Errors are the ten bits
sdhci_cmd_err_status decodes plus `"OTHER"`, for the six it does not (all sixteen are enabled).
A reset may time out, and then leaves everything as it was.

`gaveUp` records that a call returned 1 with no error bit set (patience) or a reset timed out,
and no reset has succeeded since: from then on a late answer may be taken for a later
command's. `Clean` is the condition under which the results are claimed. It is an
assumption on the controller stated in each property, not on the model's steps: TLC
explores the other behaviours too.

Not modelled: the descriptor table (it is in `MmcBlockIo`), cache maintenance, the
`trans_mode` flags, the invalid response type exit (no caller sends one).

### MmcBlockIo

`MMCHSReadBlocks` and `MMCHSWriteBlocks` make the checks in their order, then each turn of
mmc_read's or mmc_write's loop is one command with an outcome: the value of
sdhci_send_command, what the response said, and how many blocks moved. A failed command of
several blocks goes to `mmc_stop_command`, whose result replaces it. `moved` is the set
of (card block, byte of it, buffer byte) the controller moved, computed from the
descriptor table that `sdhci_prep_desc_table` builds and the command's argument.
`masked` records that a failed command was reported as done. A failed outcome moves a
prefix of its blocks; a command that fails outright or reports an error with ret = 0 may do the same.

### MmcTuning

Each `TunePhase` sets the delay line, reads the block and keeps or drops the phase. The read's
result is a choice: the block, something else, nothing although sdhci_send_command said 0
(it ignores errors while tuning), or an error. A switch of the driver type may be refused, lost or late as
well, and for the same reason reported done when the card missed it. The rows of the phase table are sets, a row
being named by its first phase; the code's row arrays are their order. `passed`, `stale`,
`unset`, `refused` and `lost` are history variables. Setting a phase first stops the delay line's output clock and
waits for it without a timeout (`StopClock`, `HwClockStops`); what follows is one step that may time out, as are HS400's three
register sequences and the reset of the delay line.

### SdhciInit, MmcCard, MmcManage

`SdhciInit` is mmc_host_init: `ipc` walks through sdhci_msm_init, sdhci_init and sdhci_clk_supply,
one action per register write that the controller or the handler can see. Beside it run the
controller (which raises a request for bus power, and makes its clock stable) and
`sdhci_int_handler`, which answers by the mask register. The status register starts with whatever
the boot loader left.

`MmcCard` holds the steps mmc_card_init has still to take in `todo`, by name, so that the
early returns of ten functions are one operator (`Fail`). A command ends `"ok"`, `"lost"` or `"late"`, that
is, done by the card and reported failed. `host` and `card` are the two ends of the bus, `drv` what
the driver believes. The card, the host's capabilities and the platform's configuration are choices of the
initial state. The sector count is scaled to 8 bits, with the sign extension of the code's `int` kept.

`MmcManage` works on sets of blocks: `erased`, `protected` and the partition register are the
card's (an erase skips what is protected, and is successful), `ext` is the driver's copy of the extended CSD, which write protection reads again. The
code's ROUNDUP masks bits; `And` is that operation on the 31 bits a model value can have. `Slot` runs the
three in a row over the same slot; the operations follow in the shipping configuration only, because
they do not depend on the way the card came up.

### ClockTree, Msm8909Clock

A clock is a name; `tree` holds each clock's count, whether it is on, each root's rate and what the
hardware was programmed with (`hw`). The functions of clock.c are operators on `tree`, since they run to
the end without preemption; the actions are the three calls of the protocol. `held` is a history: who
holds which enable. `Msm8909Clock` is the table of the platform, entry by entry. No ops table has a
`get_parent`, so no enable goes up the tree: only a root's set_rate enables its source, and no
call gives that back. `Misprogrammed` lists the entries of the table that cannot make their rate.

### GpioInterrupt, Spmi, Pmic

`GpioInterrupt`: the driver's calls run at TPL_HIGH_LEVEL and are one action, except for the edge emulation, whose
register reads and writes (`ReadPin`, `TurnPolarity`, `CheckPin`) the pin may move between. The handler scans
pin by pin (`at`).

`Spmi`: a command is built word by word, given to the arbiter, polled and read back, a byte at a time out of three data
words by mask and shift (`ByteOf`, `ReadData`); the arbiter carries it out, fails, denies or drops it. Version 2 looks the channel up in a table that starts with what malloc left.

`Pmic`: each function is a sequence of instructions (read, or, and-not, write, save, test, delay, poll),
and `PmicStep` runs one of them, with the SPMI command failing or not. A register holds a set of named bits or a
number. `PmicMath` holds the arithmetic: voltages, current limits, converter readings, and the PWM's period with its 32-bit product
(`Eighth`, which TLC's integers can hold). The byte of a six-bit pulse width that the code writes uninitialised is left out.

### FbConsole, BamPipe, KeypadDevice, KeypadDxe

`FbConsole`: a write is a record of what is left of it; writes nest, because the line feed branch tests an
interrupt state it never saved, and a handler may write then. A line feed itself disables nothing and is six steps (`stage`); a glyph is painted
with interrupts off and is one. `torn` records that a handler wrote between two stores of a line feed. Pixels are left out: a glyph is the cell it is in.

`BamPipe`: the ring's slots, the driver's two offsets and the engine's; offsets count descriptors. Descriptors are added one by one
(`AddOne`), and one that bam_add_one_desc refuses is counted and announced like the others; `skipped` records it. A size too large is refused
and one that is no power of two ends in the code's assertion (`"asserted"`).

`KeypadDevice`: per key the state, time and flags of LibKeyUpdateKeyStatus; a read of a GPIO may fail, and a reset leaves
the focus key's state and the bitmaps. `KeypadDxe`: sections at TPL_NOTIFY
are one action; the notification handler takes a step per key and per function. `life` walks through start and
stop of the driver binding, a resource at a time. `owed` is a history of notifications due.

## Runs

| Run | Checks | Shows | Bounds |
|---|---|---|---|
| `ButtonsConsole` | TypeOK, PressedCount, OneKeyPerSession, ImplementsKeyFifo | without the timer, the console ring implements `KeyFifo` under partial polls and reset | 3 slots (wrap-around within 4 keys), 2 keys waiting, 2 buttons (one of them a modifier), 1 reset |
| `ButtonsNotify` | NotifiedAtMostOnce, RegistrationServed, ListSound, NotifiedEventually | the timer preempts every step of registration; each key reaches its function once, and does | 2 nodes, 2 codes, 2 keys |
| `ButtonsReregister` | RegistrationServed, violated | a registration after the last one left is never served | 1 node |
| `ButtonsResetRace` | OneKeyPerSession, violated | a tick inside a reset yields two keys in one session | 2 buttons, 1 reset |
| `SdhciHost` | TypeOK, DoneUnlessGaveUp, StartsClean, SendReturns | all interleavings of driver and controller over 3 commands | 4 command shapes, 2 command polls, 3 transfer polls, 3 errors of each kind with `OTHER` |
| `MmcBlockIo` | OnlyRequested, WholeOrPrefixUnlessMasked, DeviceErrorIsReal | requests of up to three chunks with lines that do not divide them | 2-byte blocks, 4-byte lines, 3-block commands, 8-block card |
| `MmcBlockIoMasked` | SuccessMeansWhole, violated | a failed transfer reported as success | as above |
| `MmcTuning` | TunedUnlessMasked, SelectedInWidestWindow, DrvTypeRestored, TuningReturns | every table of good phases, three driver types, switches lost or reported wrongly | 5 phases, all 32 tables |
| `MmcTuningStale` | SuccessMeansTuned, violated | 0 returned with no good phase set | as above |
| `MmcCard` | PowerBeforeUse, IdentificationClock, ClockWithinLimit, BusAgrees, CapacityIsTheCards, EraseExact, WpCoversRequest, PartitionRestored, InitReturns | the slot from reset to block device, and what is done with the card then | 8 cards, 9 capability sets, 24 configurations; 2 or 3 tries; 6 blocks, 2 operations |
| `Devices` | HeldIsOn, RunsAtAskedRate, TransferredInOrder, WrittenIsVisible, PressSendsItsKeys, NotificationNotLost, NothingLeftBehind | five drivers, each in full | the whole msm8909 table a peripheral at a time, 2 clients; rings of 2 and 4, one of 3 (asserted on) and one of 16 (refused), offsets that reach 4; screens of 2 and 3 columns, writes nested twice, also inside a line feed; 3 keys, one of them the focus key; 3 patterns, 2 functions, queues of 2 |
| `Platform` | SpmiReaches, PmicPost, NeverHalfConfigured, NextEdgeDetected, PinServed | three drivers, each in full | 2 channels, commands of 3 to 12 bytes, 2 commands; every PMIC function at the ends of its ranges, periods of the PWM on both sides of the wrap; 2 pins |

The bounds are chosen so that the cases that matter occur. Ring slots (3) are fewer than
the keys typed (4), so both cursors wrap; fewer keys than slots wait, because the code
has no full check and no document promises one. Retry limits of 2 and 3 make "gives up" as
common as "answers". The third command can find what the first left behind. Five
phases give rows of each length up to the wrap-around. Descriptor lines of 4 bytes against commands of 6
reproduce the code's 65536 against 65535 * 512: the last line of a chunk is short, and
full lines have length field 0. The cards are one of each path through mmc_card_init, the clock bases one that
divides evenly and one that does not. Six blocks hold two groups of three or three of two, with a range that starts
inside one. SPMI sizes of 3, 5, 8 and 12 use one, two and three words, full and short. Two pins are
the least with which one can starve the other, two clients the least that share a count. The console's screens
differ by whether a line is to spare before the clear.

`Devices` and `Platform` choose one driver in the initial state (`part`, `driver`) and leave the others at rest: the drivers share no
variable, so their product would only repeat each other's behaviours.

Runs that do not check deadlock have a reason in the system: commands, operations and keys are bounded, a card that failed
stays failed, and a client may stop calling.

### Fairness

`FairSpec` of `ButtonsDxe`: weak fairness of the tick (a periodic timer keeps expiring
while armed) and of an application call that has begun. `SdhciHost`: weak fairness of the
driver alone; it polls a register and the controller owes it nothing, so `SendReturns` rests on
the retry counters. `MmcTuning`: weak fairness of the driver's own loop, and of
the delay line's clock stopping when told to: of the tuning's waits the one at sdhci_msm.c 421 has no timeout, so `TuningReturns` assumes that of the
hardware. `Slot`: weak fairness of the
driver, of an unmasked interrupt, and of the controller where the code waits for it without a limit (the power
request it was asked for, the stable clock); the retry loops of the card rest on their counters. `Platform`: weak fairness of
the pin driver's own steps and of the handler while an interrupt is raised; pins and clients owe nothing.
Callers are never assumed to call again.

### What the code does otherwise

Four runs expect a violation; PROJECT.json's findings quote the comment each contradicts. In short:

1. CloseEvent is used where the comment says "cancel the timer": registrations after the
   last one left are dead, and their caller gets no handle.
2. A reset races the timer: two keys in one press session.
3. The result of a failed transfer is replaced by the result of the stop command, or by a
   response that came before the data.
4. sdhci_msm_execute_tuning returns 0 when the selected phase could not be set, and keeps phases on
   stale data.

Other things met while modelling, which the properties exempt by name. The first four contradict a comment as well, and TLC
finds the first three when the exemption is dropped:

* Tuning: the switch that restores the driver type ("Restore the driver strength to default value", sdhci_msm.c 798) runs while errors of
  commands are ignored, so the card may miss it and nobody is told (`lost`).
* Erase: an erase over a protected group logs that only part of the range was erased, and returns 0 (mmc_sdhci.c 2080-2102).
* BAM: bam_add_desc ("notifies the BAM about the added descriptors", bam.c 315) drops the failure of bam_add_one_desc and announces
  the descriptor all the same (`skipped`).
* PWM: pm_pwm_config accepts periods up to 384 s ("1K, n=9, m=7, pre=6", pm_pwm.c 228), and its 32-bit product wraps from 274.9 s on, so that the
  longest is set to about 109 s (`PeriodWraps`).
* Card: the half clock of HS400 is never taken back, although the code means to (mmc_sdhci.c 845-853, sdhci_msm.c 249-259),
  and `ClockWithinLimit` holds because it only makes the clock slower. The DDR fallback sets 8 lines on any host (`NarrowDdr`).
  mmc_sd_set_hs ignores whether the card took high speed (`Refused`). A sector count with its top bit set is sign
  extended. On SD cards ext_csd is a null pointer that the reset, decode and erase code reads (`"fault"`). HS400 asks for a
  rate the msm8909 table lacks and ends in an ASSERT.
* Erase rounds a start inside a group down only on one end; an SD card with erase unit 0 divides by zero. Write protection takes
  the erase unit for the group on high-capacity cards, and rounds by masking, which needs a power of two. A failed re-read of ext_csd
  leaves a buffer nobody read, from which the next RPMB switch takes the boot configuration (`garbled`). An RPMB switch that
  took effect and was reported failed is not switched back (`switchFailed`). Retry counters are shared by the groups of one request.
* Buttons: KeysDxeReadKeyStrokeEx notifies the functions registered for the key it returns, which the poll that made the key
  had notified: a key read that way is notified twice (`KeysNotifiedOnce` is about the other ways to read).
* Power: the handler answers by the mask register, so clearing also enables what was not asked. A reset interrupt that comes after
  the clear is assumed not to.
* Clocks: the names of QUP6 find QUP5's clocks; six table entries cannot make their rate (`Misprogrammed`).
* Pins: no driver of the tree is a client; on the shipping detection width the emulation is not used. The emulation's first
  polarity is falling whatever the level, so `NextEdgeDetected` is about pins that were high when their type was set; and
  about those that do not move while they are acknowledged, since the code gives up on a pin that does not settle. A pin latched by the boot loader but
  not in the bitmap makes the handler report an unexpected interrupt for ever.
* SPMI: a peripheral the arbiter does not list goes through an uninitialised table entry; polling has no limit.
* PMIC: results of commands are ignored, so a lost write is a step not taken. COMP_OVR0 is not restored by pm8xxx_is_battery_broken, and pmi8994_is_battery_broken
  leaves float voltage, TERM_EN and POLLER changed. The LDO multiplier wraps below the range's minimum. An input current
  limit between 100 and 150 mA is raised to 150, as `PmicPost` says. An unknown converter channel reads the
  last entry of the table. ResetWarm is a hard reset.
* Console: an image has its own copy of the library, with its own cursor, and the model is of one. At the last line the
  screen is cleared and the character painted again; nothing scrolls. A screen of 24 lines of pixels would never be cleared, since the test for
  the last line subtracts without sign; `ScreensAssumption` asks for 25. A handler that writes between two stores of a line feed may lose its
  place, and `WrittenIsVisible` exempts the cells (not the colours) from there to the next clear.
* BAM: a transfer of exactly the ring's size is let in by bam_add_desc, dropped by bam_sys_gen_event and reported
  done; the model's client makes one too, and waits for ever. Offsets are 16 bits wide, so sizes above 8192 descriptors, which the size check lets in,
  do not work; `TransferredInOrder` is about the others, while no descriptor was refused.
* Keypad (no image contains it): a key is notified as many times as it has registrations, squared; a failed context allocation
  frees the list of a null pointer (`"faulted"`); a refused stop leaves the driver running without its timer; KeypadSetState returns an
  uninitialised status; a volume key whose GPIO read fails keeps its last level in power's combinations.

## Proofs

`SdhciHost_proofs` proves, for every set of commands, every retry limit and every set of error bits:

* `TypeCorrect`: `Spec => []TypeOK`, one step per action.
* `StatusCorrect`: `Spec => []StatusIsOurs`, the inductive invariant.
* `CleanStart`: `Spec => []StartsClean`.
* `SuccessIsTruthful`: `Spec => []DoneUnlessGaveUp`.

`StartsClean` and `DoneUnlessGaveUp` are not inductive: that a 0 is true depends on the driver's
place, on the locals it derived from the status registers and on the bits still set in
them. `StatusIsOurs` says for each place what a set bit means while no call has given
up: CMD_COMPLETE only with this command's response latched, TRANS_COMPLETE only after
response and transfer, no CMD_COMPLETE left during the transfer loop, clean status and
free lines at the exits that report no error. Its proof has a lemma for the controller's steps, one for a
polling loop's turn (`PollStatus`), one for a reset (`ResetStatus`) and one step per
driver action. `ReturnTruthful` then reduces `DoneUnlessGaveUp` to what holds at each return. The
only assumption is `SdhciAssumption` on the constants.

`Slot_proofs` proves the eight safety invariants of the run `MmcCard` for `SlotSpec`, any cards, capabilities, platforms
and retry limits (`SlotAssumption`):

* `PoweredFirst` (`PowerBeforeUse`). The invariant ties the event to the bus: after the clearing nothing is
  pending until the request for power is raised, so only the answer to it can signal the event.
* `IdentifiedSlowly` (`IdentificationClock`). `LeastDivider` shows that the code's divider is the least
  that keeps the card at 400 kHz, `RegisterHoldsDivider` that the controller reads it back from the register's two fields, and
  `ClockSound` that the register holds it when the clock is turned on.
* `ClockKeepsWithinLimit`, `LinesAgree`, `CapacityDecoded` (`ClockWithinLimit`, `BusAgrees`, `CapacityIsTheCards`). None is inductive: that a
  switch is safe rests on the switches before it. `CardInv` says where in which of the code's six sequences of steps the
  driver stands (`At`), and for each place how wide, in which timing and at most how fast host and card are there (`AtMmc`,
  `AtSd`, `AtHs200`, ...). The place is read off `todo`; each step then has a lemma that it leads from one place
  to the next or ends the initialisation. `PacedClock` is the clock's arithmetic: with the divider the driver computes, the card is
  never faster than asked, whatever base clock the capability register names.
* `UserPartitionAfterRpmb` (`PartitionRestored`): whatever RPMB command fails, and whatever the re-read of ext_csd leaves.
* `EraseStaysInRange` (`EraseExact`): `WholeGroupsErased` compares the card's rounding with the driver's, for every erase unit; groups that were
  protected are excepted.
* `ProtectionCovers` (`WpCoversRequest`): `MaskRoundsDown` shows that the mask of ROUNDUP is a division by the group when the
  group is a power of two, from the binary digits of a number; `WpInv` says which groups are protected after each command.

`SlotAssumption`: the retry limits are at least 1, as their three macros are; a card's registers name its size as the standards lay down,
without which no driver could be right; a request rounded up to a group stays within the mask's bits, which a
card's block count does; and the core clock of the platform (`CORE_KHZ`, 200 MHz) is no faster than the base clock of the capability
register, by which the driver divides. `IdentifiedSlowly` does without the last.

`Devices_proofs` proves about `ClockTree`, for every table of clocks, names and clients (`TreeAssumption`):

* `ClocksHeldAreOn`: `Spec => []HeldIsOn`. That a clock is on while held needs its count, and the count
  needs all its holders: `CountIsHeld` says a clock that is not a source is counted once for every
  enable held under any of its names, so a disable by one client leaves the count above zero for another. Sources are counted by
  set_rate as well, and are left out of it. `EnableOne`, `DisableOne` and `RateOne` say what the operators on `tree`
  return, and `EnableSound`, `DisableSound`, `RateSound` that they keep `Sound`; one lemma per action follows.
* `RootsAreFed`: `Spec => []SourceLive`, a root with a frequency has its source on.

and about `Devices` (`DevicesAssumption`), a driver at a time; steps of the other drivers leave
its variables alone, so that its invariant is one of the composition:

* `WritesAreVisible` (`WrittenIsVisible`): every screen with room for a character and a pixel line more, writes of any length nested to any depth. `FbSound` keeps the cursor and
  the drawn cells on the screen, the cells before the cursor and one to a character, at each step of a line feed, unless the screen is `torn`, and gives every interrupted write the colour it set.
* `TransfersInOrder` (`TransferredInOrder`): rings of any size the offsets reach, while no descriptor was refused; the mask is a remainder because a ring in use
  has a power of two for a size. `BamSound` places the driver's offset, the engine's, the event
  register and the slots of one transfer on one ring; `AroundMoves` is the arithmetic of its wrap.
* `PressesSend` (`PressSendsItsKeys`): any keys, limits and times between polls. `TurnOfKey` lists the seven things a key's turn in a
  poll can do to its press, and `PressGoesOn` that each keeps `SoundPress`.
* `KeypadLeavesNothing` (`NothingLeftBehind`): `BindingSound` gives what is held at each step of a start.
* `NotificationsKept` (`NotificationNotLost`): queues of any capacity, any registrations. `NotifySound` says an owed notification's key is
  queued or in the handler's hand before the registration, and the handler is signalled whenever the queue is not empty. The keys of
  a poll are flattened from those of its patterns by a recursive function of the community modules; `FlattenExists` and
  `FlattenProperties` are proved by `NatInductionSet`, induction stated with a set in place of a predicate.

`Platform_proofs` proves about `Platform` (`PlatformAssumption`), in the same way:

* `CommandsReach` (`SpmiReaches`): any peripherals, channels and leftovers in the table. `SpmiSound` says that the table points each listed
  peripheral at the last channel that names it, that the words hold the bytes in order, and what the arbiter has done; `WordRead` and
  `BytesRead` put together what mask, shift and counter take out of the three words.
* `EdgesDetected` (`NextEdgeDetected`): any pins, clients and trigger types, for pins that were high when their type was set and do not
  move while they are acknowledged. `EdgeSound` relates polarity, level and status of a pin in step at
  each place of the emulation.
* `CallsKeepTheirWord` (`PmicPost`) and `DisabledWhileItChanges` (`NeverHalfConfigured`): any calls with the arguments callers may give, any
  register contents, any converter codes. `PmicSound` says how far the call has come in its program (`PmAt`) and, per family of
  calls, what registers and saved values hold there (`ResetHere`, `PinHere`, `BatteryHere`, `AdcHere`, ...). Each kind of instruction has a
  lemma on its effect (`Writes`, `Ors`, `Polls`, ...); a family has `...Order`, the instruction at each place, `...Starts`, `...Step` and
  `...Done`, the postcondition at the last place.
  Behind three of the postconditions is arithmetic. `PeriodClosest`: the error of pm_pwm's settings falls and then rises along the
  exponent (`ErrorTurns`), so the inner loop that stops at the first worse one misses nothing; `PeriodNearTrue` bounds what dividing
  a long period first loses. Periods that wrap are excepted. `ReadingExact`: the calibrated reading differs
  from the exact line by no more than the rounding of the gain. `LimitsRoundDown`: a charger's battery limits are within a step below those
  asked for, its input current limit not above, but for the case 100 to 150 mA.

`CallsAssumption` excludes what no caller does: a SID above 2, a reset type that is the enable bit, a channel outside the
table, an LDO voltage its 8-bit register cannot hold. `CodesAssumption` keeps the converter's codes in the range to which adc_limit_result_range
clips them, its references in order and a channel not below its reference; the code divides by the difference of the first two.

`ButtonsDxe_proofs` proves, for any buttons, codes, rings, pools of nodes and clients (`ConstantsAssumption`):

* `TypeCorrect`: `Spec => []TypeOK`.
* `ConsoleIsKeyFifo`: `Spec => ImplementsKeyFifo`, the refinement, when fewer keys wait than the ring has slots
  (`MaxUnread < MAX_KEYS_TO_BUFFER`; the code has no full check). `UnreadWait` says that what the history `unread` holds is what
  lies between the two cursors, in order; `RoundOnce` is the arithmetic of the cursors. Each action then maps to a put, a take, a
  clear or a stutter.
* `CountIsRight` and `SessionGivesOneKey`: `Spec /\ []Undisturbed => []PressedCount` and `[]OneKeyPerSession`. `SessionSound` says that the
  slots store each key of the matrix once, that the count is theirs, and what a session has made at each point of the detection.
  `Undisturbed` (no timer armed while a reset is between its stores) is what the run `ButtonsResetRace` shows to be needed;
  `QuietResets` derives it when clients do not both register and reset.
* `ListStaysSound` and `RegistrationsServed`: `ListSound` and `RegistrationServed` with the timer free to preempt each store of
  an edit, for pools of at most 255 nodes (the counter has 8 bits); the second without a registration after the last one left
  (`~Reregister`), which the run `ButtonsReregister` refutes. Invariants: `ListLinked` (what each link is at each step of an edit),
  `ListCounted`, `ListServed`.
* `KeysNotifiedOnce`: `NotifiedAtMostOnce`, while `Undisturbed` and without KeysDxeReadKeyStrokeEx, which notifies again.

`MmcTuning_proofs` proves, for any number of phases and driver types:

* `ChosenPhase`: for every non-empty table of good phases the phase chosen by the code's rows, its merge of the last row into the first and its three-quarter
  index is good, in a widest window of the circle, and off the window's edges if it has three phases. A row is a maximal
  interval; the merged one is an arc through phase 0; every arc of good phases lies in a row, so none is longer than the longest.
* `TuningTracked`, and from it `SuccessIsTuned` (`TunedUnlessMasked`), `WidestWindow` (`SelectedInWidestWindow`) and
  `DefaultDrvType` (`DrvTypeRestored`). `TuningSound` says what the phases kept and the saved phase are worth at each place, and where the card
  may be on another type than its default. `DefaultDrvType` excepts a restore that was lost itself.

`MmcBlockIo_proofs` proves, for any card, block, descriptor line and command size (`BlockIoAssumption`):

* `TransferTracked`: the invariant `BlockIoSound`: between two commands there is a number of blocks such that address, length and buffer pointer stand
  after them and, unless a failure was masked, exactly they have moved.
* `NothingElseMoves` (`OnlyRequested`), `WholeOrPrefix` (`WholeOrPrefixUnlessMasked`), `ErrorsAreReal` (`DeviceErrorIsReal`). `TableLines`, `TableStarts` and `TableAddress` show that the
  lines of a chunk are laid end to end and byte j of it is moved to byte j of the buffer, whether the last line is full or short.

The assumption's last conjunct says that a block number and a buffer's blocks do not add up beyond the width of an
address: LBAs have 64 bits, capacity and buffers are counts of bytes of which the larger has 64 and the smaller 32.

Only model-checked:

* All liveness (`SendReturns`, `TuningReturns`, `NotifiedEventually`, `InitReturns`, `PinServed`): it rests on fairness, and TLAPS has no
  reasoning about ENABLED here.
* `RunsAtAskedRate`: a property of the entries of one table, which TLC looks at one by one.

## Plan

1. A re-entrant notification loop for `ButtonsDxe`, and its start-up failures.
2. PlatformBootManagerLib's order of connecting and registering, if its libraries' promises are stated first.

Composition: `SdhciHost` is the layer under the outcomes of `MmcBlockIo`, the reads of `MmcTuning` and the ends of
`MmcCard`'s commands. They are kept apart because their product exceeds TLC's reach; the contract between them is
`SuccessIsTruthful`, and `Outcome` of `MmcBlockIo` allows every result the engine can give,
false successes included. `SdhciInit`, `MmcCard` and `MmcManage` are composed in `Slot`, over the capabilities the first
reads and the second uses. `Pmic` stands over `Spmi` by the contract `SpmiReaches`: a command does what it says or
reports failure.

## Not modelled

PROJECT.json lists every component with its reason. PlatformBootManagerLib is one pass of calls in a fixed
order into libraries of EDK2 that are not in this repository: what it would be right or wrong about is their state. PrePi and
the memory library run once, alone, before interrupts. LcmLib, StrLib and MicroLibC are functions
of their arguments; MallocLib puts a header before a block of EDK2's pool; QTimerLib reads a counter twice and waits.
SimpleFbDxe has one mode and leaves drawing to a library; GpioTlmmDxe's setters are a register write each. Of clock-local.c, PLLs that are not voted
for and block resets, the msm8909 table has no instance. DloadUtilLib has no caller. Left out for good: ACPI tables, logos,
SMBIOS tables, register bit layouts, cache maintenance and pixels.
