----------------------------- MODULE MmcManage -----------------------------
(***************************************************************************)
(* The operations of mmc_sdhci.c on an initialised card beside reading and *)
(* writing: erase, power-on write protection, RPMB and sleep.  They share  *)
(* the driver's copy of the extended CSD, which the write protection reads *)
(* again into a new buffer, and the card's partition register, which reads *)
(* and writes of blocks depend on.                                         *)
(***************************************************************************)
EXTENDS Integers, FiniteSets

CONSTANTS
    Blocks,        \* the size of the card
    Units,         \* the erase units, in blocks, a card may have
    StatRetry,     \* MMC_MAX_CARD_STAT_RETRY
    RpmbRetry,     \* the polls mmc_sdhci_rpmb_send allows
    MaxOps         \* bound on the operations of a behaviour

MAX_RPMB_CMDS == 3
PART_ACCESS_DEFAULT == 0
PART_ACCESS_RPMB == 3

\* The bits of an integer, by their weights; the code's uint32_t has one more.
Weights == {1, 2, 4, 8, 16, 32, 64, 128, 256, 512, 1024, 2048, 4096, 8192, 16384, 32768,
            65536, 131072, 262144, 524288, 1048576, 2097152, 4194304, 8388608, 16777216,
            33554432, 67108864, 134217728, 268435456, 536870912, 1073741824}
AllBits == 2147483647
Bit(x, w) == (x \div w) % 2
\* The bitwise "and" is the number that has the common bits.
And(x, y) == CHOOSE z \in 0..x : \A w \in Weights : Bit(z, w) = Bit(x, w) * Bit(y, w)

\* A request rounded up to a group stays within the bits of a mask.
ManageAssumption ==
    /\ Blocks \in Nat \ {0} /\ Blocks <= AllBits - 1024 /\ Units \subseteq Nat
    /\ StatRetry \in Nat /\ RpmbRetry \in Nat /\ MaxOps \in Nat

VARIABLES
    dev,       \* the card: kind, unit, wp group, erased and protected blocks and
               \* those protected before the operation, registers
    ext,       \* card->ext_csd: was it read, and the PARTITION_CONFIG it holds
    op,        \* the operation under way
    ops        \* operations so far
gvars == <<dev, ext, op, ops>>

\* No operation, and the fields an operation has.
Idle == [name |-> "none", of |-> "none", ret |-> 0, addr |-> 0, len |-> 0, unit |-> 0,
         set |-> FALSE, i |-> 0, retry |-> 0, left |-> 0, failed |-> FALSE]
NoDev == [kind |-> "none"]

BlocksOf(first, n) == {b \in 0..Blocks - 1 : first <= b /\ b < first + n}
Group(b, size) == BlocksOf((b \div size) * size, size)

Init == dev = NoDev /\ ext = [good |-> TRUE, boot |-> 1, access |-> 0] /\ op = Idle /\ ops = 0

\* The card as mmc_card_init leaves it.  A write-protect group is one or two
\* erase units; on a card with high-capacity groups the driver takes the erase
\* unit for it (mmc_sdhci.c 230-234).
Open(kind) ==
    /\ dev = NoDev
    /\ \E unit \in Units, group \in {1, 2}, hc \in BOOLEAN, pwrDis \in BOOLEAN :
          /\ kind = "mmc" => unit > 0
          /\ kind = "sd" => group = 1 /\ ~hc /\ ~pwrDis
          /\ dev' = [kind |-> kind, unit |-> unit, group |-> group * unit,
                     known |-> IF hc THEN unit ELSE group * unit, pwrDis |-> pwrDis,
                     state |-> "tran", erased |-> {}, protected |-> {}, before |-> {},
                     boot |-> 1, access |-> PART_ACCESS_DEFAULT,
                     switchFailed |-> FALSE, garbled |-> FALSE]
    /\ UNCHANGED <<ext, op, ops>>

Ready == dev # NoDev /\ dev.state = "tran" /\ op.name = "none" /\ ops < MaxOps
Return(o, ret) == op' = [o EXCEPT !.name = "returned", !.of = o.name, !.ret = ret]

\* The next operation is looked at on its own: what the last one erased is
\* forgotten, what is protected stays so.
Forget ==
    /\ op.name = "returned"
    /\ op' = Idle
    /\ dev' = [dev EXCEPT !.erased = {}, !.before = dev.protected]
    /\ UNCHANGED <<ext, ops>>

(* mmc_sdhci_erase *)

\* What CMD38 names: on an MMC card whole groups, on an SD card blocks.
Named(first, last) ==
    IF dev.kind = "mmc"
    THEN UNION {Group(b, dev.unit) : b \in {b \in 0..Blocks - 1 : first <= b /\ b <= last}}
    ELSE {b \in 0..Blocks - 1 : first <= b /\ b <= last}
\* The card skips what is protected and says so in its status, WP_ERASE_SKIP,
\* which mmc_send_erase prints and does not return (mmc_sdhci.c 2080-2082).
ErasedBy(first, last) == Named(first, last) \ dev.protected

\* Mutant: the end of the range is one group too far.
EraseEndBeyond(addr, len, unit) == addr + (len \div unit) * unit
EraseEnd(addr, len, unit) ==
    LET last == addr + ((len \div unit) - 1) * unit
    IN  IF last > addr + len THEN last - unit ELSE last

mmc_sdhci_erase ==
    /\ Ready
    /\ \E addr \in 0..Blocks - 1, len \in 0..Blocks :
       \E unit \in IF ext.good \/ dev.kind = "sd" THEN {dev.unit} ELSE {0, 1, dev.unit} :
          LET o == [Idle EXCEPT !.name = "erase", !.addr = addr, !.len = len, !.unit = unit]
          IN  /\ addr + len <= Blocks
              /\ \/ len < unit /\ Return(o, 1) /\ dev' = dev
                 \* a unit of no blocks, or the timeout byte of an SD card
                 \/ (unit = 0 \/ (len >= unit /\ dev.kind = "sd")) /\ Return(o, 2) /\ dev' = dev
                 \/ /\ unit > 0 /\ len >= unit
                    \* a command or the status after it fails, erased or not
                    /\ \E ret \in {0, 1}, done \in BOOLEAN :
                          /\ ret = 0 => done
                          /\ dev' = IF done
                                    THEN [dev EXCEPT !.erased =
                                            ErasedBy(addr, EraseEnd(addr, len, unit))]
                                    ELSE dev
                          /\ Return(o, ret)
    /\ ops' = ops + 1
    /\ UNCHANGED ext

(* mmc_set_clr_power_on_wp_user *)

\* ROUNDUP of LKEnvLib.h, which takes its second argument for a power of two.
ROUNDUP(a, b) == And(a + b - 1, AllBits - (b - 1))
\* Mutant: the last, partial group is dropped.
WholeGroups(len, size) == len \div size
WpGroups(len, size) == ROUNDUP(len, size) \div size

\* The permanent protection is disabled before every check, and the extended
\* CSD read into a new buffer, which stays unread when that fails.
mmc_set_clr_power_on_wp_user ==
    /\ Ready /\ dev.kind = "mmc"
    /\ \E addr \in 0..Blocks - 1, len \in 1..Blocks, set \in BOOLEAN,
          end \in {"ok", "no switch", "no read", "no enable"} :
          LET o == [Idle EXCEPT !.name = "wp", !.addr = addr, !.len = len, !.set = set]
          IN  /\ addr + len <= Blocks
              /\ \/ end = "no read" /\ \E boot \in {0, 1} :
                       ext' = [good |-> FALSE, boot |-> boot, access |-> PART_ACCESS_DEFAULT]
                 \/ end = "no switch" /\ ext' = ext
                 \/ end \in {"ok", "no enable"}
                    /\ ext' = [good |-> TRUE, boot |-> dev.boot, access |-> dev.access]
              /\ IF end # "ok" \/ dev.pwrDis \/ len < dev.known THEN Return(o, 1) ELSE op' = o
    /\ ops' = ops + 1
    /\ UNCHANGED dev

\* CMD28 or CMD29 for one group, and the polls after it, which count on over
\* the groups.
WpGroup ==
    /\ op.name = "wp" /\ op.i < WpGroups(op.len, dev.known)
    /\ LET b == op.addr + op.i * dev.known
           at == IF b < Blocks THEN Group(b, dev.group) ELSE {}
       IN  \/ Return(op, 1) /\ dev' = dev
           \/ /\ b < Blocks
              /\ dev' = [dev EXCEPT !.protected = IF op.set THEN @ \cup at ELSE @ \ at]
              /\ \E polls \in 1..StatRetry :
                    IF op.retry + polls >= StatRetry THEN Return(op, 1)
                    ELSE op' = [op EXCEPT !.i = @ + 1, !.retry = @ + polls]
    /\ UNCHANGED <<ext, ops>>

WpDone ==
    /\ op.name = "wp" /\ op.i = WpGroups(op.len, dev.known)
    /\ Return(op, 0)
    /\ UNCHANGED <<dev, ext, ops>>

(* mmc_sdhci_rpmb_send and mmc_sdhci_switch_part *)

\* The new value is the driver's copy with the access bits replaced.
PartAccess(type) == type
mmc_sdhci_switch_part(type, end) ==
    /\ dev' = IF end = "lost" THEN [dev EXCEPT !.switchFailed = TRUE]
              ELSE [dev EXCEPT !.boot = ext.boot, !.access = PartAccess(type),
                               !.switchFailed = @ \/ end = "late",
                               !.garbled = @ \/ ~ext.good]
    /\ ext' = IF end = "ok" THEN [ext EXCEPT !.access = PartAccess(type)] ELSE ext

RpmbStart ==
    /\ Ready /\ dev.kind = "mmc"
    /\ \E n \in 1..MAX_RPMB_CMDS, end \in {"ok", "lost", "late"} :
          LET o == [Idle EXCEPT !.name = "rpmb", !.left = n, !.retry = RpmbRetry]
          IN  /\ mmc_sdhci_switch_part(PART_ACCESS_RPMB, end)
              /\ IF end = "ok" THEN op' = o ELSE Return(o, 1)
    /\ ops' = ops + 1

\* Mutant: a failed command returns at once.
RpmbReturnEarly ==
    /\ op.name = "rpmb" /\ op.left > 0 /\ ~op.failed
    /\ \/ Return(op, 1)
       \/ op' = [op EXCEPT !.left = @ - 1]
    /\ UNCHANGED <<dev, ext, ops>>
\* CMD23, the command, and the polls; the count of polls runs over the commands.
RpmbCommand ==
    /\ op.name = "rpmb" /\ op.left > 0 /\ ~op.failed
    /\ \/ op' = [op EXCEPT !.failed = TRUE]
       \/ \E polls \in 1..RpmbRetry :
             op' = IF polls >= op.retry THEN [op EXCEPT !.failed = TRUE]
                   ELSE [op EXCEPT !.left = @ - 1, !.retry = @ - polls]
    /\ UNCHANGED <<dev, ext, ops>>

RpmbEnd ==
    /\ op.name = "rpmb" /\ (op.left = 0 \/ op.failed)
    /\ \E end \in {"ok", "lost", "late"} :
          /\ mmc_sdhci_switch_part(PART_ACCESS_DEFAULT, end)
          /\ Return(op, IF end # "ok" \/ op.failed THEN 1 ELSE 0)
    /\ UNCHANGED ops

\* mmc_put_card_to_sleep: CMD7 without a response, then CMD5.
mmc_put_card_to_sleep ==
    /\ Ready
    /\ \E deselected \in BOOLEAN, asleep \in BOOLEAN :
          dev' = [dev EXCEPT !.state = IF ~deselected THEN "tran"
                                       ELSE IF asleep THEN "sleep" ELSE "stby"]
    /\ ops' = ops + 1
    /\ UNCHANGED <<ext, op>>

ManageStep ==
    \/ mmc_sdhci_erase \/ mmc_set_clr_power_on_wp_user \/ WpGroup \/ WpDone
    \/ RpmbStart \/ RpmbCommand \/ RpmbEnd \/ mmc_put_card_to_sleep \/ Forget

(* Properties *)

Returned(name) == op.name = "returned" /\ op.of = name
Asked == BlocksOf(op.addr, op.len)

\* An erase never reaches outside the range asked for, and one that returns 0
\* on an MMC card erased every whole group of it but for what is protected,
\* provided the range starts on a group and the driver's copy of the extended
\* CSD is one it read (mmc_sdhci.c 2045-2190).
EraseExact ==
    (Returned("erase") /\ ext.good) =>
        /\ (dev.kind = "sd" \/ op.addr % dev.unit = 0) => dev.erased \subseteq Asked
        /\ (op.ret = 0 /\ dev.kind = "mmc" /\ op.addr % dev.unit = 0) =>
              dev.erased = BlocksOf(op.addr, (op.len \div dev.unit) * dev.unit) \ dev.protected

PowersOf2 == {1, 2, 4, 8, 16, 32, 64, 128, 256, 512, 1024}
\* A request to protect that succeeds leaves every block asked for protected,
\* and whatever its outcome adds none of a group that holds no such block,
\* provided it starts on a group and the size the driver takes for a group is
\* a power of two (mmc_sdhci.c 2231-2343).
WpCoversRequest ==
    (Returned("wp") /\ op.set /\ op.addr % dev.group = 0 /\ dev.known \in PowersOf2) =>
        /\ op.ret = 0 => Asked \subseteq dev.protected
        /\ \A b \in dev.protected \ dev.before : Group(b, dev.group) \cap Asked # {}

\* When an RPMB transfer has returned, failed or not, the card is back on the
\* user partition, where reads and writes of blocks go, and its boot
\* configuration is what it was, unless a switch itself failed or the driver
\* made one out of registers it never read (mmc_sdhci.c 2373-2475).
PartitionRestored ==
    (dev # NoDev /\ op.name # "rpmb" /\ ~dev.switchFailed) =>
        dev.access = PART_ACCESS_DEFAULT /\ (dev.boot = 1 \/ dev.garbled)
=============================================================================
