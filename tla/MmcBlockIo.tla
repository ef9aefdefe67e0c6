------------------------------ MODULE MmcBlockIo ------------------------------
(***************************************************************************)
(* The block device: the EFI block I/O calls of MMCHS.c, the read and the  *)
(* write of mmc_sdhci.c under them and the ADMA descriptor table of        *)
(* sdhci.c that names the memory each command moves                        *)
(* (src/Driver/SdhciMMCHSDxe).                                             *)
(*                                                                         *)
(* A request is cut into commands of at most SDHCI_ADMA_MAX_TRANS_SZ       *)
(* bytes, one after the other.  What sdhci_send_command and the card make  *)
(* of a command is an outcome: its return value, the response it copied    *)
(* and how many blocks moved before it ended.  The engine that produces    *)
(* outcomes is SdhciHost.                                                  *)
(*                                                                         *)
(* moved, failed and masked are history variables.                         *)
(***************************************************************************)
EXTENDS Integers, Sequences, FiniteSets

CONSTANTS
    block_size,               \* bytes of a card block (512)
    SDHCI_ADMA_DESC_LINE_SZ,  \* bytes of one descriptor line (65536)
    MAX_BLOCKS,               \* blocks of the largest command (65535)
    LastBlock,                \* the last block of the card
    LbaModulus,               \* 2^64: EFI_LBA arithmetic wraps
    Types,                    \* card types: "STD" cards are byte addressed
    Lbas, BufferSizes         \* bounds: the requests callers make

SDHCI_ADMA_MAX_TRANS_SZ == MAX_BLOCKS * block_size

ASSUME BlockIoAssumption ==
    /\ block_size \in Nat \ {0} /\ SDHCI_ADMA_DESC_LINE_SZ \in Nat \ {0}
    /\ MAX_BLOCKS \in Nat \ {0} /\ LastBlock \in Nat
    /\ LbaModulus \in Nat /\ LbaModulus > LastBlock
    /\ Types \subseteq {"STD", "MMCHC"}
    /\ Lbas \subseteq 0 .. LbaModulus - 1 /\ BufferSizes \subseteq Nat
    (* the capacity is a 64-bit count of bytes, BufferSize a 32-bit one *)
    /\ \A b \in BufferSizes : LastBlock + b <= LbaModulus

VARIABLES
    pc,         \* "idle", "chunk" (in the loop of mmc_read or mmc_write) or "stop"
    op,         \* "Read" or "Write"
    req,        \* the request: its Lba, its BufferSize and the card's type
    data_addr, data_len, sptr,   \* the loop's locals, in bytes
    status,     \* the EFI status of the last call
    moved,      \* history: <<card block, byte of it, buffer byte>> moved
    failed,     \* history: a command failed, or its response reported an error
    masked      \* history: a command failed and its caller was told it had not

vars == <<pc, op, req, data_addr, data_len, sptr, status, moved, failed, masked>>
loopVars == <<data_addr, data_len, sptr>>

Request == [Lba : Lbas, BufferSize : BufferSizes, type : Types]

-----------------------------------------------------------------------------
(* sdhci_prep_desc_table: one line per SDHCI_ADMA_DESC_LINE_SZ bytes; the   *)
(* 16-bit length field holds 0 for a full line.                             *)

sg_len(len) == IF len <= SDHCI_ADMA_DESC_LINE_SZ THEN 1
               ELSE len \div SDHCI_ADMA_DESC_LINE_SZ
                    + IF len % SDHCI_ADMA_DESC_LINE_SZ = 0 THEN 0 ELSE 1
LineLength(rest) == IF rest < SDHCI_ADMA_DESC_LINE_SZ THEN rest ELSE 0
(* Mutant: the lines' address does not advance. *)
DescTableSameAddress(data, len) ==
    [i \in 1 .. sg_len(len) |->
        [addr |-> data, len |-> LineLength(len - (i - 1) * SDHCI_ADMA_DESC_LINE_SZ),
         end |-> i = sg_len(len)]]
sdhci_prep_desc_table(data, len) ==
    [i \in 1 .. sg_len(len) |->
        LET before == (i - 1) * SDHCI_ADMA_DESC_LINE_SZ IN
        [addr |-> data + before, len |-> LineLength(len - before), end |-> i = sg_len(len)]]

(* What the controller makes of a table: it takes the lines in order up to  *)
(* the first that ends the table, and each moves LineBytes from its address.*)
LineBytes(line) == IF line.len = 0 THEN SDHCI_ADMA_DESC_LINE_SZ ELSE line.len
LastLine(table) ==
    CHOOSE i \in DOMAIN table : table[i].end /\ \A k \in 1 .. i - 1 : ~table[k].end
(* The bytes the lines before each line move.                               *)
Starts(table) ==
    LET start[i \in 1 .. LastLine(table)] ==
            IF i = 1 THEN 0 ELSE start[i - 1] + LineBytes(table[i - 1])
    IN  start
(* The address of byte j of the transfer, counted from 0.                   *)
Address(table, starts, j) ==
    LET i == CHOOSE i \in DOMAIN starts : j - starts[i] \in 0 .. LineBytes(table[i]) - 1
    IN  table[i].addr + (j - starts[i])

(* mmc_sdhci_read and mmc_sdhci_write: the command's argument is a byte     *)
(* address on standard cards and a block number on the others.              *)
Argument(blk_addr) == IF req.type = "STD" THEN blk_addr * block_size ELSE blk_addr
FirstBlock(argument) == IF req.type = "STD" THEN argument \div block_size ELSE argument

(* The bytes moved when the first n blocks of a command of num_blocks go.   *)
Moves(blk_addr, num_blocks, n) ==
    LET first == FirstBlock(Argument(blk_addr))
        table == sdhci_prep_desc_table(sptr, num_blocks * block_size)
        starts == Starts(table) IN
    {<<first + b, k, Address(table, starts, b * block_size + k)>> :
        b \in 0 .. n - 1, k \in 0 .. block_size - 1}

(* Outcomes of sdhci_send_command with the blocks that moved. The response  *)
(* is "none" when it was never copied (cmd.resp is zeroed before), "tran"   *)
(* when it reports no error, "bad" when it does.                            *)
Outcome(num_blocks) ==
    {[ret |-> 0, resp |-> "tran", n |-> num_blocks]}
    \cup [ret : {0}, resp : {"bad"}, n : 0 .. num_blocks]
    \cup {[ret |-> 1, resp |-> "none", n |-> 0]}
    \cup [ret : {1}, resp : {"tran", "bad"}, n : 0 .. num_blocks]
StopOutcome == [ret : {0}, resp : {"tran", "bad"}] \cup [ret : {1}, resp : {"none", "tran", "bad"}]

(* Mutant: the two results are swapped. *)
ParseSwapped(resp) == IF resp = "tran" THEN 1 ELSE 0
mmc_parse_response(resp) == IF resp = "tran" THEN 0 ELSE 1

-----------------------------------------------------------------------------
Init ==
    /\ pc = "idle" /\ op = "Read" /\ req \in Request
    /\ data_addr = 0 /\ data_len = 0 /\ sptr = 0
    /\ status = "EFI_SUCCESS" /\ moved = {} /\ failed = FALSE /\ masked = FALSE
    /\ req.BufferSize = 0

(* The checks of MMCHSReadBlocks and MMCHSWriteBlocks, in their order.      *)
Rejected(r) ==
    IF r.Lba > LastBlock THEN "EFI_INVALID_PARAMETER"
    ELSE IF (r.Lba + (r.BufferSize \div block_size) - 1) % LbaModulus > LastBlock
    THEN "EFI_INVALID_PARAMETER"
    ELSE IF r.BufferSize % block_size # 0 THEN "EFI_BAD_BUFFER_SIZE"
    ELSE "EFI_SUCCESS"

BlocksCall(name, r) ==
    /\ pc = "idle"
    /\ op' = name /\ req' = r
    /\ moved' = {} /\ failed' = FALSE /\ masked' = FALSE
    /\ IF Rejected(r) # "EFI_SUCCESS" \/ r.BufferSize = 0
       THEN /\ status' = Rejected(r)
            /\ UNCHANGED <<pc, loopVars>>
       ELSE /\ pc' = "chunk" /\ status' = "EFI_NOT_READY"
            /\ data_addr' = r.Lba * block_size
            /\ data_len' = r.BufferSize
            /\ sptr' = 0

MMCHSReadBlocks(r) == BlocksCall("Read", r)
MMCHSWriteBlocks(r) == BlocksCall("Write", r)

(* What the command of this turn moves: a full chunk while more is left.    *)
ChunkLength ==
    IF data_len > SDHCI_ADMA_MAX_TRANS_SZ THEN SDHCI_ADMA_MAX_TRANS_SZ ELSE data_len
num_blocks == ChunkLength \div block_size

(* Mutant: the loop does not look at the result. *)
NextChunkIgnoresErrors(ret) ==
    IF data_len > SDHCI_ADMA_MAX_TRANS_SZ
    THEN /\ pc' = "chunk" /\ UNCHANGED status
         /\ data_addr' = data_addr + SDHCI_ADMA_MAX_TRANS_SZ
         /\ data_len' = data_len - SDHCI_ADMA_MAX_TRANS_SZ
         /\ sptr' = sptr + SDHCI_ADMA_MAX_TRANS_SZ
    ELSE pc' = "idle" /\ status' = "EFI_SUCCESS" /\ UNCHANGED loopVars
NextChunk(ret) ==
    IF ret # 0 THEN pc' = "idle" /\ status' = "EFI_DEVICE_ERROR" /\ UNCHANGED loopVars
    ELSE IF data_len > SDHCI_ADMA_MAX_TRANS_SZ
    THEN /\ pc' = "chunk" /\ UNCHANGED status
         /\ data_addr' = data_addr + SDHCI_ADMA_MAX_TRANS_SZ
         /\ data_len' = data_len - SDHCI_ADMA_MAX_TRANS_SZ
         /\ sptr' = sptr + SDHCI_ADMA_MAX_TRANS_SZ
    ELSE pc' = "idle" /\ status' = "EFI_SUCCESS" /\ UNCHANGED loopVars

(* A failed command of several blocks is stopped first; any other takes its *)
(* result from the response, whatever sdhci_send_command returned.          *)
mmc_sdhci_transfer(o) ==
    /\ moved' = moved \cup Moves(data_addr \div block_size, num_blocks, o.n)
    /\ failed' = (failed \/ o.ret # 0 \/ o.resp # "tran")
    /\ IF o.ret # 0 /\ num_blocks > 1
       THEN /\ pc' = "stop"
            /\ UNCHANGED <<status, loopVars, masked>>
       ELSE /\ masked' = (masked \/ (o.ret # 0 /\ mmc_parse_response(o.resp) = 0))
            /\ NextChunk(mmc_parse_response(o.resp))

mmc_sdhci_read(o) ==
    pc = "chunk" /\ op = "Read" /\ mmc_sdhci_transfer(o) /\ UNCHANGED <<op, req>>
mmc_sdhci_write(o) ==
    pc = "chunk" /\ op = "Write" /\ mmc_sdhci_transfer(o) /\ UNCHANGED <<op, req>>

(* mmc_stop_command, whose result becomes the result of the transfer.       *)
mmc_stop_command(o) ==
    LET ret == IF o.ret # 0 THEN o.ret ELSE mmc_parse_response(o.resp) IN
    /\ pc = "stop"
    /\ masked' = (masked \/ ret = 0)
    /\ NextChunk(ret)
    /\ UNCHANGED <<op, req, moved, failed>>

Transfer ==
    \/ \E o \in Outcome(num_blocks) : mmc_sdhci_read(o) \/ mmc_sdhci_write(o)
    \/ \E o \in StopOutcome : mmc_stop_command(o)

Next == Transfer \/ \E r \in Request : MMCHSReadBlocks(r) \/ MMCHSWriteBlocks(r)

Spec == Init /\ [][Next]_vars

-----------------------------------------------------------------------------
(* Properties. *)

Blocks == req.BufferSize \div block_size

(* The bytes the request asks for: byte k of block Lba + i of the card and  *)
(* byte i * block_size + k of the buffer.                                   *)
Requested(blocks) ==
    {<<req.Lba + i, k, i * block_size + k>> : i \in 0 .. blocks - 1, k \in 0 .. block_size - 1}

(* Nothing but what was asked for is touched, on the card or in memory, and *)
(* every block is paired with its own place in the buffer, across the       *)
(* chunks and the descriptor lines of each.                                 *)
OnlyRequested == moved \subseteq Requested(Blocks) /\ \A m \in moved : m[1] \in 0 .. LastBlock

(* A call that returns EFI_SUCCESS moved everything, and one that fails     *)
(* moved a first part of it, unless a failure was masked.                   *)
WholeOrPrefixUnlessMasked ==
    ~masked =>
        /\ \E n \in 0 .. Blocks : moved = Requested(n)
        /\ pc = "idle" /\ status = "EFI_SUCCESS" => moved = Requested(Blocks)

(* EFI_DEVICE_ERROR always has a cause on the card or the controller.       *)
DeviceErrorIsReal == status = "EFI_DEVICE_ERROR" => failed

(* mmc_read and mmc_write: "0 on Success, non zero on failure": a call that *)
(* reports success moved every block it was asked to.                       *)
SuccessMeansWhole == pc = "idle" /\ status = "EFI_SUCCESS" => moved = Requested(Blocks)
==============================================================================
