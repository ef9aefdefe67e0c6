-------------------------------- MODULE Spmi --------------------------------
(***************************************************************************)
(* SpmiDxe: reads and writes of PMIC registers through the PMIC arbiter.   *)
(* A first arbiter takes slave and peripheral in the command word, on one  *)
(* channel.  A second one has a channel per peripheral: the driver turns   *)
(* the arbiter's list of channels into a table at start.                   *)
(***************************************************************************)
EXTENDS Integers, Sequences, FiniteSets

CONSTANTS
    Peripherals,       \* <<slave_id, address>>, with <<0, 0>>, the id of an unused channel
    max_peripherals,   \* the channels are 0..max_peripherals - 1
    Leftover,          \* what malloc may leave in the table; channels, or no channel
    WriteSizes, ReadSizes,
    MaxCmds            \* bound on the commands of a run

Channels == 0..max_peripherals - 1
Unused == <<0, 0>>
\* The last byte a command of a run can reach.
Bytes == 0..11

\* A command has two words to write and at most three are read; the arbiter
\* has a channel.
ArbiterAssumption ==
    /\ Unused \in Peripherals /\ max_peripherals \in Nat \ {0} /\ Leftover # {}
    /\ WriteSizes \subseteq 1..8 /\ ReadSizes \subseteq 1..12 /\ MaxCmds \in Nat

VARIABLES
    spmi_version,      \* PcdSpmiVersion
    arb,               \* the arbiter's version, its channels and its registers
    chnl_tbl,
    regs,              \* the registers of each peripheral, as values of their own
    call,              \* the command that runs
    cmds
svars == <<spmi_version, arb, chnl_tbl, regs, call, cmds>>

NoCall == [pc |-> "none", op |-> "none", to |-> Unused, size |-> 0, buffer |-> <<>>,
           result |-> {}, before |-> <<>>]
Old(p) == [i \in Bytes |-> <<p, i>>]
New(size) == [i \in 1..size |-> <<"new", i>>]

Listed(chan) == {chan[i] : i \in Channels} \ {Unused}
ChannelMaps == {chan \in [Channels -> Peripherals] :
                  \A i, j \in Channels : i # j => chan[i] # chan[j] \/ chan[i] = Unused}

\* The registers of a channel: the words written and to be read, the command,
\* the status.
Idle == [wdata |-> <<<<>>, <<>>>>, rdata |-> <<>>, n |-> 0, op |-> "none", to |-> Unused,
         byte_cnt |-> 0, status |-> {}]
Init ==
    /\ spmi_version \in 1..2
    /\ \E ver \in 1..2, chan \in ChannelMaps : arb = [ver |-> ver, chan |-> chan, cmd |-> Idle]
    /\ chnl_tbl \in [Peripherals -> Leftover]
    /\ regs = [p \in Peripherals |-> Old(p)]
    /\ call = [NoCall EXCEPT !.pc = "init"] /\ cmds = 0

\* The last channel of a peripheral wins.  With PcdSpmiVersion 1 the list is
\* not read and every channel is entered for peripheral 0 of slave 0.
spmi_lookup_chnl_number ==
    LET chan == IF spmi_version = 2 THEN arb.chan ELSE [i \in Channels |-> Unused]
        Of(p) == {i \in Channels : chan[i] = p}
    IN  [p \in Peripherals |->
            IF Of(p) = {} THEN chnl_tbl[p] ELSE CHOOSE i \in Of(p) : \A j \in Of(p) : j <= i]

spmi_init ==
    /\ call.pc = "init"
    /\ call' = NoCall
    /\ chnl_tbl' = IF arb.ver = 2 THEN spmi_lookup_chnl_number ELSE chnl_tbl
    /\ UNCHANGED <<spmi_version, arb, regs, cmds>>

\* PcdPmicArbChannelNum is 0 for a first arbiter.
Channel(p) == IF arb.ver = 2 THEN chnl_tbl[p] ELSE 0

\* Up to four bytes of the array, from the first not yet written.
Clip(a, b) == IF a < b THEN a ELSE b
write_wdata_from_array(array, written, size) ==
    SubSeq(array, written + 1, Clip(written + 4, size))

\* The command word carries slave and peripheral for a first arbiter only.
Command(op, p, size, wdata) ==
    [Idle EXCEPT !.wdata = wdata, !.n = Channel(p), !.op = op, !.byte_cnt = size - 1,
                 !.to = IF spmi_version = 2 THEN Unused ELSE p]

Call(op, p, size, buffer) ==
    [NoCall EXCEPT !.pc = "poll", !.op = op, !.to = p, !.size = size, !.buffer = buffer,
                   !.before = regs]

pmic_arb_write_cmd(p, size) ==
    /\ call.pc = "none" /\ cmds < MaxCmds /\ cmds' = cmds + 1
    /\ call' = Call("write", p, size, New(size))
    /\ arb' = [arb EXCEPT !.cmd = Command("write", p, size,
                 <<write_wdata_from_array(New(size), 0, size),
                   IF size > 4 THEN write_wdata_from_array(New(size), 4, size) ELSE <<>> >>)]
    /\ UNCHANGED <<spmi_version, chnl_tbl, regs>>

pmic_arb_read_cmd(p, size) ==
    /\ call.pc = "none" /\ cmds < MaxCmds /\ cmds' = cmds + 1
    /\ call' = Call("read", p, size, <<>>)
    /\ arb' = [arb EXCEPT !.cmd = Command("read", p, size, <<<<>>, <<>>>>)]
    /\ UNCHANGED <<spmi_version, chnl_tbl, regs>>

\* The words with a peripheral's bytes in them, four to a word from the least
\* significant on, as many as the command counts.
Clear == <<"clear", 0>>
Words(file, byte_cnt) ==
    [w \in 0..2 |-> [b \in 0..3 |-> IF 4 * w + b <= byte_cnt THEN file[4 * w + b] ELSE Clear]]

\* The arbiter finds the command when it was written where it has its
\* registers, and the peripheral by the channel or by the word.
Arbiter ==
    LET c == arb.cmd
        target == IF arb.ver = 2 THEN arb.chan[c.n] ELSE c.to
        data == c.wdata[1] \o c.wdata[2]
    IN
    /\ call.pc = "poll" /\ c.op # "none" /\ c.status = {}
    /\ spmi_version = arb.ver /\ c.n \in Channels
    /\ \E status \in {{"DONE"}, {"DONE", "FAILURE"}, {"DENIED"}, {"DROPPED"}} :
          /\ arb' = [arb EXCEPT !.cmd.status = status,
                        !.cmd.rdata = IF c.op = "read" THEN Words(regs[target], c.byte_cnt) ELSE @]
          /\ regs' = IF c.op = "write" /\ status = {"DONE"}
                     THEN [regs EXCEPT ![target] =
                             [i \in Bytes |-> IF i \in 0..c.byte_cnt /\ i < Len(data)
                                              THEN data[i + 1] ELSE @[i]]]
                     ELSE regs
    /\ UNCHANGED <<spmi_version, chnl_tbl, call, cmds>>

\* Which byte of a word the mask of a turn keeps, and how many bytes down the
\* shift moves it; the array takes the lowest.
mask_value == [i \in 0..3 |-> i]
shift_value == [i \in 0..3 |-> i]
ByteOf(val, i) ==
    LET masked == [b \in 0..3 |-> IF b = mask_value[i] THEN val[b] ELSE Clear]
        down == shift_value[i]
        shifted == [b \in 0..3 |-> IF b + down <= 3 THEN masked[b + down] ELSE Clear]
    IN  shifted[0]

\* A word's bytes go behind those already in the array, which *bytes_read
\* counts, and no further than its size.
\* Mutant: every word is the first one.
FirstWordAgain(array, reg_num, size) ==
    array \o [i \in 1..Clip(4, size - Len(array)) |-> ByteOf(arb.cmd.rdata[0], i - 1)]
read_rdata_into_array(array, reg_num, size) ==
    array \o [i \in 1..Clip(4, size - Len(array)) |-> ByteOf(arb.cmd.rdata[reg_num], i - 1)]

ReadData(size) ==
    LET one == read_rdata_into_array(<<>>, 0, size)
        two == IF Len(one) < size THEN read_rdata_into_array(one, 1, size) ELSE one
    IN  IF Len(two) < size THEN read_rdata_into_array(two, 2, size) ELSE two

\* The loop on the status has no limit: a command nobody answers never ends.
StatusRead ==
    /\ call.pc = "poll" /\ arb.cmd.status # {}
    /\ call' = [call EXCEPT !.pc = "returned", !.result = (arb.cmd.status \ {"DONE"})
                                         \cup ({"DONE"} \ arb.cmd.status),
                            !.buffer = IF call.op = "read" /\ arb.cmd.status = {"DONE"}
                                       THEN ReadData(call.size) ELSE @]
    /\ UNCHANGED <<spmi_version, arb, chnl_tbl, regs, cmds>>
Return ==
    /\ call.pc = "returned" /\ call' = NoCall
    /\ arb' = [arb EXCEPT !.cmd = Idle]
    /\ UNCHANGED <<spmi_version, chnl_tbl, regs, cmds>>

SpmiStep ==
    \/ spmi_init
    \/ \E p \in Peripherals \ {Unused} : \/ \E n \in WriteSizes : pmic_arb_write_cmd(p, n)
                                         \/ \E n \in ReadSizes : pmic_arb_read_cmd(p, n)
    \/ Arbiter \/ StatusRead \/ Return

(* Properties *)

\* A command that returns has reached the peripheral it names and no other,
\* with every byte in its place: the bytes written are in its registers, the
\* bytes read are its registers, and a failed command changed nothing.  This
\* needs the PcdSpmiVersion of the arbiter and a peripheral the arbiter lists;
\* the table entry of any other is what malloc left there (spmi.c 48-69).
SpmiReaches ==
    call.pc = "returned" /\ (arb.ver = 2 => call.to \in Listed(arb.chan)) =>
        IF call.op = "write" /\ call.result = {}
        THEN regs = [call.before EXCEPT ![call.to] =
                       [i \in Bytes |-> IF i < call.size THEN New(call.size)[i + 1] ELSE @[i]]]
        ELSE /\ regs = call.before
             /\ call.op = "read" /\ call.result = {} =>
                    call.buffer = [i \in 1..call.size |-> regs[call.to][i - 1]]
=============================================================================
