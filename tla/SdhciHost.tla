------------------------------ MODULE SdhciHost ------------------------------
(***************************************************************************)
(* The command engine of the SD host driver: sdhci_send_command,           *)
(* sdhci_cmd_complete, sdhci_cmd_err_status and sdhci_reset of             *)
(* src/Driver/SdhciMMCHSDxe/sdhci.c, against the controller they poll.     *)
(*                                                                         *)
(* The driver runs alone and polls; the controller works in parallel and   *)
(* may change a status register between any two of the driver's reads.     *)
(* Status bits are sticky: they stay until the driver writes them back or  *)
(* resets the command and data lines.  The Hw actions are the controller   *)
(* as the driver's code relies on it.                                      *)
(*                                                                         *)
(* Commands are numbered in the order they are issued.  done, gaveUp and   *)
(* last are history variables.                                             *)
(***************************************************************************)
EXTENDS Naturals

CONSTANTS
    Cmds,                   \* the commands callers send: see CmdType
    SDHCI_MAX_CMD_RETRY,    \* polls for CMD_COMPLETE (5000000 in the code)
    SDHCI_MAX_TRANS_RETRY,  \* polls for TRANS_COMPLETE (10000000)
    MAX_PRESENT_RETRY,      \* polls for free lines (10)
    CmdErrors, DataErrors,  \* the error bits the controller may raise
    MaxCmds                 \* bound: commands issued in a behaviour

CmdType == [resp : {"NONE", "R1", "R1B", "R2"}, data : BOOLEAN, tuning : BOOLEAN]
AllCmdErrors == {"CMD_TIMEOUT", "CMD_CRC", "CMD_END_BIT", "CMD_IDX"}
AllDataErrors == {"DAT_TIMEOUT", "DAT_CRC", "DAT_END_BIT", "CUR_LIM", "AUTO_CMD12", "ADMA"}
(* All 16 error bits are enabled; sdhci_cmd_err_status knows ten of them.   *)
KnownErrors == AllCmdErrors \cup AllDataErrors

ASSUME SdhciAssumption ==
    /\ Cmds \subseteq CmdType
    /\ SDHCI_MAX_CMD_RETRY \in Nat \ {0} /\ SDHCI_MAX_TRANS_RETRY \in Nat \ {0}
    /\ MAX_PRESENT_RETRY \in Nat \ {0}
    /\ CmdErrors \subseteq AllCmdErrors \cup {"OTHER"}
    /\ DataErrors \subseteq AllDataErrors \cup {"OTHER"}
    /\ MaxCmds \in Nat

VARIABLES
    phase,    \* controller: "free", "cmd" (no response yet), "data" (DAT lines busy)
    nrml,     \* NRML_INT_STS: subset of {"CMD_COMPLETE", "TRANS_COMPLETE"}
    err,      \* ERR_INT_STS; the ERR bit of NRML_INT_STS is err # {}
    answered, \* number of the command whose response the RESP registers hold
    pc,       \* the driver's place in sdhci_send_command
    cmd,      \* the command being sent
    n,        \* its number
    retry, ret, trans_complete,   \* the locals of sdhci_cmd_complete
    resp,     \* number of the command whose response cmd->resp holds, 0 if none
    gaveUp,   \* history: a call or a reset ran out of patience, and no reset since
    done,     \* history: what the controller completed for n
    last      \* history: outcome of the last call

hwVars == <<phase, nrml, err, answered, done>>
localVars == <<retry, ret, trans_complete, resp>>
vars == <<hwVars, pc, cmd, n, localVars, gaveUp, last>>

Bits == {"CMD_COMPLETE", "TRANS_COMPLETE"}
NoCmd == [resp |-> "NONE", data |-> FALSE, tuning |-> FALSE]
NoCall == [n |-> 0, cmd |-> NoCmd, ret |-> 1, resp |-> 0, done |-> {}, clean |-> TRUE]

Init ==
    /\ phase = "free" /\ nrml = {} /\ err = {} /\ answered = 0
    /\ pc = "idle" /\ cmd = NoCmd /\ n = 0
    /\ retry = 0 /\ ret = 0 /\ trans_complete = FALSE /\ resp = 0
    /\ gaveUp = FALSE /\ done = {} /\ last = NoCall

-----------------------------------------------------------------------------
(* The controller. A command without data on the DAT lines is over with its *)
(* response; the others keep the lines until the transfer or the busy ends. *)

UsesDat(c) == c.data \/ c.resp = "R1B"

(* At "present" the command in flight is an earlier one, of either kind.    *)
HwResponse ==
    /\ phase = "cmd"
    /\ nrml' = nrml \cup {"CMD_COMPLETE"}
    /\ phase' \in IF pc = "present" THEN {"data", "free"}
                  ELSE IF UsesDat(cmd) THEN {"data"} ELSE {"free"}
    /\ answered' = n
    /\ done' = done \cup {"response"}
    /\ UNCHANGED <<err, pc, cmd, n, localVars, gaveUp, last>>

(* A response error: CRC, end bit and index errors come with a response,    *)
(* which may also complete the command; after a timeout there is none.      *)
HwCmdError ==
    /\ phase = "cmd"
    /\ \E e \in CmdErrors, complete \in BOOLEAN :
          /\ complete => e # "CMD_TIMEOUT"
          /\ err' = err \cup {e}
          /\ nrml' = IF complete THEN nrml \cup {"CMD_COMPLETE"} ELSE nrml
          /\ answered' = IF complete THEN n ELSE answered
    /\ phase' = "free"
    /\ UNCHANGED <<done, pc, cmd, n, localVars, gaveUp, last>>

HwTransferComplete ==
    /\ phase = "data"
    /\ nrml' = nrml \cup {"TRANS_COMPLETE"}
    /\ phase' = "free"
    /\ done' = done \cup {"transfer"}
    /\ UNCHANGED <<err, answered, pc, cmd, n, localVars, gaveUp, last>>

(* A data error ends the transfer, except that some controllers report a    *)
(* timeout first and complete the transfer later.  Nothing obliges the      *)
(* controller to raise anything at all.                                     *)
HwDataError ==
    /\ phase = "data"
    /\ \E e \in DataErrors :
          /\ err' = err \cup {e}
          /\ phase' \in IF e = "DAT_TIMEOUT" THEN {"data", "free"} ELSE {"free"}
    /\ UNCHANGED <<nrml, answered, done, pc, cmd, n, localVars, gaveUp, last>>

Hw == HwResponse \/ HwCmdError \/ HwTransferComplete \/ HwDataError

-----------------------------------------------------------------------------
(* sdhci_reset of the command and data lines, in the one mask the driver    *)
(* uses: the command in flight is dropped and its status bits are cleared.  *)
(* When the reset bit does not clear in time, the driver goes on as if it   *)
(* had, which counts as giving up.                                          *)
sdhci_reset ==
    \/ phase' = "free" /\ nrml' = {} /\ err' = {} /\ gaveUp' = FALSE
    \/ UNCHANGED <<phase, nrml, err>> /\ gaveUp' = TRUE

Clean == ~gaveUp /\ err \subseteq KnownErrors
Return(value) ==
    /\ pc' = "idle"
    /\ last' = [n |-> n, cmd |-> cmd, ret |-> value, resp |-> resp, done |-> done, clean |-> Clean]

(* Entry of sdhci_send_command. *)
SendCommand(c) ==
    /\ pc = "idle" /\ n < MaxCmds
    /\ pc' = "present" /\ cmd' = c
    /\ retry' = 0 /\ ret' = 0 /\ trans_complete' = FALSE /\ resp' = 0
    /\ UNCHANGED <<hwVars, n, gaveUp, last>>

(* Both line-inhibit bits must be clear before any command. *)
LinesBusy == phase # "free"

WaitForLines ==
    /\ pc = "present" /\ LinesBusy
    /\ IF retry + 1 = MAX_PRESENT_RETRY
       THEN /\ pc' = "idle" /\ retry' = 0
            /\ last' = [NoCall EXCEPT !.cmd = cmd]
       ELSE retry' = retry + 1 /\ UNCHANGED <<pc, last>>
    /\ UNCHANGED <<hwVars, cmd, n, ret, trans_complete, resp, gaveUp>>

(* The command register is written: the controller starts on command n+1.   *)
(* The driver does not look at the status registers first, nor clear them.  *)
IssueCommand ==
    /\ pc = "present" /\ ~LinesBusy
    /\ phase' = "cmd" /\ n' = n + 1 /\ done' = {}
    /\ pc' = "pollCmd" /\ retry' = 0
    /\ UNCHANGED <<nrml, err, answered, cmd, ret, trans_complete, resp, gaveUp, last>>

(* Mutant: the retry counter stands still. *)
PollForever(limit, again) ==
    IF retry + 1 = limit
    THEN ret' = 1 /\ retry' = retry /\ pc' = "err"
    ELSE retry' = retry /\ pc' = again /\ UNCHANGED ret
(* Mutant: the retry counter counts down from where it starts. *)
PollCountsDown(limit, again) ==
    IF retry + 1 = limit
    THEN ret' = 1 /\ retry' = retry /\ pc' = "err"
    ELSE retry' = retry - 1 /\ pc' = again /\ UNCHANGED ret
(* One more turn of a polling loop, or the end of its patience.             *)
PollAgain(limit, again) ==
    IF retry + 1 = limit
    THEN ret' = 1 /\ retry' = retry /\ pc' = "err"
    ELSE retry' = retry + 1 /\ pc' = again /\ UNCHANGED ret

(* CMD_COMPLETE is seen: the bit is cleared and the response copied. *)
CmdCompleteSeen ==
    /\ pc = "pollCmd" /\ "CMD_COMPLETE" \in nrml
    /\ nrml' = nrml \ {"CMD_COMPLETE"}
    /\ resp' = answered
    /\ retry' = 0
    /\ pc' = IF UsesDat(cmd) THEN "pollData" ELSE "err"
    /\ UNCHANGED <<phase, err, answered, done, cmd, n, ret, trans_complete, gaveUp, last>>

CmdNotComplete ==
    /\ pc = "pollCmd" /\ "CMD_COMPLETE" \notin nrml
    /\ IF cmd.tuning THEN pc' = "pollCmdErr" /\ UNCHANGED <<retry, ret>>
       ELSE IF err # {} THEN pc' = "err" /\ UNCHANGED <<retry, ret>>
       ELSE PollAgain(SDHCI_MAX_CMD_RETRY, "pollCmd")
    /\ UNCHANGED <<hwVars, cmd, n, trans_complete, resp, gaveUp, last>>

(* While tuning, a response error ends the command as if it had succeeded.  *)
TuningCmdError ==
    /\ pc = "pollCmdErr"
    /\ IF err \cap {"CMD_CRC", "CMD_END_BIT", "CMD_TIMEOUT"} # {}
       THEN sdhci_reset /\ Return(0) /\ UNCHANGED <<retry, ret, answered, done>>
       ELSE PollAgain(SDHCI_MAX_CMD_RETRY, "pollCmd") /\ UNCHANGED <<hwVars, gaveUp, last>>
    /\ UNCHANGED <<cmd, n, trans_complete, resp>>

(* Mutant: the interrupt bit is not cleared. *)
TransCompleteNotCleared ==
    /\ pc = "pollData" /\ "TRANS_COMPLETE" \in nrml
    /\ trans_complete' = TRUE
    /\ pc' = "err"
    /\ UNCHANGED <<phase, nrml, err, answered, done, cmd, n, retry, ret, resp, gaveUp, last>>
(* The transfer loop: one read of the normal status, then, when it did not  *)
(* show TRANS_COMPLETE, of the error status, which may be newer.            *)
TransCompleteSeen ==
    /\ pc = "pollData" /\ "TRANS_COMPLETE" \in nrml
    /\ trans_complete' = TRUE
    /\ nrml' = nrml \ {"TRANS_COMPLETE"}
    /\ pc' = "err"
    /\ UNCHANGED <<phase, err, answered, done, cmd, n, retry, ret, resp, gaveUp, last>>

TransferNotComplete ==
    /\ pc = "pollData" /\ "TRANS_COMPLETE" \notin nrml
    /\ IF cmd.tuning THEN pc' = "pollTuningErr" /\ UNCHANGED <<retry, ret>>
       ELSE IF err # {} THEN pc' = "pollDataErr" /\ UNCHANGED <<retry, ret>>
       ELSE PollAgain(SDHCI_MAX_TRANS_RETRY, "pollData")
    /\ UNCHANGED <<hwVars, cmd, n, trans_complete, resp, gaveUp, last>>

(* A data timeout is waited out: the controller may still complete. *)
DataError ==
    /\ pc = "pollDataErr"
    /\ IF "DAT_TIMEOUT" \notin err
       THEN pc' = "err" /\ UNCHANGED <<retry, ret>>
       ELSE PollAgain(SDHCI_MAX_TRANS_RETRY, "pollData")
    /\ UNCHANGED <<hwVars, cmd, n, trans_complete, resp, gaveUp, last>>

TuningDataError ==
    /\ pc = "pollTuningErr"
    /\ IF err \cap {"DAT_TIMEOUT", "DAT_CRC"} # {}
       THEN sdhci_reset /\ Return(0) /\ UNCHANGED <<retry, ret, answered, done>>
       ELSE PollAgain(SDHCI_MAX_TRANS_RETRY, "pollData") /\ UNCHANGED <<hwVars, gaveUp, last>>
    /\ UNCHANGED <<cmd, n, trans_complete, resp>>

(* Whether any error bit the driver knows is set. *)
sdhci_cmd_err_status == err \cap KnownErrors # {}
(* Mutant: a data timeout is ignored whether or not the transfer completed. *)
CheckErrorsIgnoresTimeout ==
    /\ pc = "err"
    /\ IF err # {}
       THEN /\ sdhci_reset
            /\ Return(IF "DAT_TIMEOUT" \in err THEN 0
                      ELSE IF sdhci_cmd_err_status THEN 1 ELSE ret)
            /\ UNCHANGED <<answered, done>>
       ELSE /\ Return(ret)
            /\ gaveUp' = (gaveUp \/ ret = 1)
            /\ UNCHANGED hwVars
    /\ UNCHANGED <<cmd, n, localVars>>
(* The label err, reached by every other path: errors decide the result and *)
(* reset the lines; without an error bit the lines are left as they are.    *)
CheckErrors ==
    /\ pc = "err"
    /\ IF err # {}
       THEN /\ sdhci_reset
            /\ Return(IF "DAT_TIMEOUT" \in err /\ trans_complete THEN 0
                      ELSE IF sdhci_cmd_err_status THEN 1 ELSE ret)
            /\ UNCHANGED <<answered, done>>
       ELSE /\ Return(ret)
            /\ gaveUp' = (gaveUp \/ ret = 1)
            /\ UNCHANGED hwVars
    /\ UNCHANGED <<cmd, n, localVars>>

Driver ==
    \/ WaitForLines \/ IssueCommand \/ CmdCompleteSeen \/ CmdNotComplete \/ TuningCmdError
    \/ TransCompleteSeen \/ TransferNotComplete \/ DataError \/ TuningDataError \/ CheckErrors

Next == Hw \/ Driver \/ \E c \in Cmds : SendCommand(c)
Spec == Init /\ [][Next]_vars

(* The driver spins on the registers; the controller owes it nothing.        *)
FairSpec == Spec /\ WF_vars(Driver)

-----------------------------------------------------------------------------
(* Properties. *)

Call == [n : Nat, cmd : Cmds \cup {NoCmd}, ret : {0, 1}, resp : Nat,
         done : SUBSET {"response", "transfer"}, clean : BOOLEAN]

TypeOK ==
    /\ phase \in {"free", "cmd", "data"}
    /\ nrml \subseteq Bits /\ err \subseteq CmdErrors \cup DataErrors
    /\ answered \in Nat /\ done \subseteq {"response", "transfer"}
    /\ pc \in {"idle", "present", "pollCmd", "pollCmdErr", "pollData", "pollDataErr",
               "pollTuningErr", "err"}
    /\ cmd \in Cmds \cup {NoCmd} /\ n \in Nat
    /\ retry \in Nat /\ ret \in {0, 1} /\ trans_complete \in BOOLEAN
    /\ resp \in Nat /\ gaveUp \in BOOLEAN
    /\ last \in Call

(* What the controller must have completed for this command. *)
Owed(c) == IF UsesDat(c) THEN {"response", "transfer"} ELSE {"response"}

(* sdhci_send_command returns 0 only when the controller completed this     *)
(* very command, response and transfer, and the response it left in         *)
(* cmd->resp is this command's (sdhci_cmd_complete: "0 on Sucess"). Tuning  *)
(* commands ignore errors on purpose.                                       *)
SuccessMeansDone ==
    last.ret = 0 /\ ~last.cmd.tuning => Owed(last.cmd) \subseteq last.done /\ last.resp = last.n

(* The same of every call made while no call before it had given up since   *)
(* the last reset of the lines, when the controller raised none but the ten *)
(* errors sdhci_cmd_err_status knows: nothing else hides a failure.         *)
DoneUnlessGaveUp == last.clean => SuccessMeansDone

(* A command starts with every status bit of the commands before it read    *)
(* and cleared, or reset, unless one of them gave up: whatever errors,      *)
(* in whatever order with the completions, the controller raised.           *)
StartsClean ==
    pc \in {"idle", "present"} /\ ~gaveUp => nrml = {} /\ err = {} /\ ~LinesBusy

(* Why those two hold: while no call has given up, each status bit, and     *)
(* each local the driver derived from one, was raised for the command being *)
(* sent and means what the driver takes it to mean. Inductive.              *)
Polling == {"pollCmd", "pollCmdErr", "pollData", "pollDataErr", "pollTuningErr"}
PollingData == {"pollData", "pollDataErr", "pollTuningErr"}
Answered == "response" \in done \/ err # {}
StatusIsOurs ==
    /\ pc \in {"pollCmdErr", "pollTuningErr"} => cmd.tuning
    /\ pc = "pollDataErr" => err # {}
    /\ ~gaveUp =>
          /\ pc \in {"idle", "present"} => nrml = {} /\ err = {} /\ phase = "free"
          /\ phase = "data" => "response" \in done /\ UsesDat(cmd)
          /\ "CMD_COMPLETE" \in nrml => answered = n /\ Answered /\ phase # "cmd"
          /\ "TRANS_COMPLETE" \in nrml => {"response", "transfer"} \subseteq done /\ phase = "free" /\ UsesDat(cmd)
          /\ pc \in {"present"} \cup Polling => ~trans_complete
          /\ pc \in PollingData =>
                UsesDat(cmd) /\ resp = n /\ Answered /\ "CMD_COMPLETE" \notin nrml /\ phase # "cmd"
          /\ pc = "err" /\ trans_complete => {"response", "transfer"} \subseteq done /\ resp = n
          /\ pc = "err" /\ ret = 0 /\ err = {} =>
                Owed(cmd) \subseteq done /\ resp = n /\ nrml = {} /\ phase = "free"

(* A command the controller reports an error on while its completion is     *)
(* missing is never left half way: every call returns, even when the        *)
(* controller says nothing any more (the retry counters).                   *)
SendReturns == pc # "idle" ~> pc = "idle"
==============================================================================
