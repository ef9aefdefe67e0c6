--------------------------- MODULE SdhciHost_proofs ---------------------------
(***************************************************************************)
(* Proofs about SdhciHost, for any commands, retry limits and errors: the  *)
(* type invariant, and that a call which returns 0 had its command done,   *)
(* from an inductive invariant on what status bits can be set when.        *)
(***************************************************************************)
EXTENDS SdhciHost, TLAPS

LEMMA InitType == Init => TypeOK
<1> SUFFICES ASSUME Init PROVE TypeOK
  OBVIOUS
<1>1. NoCall \in Call
  BY DEF NoCall, Call
<1> QED
  BY <1>1 DEF Init, TypeOK, Bits

(* What a call leaves in last. *)
LEMMA ReturnType ==
  ASSUME TypeOK, NEW value \in {0, 1}, Return(value)
  PROVE  last' \in Call /\ pc' = "idle"
<1> DEFINE b == Clean
<1>1. b \in BOOLEAN
  BY ZenonT(10) DEF Clean
<1>2. last' = [n |-> n, cmd |-> cmd, ret |-> value, resp |-> resp, done |-> done, clean |-> b]
  BY DEF Return
<1> HIDE DEF b
<1> QED
  BY <1>1, <1>2 DEF TypeOK, Call, Return

(* What sdhci_cmd_complete may return at its label err. *)
LEMMA ReturnValue ==
  ASSUME TypeOK
  PROVE  (IF "DAT_TIMEOUT" \in err /\ trans_complete THEN 0
          ELSE IF sdhci_cmd_err_status THEN 1 ELSE ret) \in {0, 1}
  BY DEF TypeOK

(* The controller's steps keep the types. *)
LEMMA HwType == TypeOK /\ Hw => TypeOK'
<1> SUFFICES ASSUME TypeOK, Hw PROVE TypeOK'
  OBVIOUS
<1> USE DEF TypeOK, Bits, localVars
<1>1. CASE HwResponse
  BY <1>1 DEF HwResponse
<1>2. CASE HwCmdError
  BY <1>2 DEF HwCmdError
<1>3. CASE HwTransferComplete
  BY <1>3 DEF HwTransferComplete
<1>4. CASE HwDataError
  BY <1>4 DEF HwDataError
<1> QED
  BY <1>1, <1>2, <1>3, <1>4 DEF Hw

(* So do the driver's. *)
LEMMA DriverType == TypeOK /\ Driver => TypeOK'
<1> SUFFICES ASSUME TypeOK, Driver PROVE TypeOK'
  OBVIOUS
<1> USE SdhciAssumption DEF SdhciAssumption, TypeOK, Bits, hwVars, localVars
<1>1. CASE WaitForLines
  <2>1. [NoCall EXCEPT !.cmd = cmd] \in Call
    BY DEF NoCall, Call
  <2> QED
    BY <1>1, <2>1 DEF WaitForLines
<1>2. CASE IssueCommand
  BY <1>2 DEF IssueCommand
<1>3. CASE CmdCompleteSeen
  BY <1>3 DEF CmdCompleteSeen
<1>4. CASE CmdNotComplete
  BY <1>4 DEF CmdNotComplete, PollAgain
<1>5. CASE TuningCmdError
  <2>1. CASE sdhci_reset /\ Return(0) /\ UNCHANGED <<retry, ret, answered, done>>
    <3>1. last' \in Call /\ pc' = "idle"
      BY <2>1, ReturnType
    <3> QED
      BY <1>5, <2>1, <3>1 DEF TuningCmdError, sdhci_reset
  <2>2. CASE PollAgain(SDHCI_MAX_CMD_RETRY, "pollCmd") /\ UNCHANGED <<hwVars, gaveUp, last>>
    BY <1>5, <2>2 DEF TuningCmdError, PollAgain
  <2> QED
    BY <1>5, <2>1, <2>2 DEF TuningCmdError
<1>6. CASE TransCompleteSeen
  BY <1>6 DEF TransCompleteSeen
<1>7. CASE TransferNotComplete
  BY <1>7 DEF TransferNotComplete, PollAgain
<1>8. CASE DataError
  BY <1>8 DEF DataError, PollAgain
<1>9. CASE TuningDataError
  <2>1. CASE sdhci_reset /\ Return(0) /\ UNCHANGED <<retry, ret, answered, done>>
    <3>1. last' \in Call /\ pc' = "idle"
      BY <2>1, ReturnType
    <3> QED
      BY <1>9, <2>1, <3>1 DEF TuningDataError, sdhci_reset
  <2>2. CASE PollAgain(SDHCI_MAX_TRANS_RETRY, "pollData") /\ UNCHANGED <<hwVars, gaveUp, last>>
    BY <1>9, <2>2 DEF TuningDataError, PollAgain
  <2> QED
    BY <1>9, <2>1, <2>2 DEF TuningDataError
<1>10. CASE CheckErrors
  <2>1. PICK value \in {0, 1} : Return(value)
    BY <1>10, ReturnValue DEF CheckErrors
  <2>2. last' \in Call /\ pc' = "idle"
    BY <2>1, ReturnType
  <2> QED
    BY <1>10, <2>2 DEF CheckErrors, sdhci_reset
<1> QED
  BY <1>1, <1>2, <1>3, <1>4, <1>5, <1>6, <1>7, <1>8, <1>9, <1>10 DEF Driver

(* The type invariant of the command engine. *)
THEOREM TypeCorrect == Spec => []TypeOK
<1>1. TypeOK /\ [Next]_vars => TypeOK'
  <2> SUFFICES ASSUME TypeOK, [Next]_vars PROVE TypeOK'
    OBVIOUS
  <2>1. CASE Hw
    BY <2>1, HwType
  <2>2. CASE Driver
    BY <2>2, DriverType
  <2>3. ASSUME NEW c \in Cmds, SendCommand(c) PROVE TypeOK'
    BY <2>3, SdhciAssumption DEF TypeOK, SendCommand, hwVars, Bits
  <2>4. CASE UNCHANGED vars
    BY <2>4 DEF TypeOK, vars, hwVars, localVars
  <2> QED
    BY <2>1, <2>2, <2>3, <2>4 DEF Next
<1> QED
  BY <1>1, InitType, PTL DEF Spec

-----------------------------------------------------------------------------
(* The inductive invariant. *)

LEMMA InitStatus == Init => StatusIsOurs
  BY DEF Init, StatusIsOurs, Polling, PollingData, NoCmd

(* The controller only raises bits of the command that is being sent. *)
LEMMA HwStatus == TypeOK /\ StatusIsOurs /\ Hw => StatusIsOurs'
<1> SUFFICES ASSUME TypeOK, StatusIsOurs, Hw PROVE StatusIsOurs'
  OBVIOUS
<1> USE DEF TypeOK, Bits, localVars, StatusIsOurs, Polling, PollingData, Answered, Owed, UsesDat
<1>1. CASE HwResponse
  BY <1>1 DEF HwResponse
<1>2. CASE HwCmdError
  BY <1>2 DEF HwCmdError
<1>3. CASE HwTransferComplete
  BY <1>3 DEF HwTransferComplete
<1>4. CASE HwDataError
  BY <1>4 DEF HwDataError
<1> QED
  BY <1>1, <1>2, <1>3, <1>4 DEF Hw

(* A reset of the lines establishes it, whatever was true before. *)
LEMMA ResetStatus ==
  ASSUME sdhci_reset, pc' = "idle" PROVE StatusIsOurs'
  BY DEF sdhci_reset, StatusIsOurs, Polling, PollingData

(* A polling loop that goes round again, or gives up, changes no status. *)
LEMMA PollStatus ==
  ASSUME TypeOK, StatusIsOurs, NEW limit, NEW again \in {"pollCmd", "pollData"},
         pc \in Polling, again = "pollData" <=> pc \in PollingData,
         PollAgain(limit, again),
         UNCHANGED <<hwVars, cmd, n, trans_complete, resp, gaveUp, last>>
  PROVE  StatusIsOurs'
<1> USE DEF TypeOK, hwVars, StatusIsOurs, Polling, PollingData, Answered, Owed, UsesDat
<1>1. CASE retry + 1 = limit
  BY <1>1 DEF PollAgain
<1>2. CASE retry + 1 # limit
  BY <1>2 DEF PollAgain
<1> QED
  BY <1>1, <1>2

LEMMA DriverStatus == TypeOK /\ StatusIsOurs /\ Driver => StatusIsOurs'
<1> SUFFICES ASSUME TypeOK, StatusIsOurs, Driver PROVE StatusIsOurs'
  OBVIOUS
<1> USE DEF TypeOK, Bits, hwVars, localVars, StatusIsOurs, Polling, PollingData, Answered, Owed, UsesDat
<1>1. CASE WaitForLines
  BY <1>1 DEF WaitForLines
<1>2. CASE IssueCommand
  BY <1>2 DEF IssueCommand, LinesBusy
<1>3. CASE CmdCompleteSeen
  BY <1>3 DEF CmdCompleteSeen
<1>4. CASE CmdNotComplete
  <2>1. CASE PollAgain(SDHCI_MAX_CMD_RETRY, "pollCmd")
    BY <1>4, <2>1, PollStatus DEF CmdNotComplete
  <2>2. CASE cmd.tuning /\ pc' = "pollCmdErr" /\ UNCHANGED <<retry, ret>>
    BY <1>4, <2>2 DEF CmdNotComplete
  <2>3. CASE err # {} /\ pc' = "err" /\ UNCHANGED <<retry, ret>>
    BY <1>4, <2>3 DEF CmdNotComplete
  <2> QED
    BY <1>4, <2>1, <2>2, <2>3 DEF CmdNotComplete
<1>5. CASE TuningCmdError
  <2>1. CASE sdhci_reset /\ Return(0)
    BY <2>1, ResetStatus DEF Return
  <2>2. CASE PollAgain(SDHCI_MAX_CMD_RETRY, "pollCmd") /\ UNCHANGED <<hwVars, gaveUp, last>>
    BY <1>5, <2>2, PollStatus DEF TuningCmdError
  <2> QED
    BY <1>5, <2>1, <2>2 DEF TuningCmdError
<1>6. CASE TransCompleteSeen
  BY <1>6 DEF TransCompleteSeen
<1>7. CASE TransferNotComplete
  <2>1. CASE PollAgain(SDHCI_MAX_TRANS_RETRY, "pollData")
    BY <1>7, <2>1, PollStatus DEF TransferNotComplete
  <2>2. CASE cmd.tuning /\ pc' = "pollTuningErr" /\ UNCHANGED <<retry, ret>>
    BY <1>7, <2>2 DEF TransferNotComplete
  <2>3. CASE err # {} /\ pc' = "pollDataErr" /\ UNCHANGED <<retry, ret>>
    BY <1>7, <2>3 DEF TransferNotComplete
  <2> QED
    BY <1>7, <2>1, <2>2, <2>3 DEF TransferNotComplete
<1>8. CASE DataError
  <2>1. CASE PollAgain(SDHCI_MAX_TRANS_RETRY, "pollData")
    BY <1>8, <2>1, PollStatus DEF DataError
  <2>2. CASE err # {} /\ pc' = "err" /\ UNCHANGED <<retry, ret>>
    BY <1>8, <2>2 DEF DataError
  <2>3. err # {}
    BY <1>8 DEF DataError
  <2> QED
    BY <1>8, <2>1, <2>2, <2>3 DEF DataError
<1>9. CASE TuningDataError
  <2>1. CASE sdhci_reset /\ Return(0)
    BY <2>1, ResetStatus DEF Return
  <2>2. CASE PollAgain(SDHCI_MAX_TRANS_RETRY, "pollData") /\ UNCHANGED <<hwVars, gaveUp, last>>
    BY <1>9, <2>2, PollStatus DEF TuningDataError
  <2> QED
    BY <1>9, <2>1, <2>2 DEF TuningDataError
<1>10. CASE CheckErrors
  <2>1. CASE err # {}
    BY <1>10, <2>1, ResetStatus DEF CheckErrors, Return
  <2>2. CASE err = {}
    BY <1>10, <2>2 DEF CheckErrors, Return
  <2> QED
    BY <2>1, <2>2
<1> QED
  BY <1>1, <1>2, <1>3, <1>4, <1>5, <1>6, <1>7, <1>8, <1>9, <1>10 DEF Driver

LEMMA NextStatus == TypeOK /\ StatusIsOurs /\ [Next]_vars => StatusIsOurs'
<1> SUFFICES ASSUME TypeOK, StatusIsOurs, [Next]_vars PROVE StatusIsOurs'
  OBVIOUS
<1> USE DEF hwVars, StatusIsOurs, Polling, PollingData, Answered, Owed, UsesDat
<1>1. CASE Hw
  BY <1>1, HwStatus
<1>2. CASE Driver
  BY <1>2, DriverStatus
<1>3. ASSUME NEW c \in Cmds, SendCommand(c) PROVE StatusIsOurs'
  BY <1>3 DEF SendCommand
<1>4. CASE UNCHANGED vars
  BY <1>4 DEF vars, localVars
<1> QED
  BY <1>1, <1>2, <1>3, <1>4 DEF Next

(* While no call has given up, every status bit is the current command's. *)
THEOREM StatusCorrect == Spec => []StatusIsOurs
  BY TypeCorrect, InitStatus, NextStatus, PTL DEF Spec

(* A command never finds a status bit of an earlier one, unless a call gave *)
(* up on the controller before it: IssueCommand need not clear any.         *)
THEOREM CleanStart == Spec => []StartsClean
<1>1. StatusIsOurs => StartsClean
  BY DEF StatusIsOurs, StartsClean, LinesBusy
<1> QED
  BY <1>1, StatusCorrect, PTL

-----------------------------------------------------------------------------
(* What a return value of 0 promises. *)

LEMMA ReturnTruthful ==
  ASSUME NEW value, Return(value),
         Clean /\ value = 0 /\ ~cmd.tuning => Owed(cmd) \subseteq done /\ resp = n
  PROVE  DoneUnlessGaveUp'
  BY DEF Return, DoneUnlessGaveUp, SuccessMeansDone, Owed, UsesDat

LEMMA NextTruthful ==
  TypeOK /\ StatusIsOurs /\ DoneUnlessGaveUp /\ [Next]_vars => DoneUnlessGaveUp'
<1> SUFFICES ASSUME TypeOK, StatusIsOurs, DoneUnlessGaveUp, [Next]_vars
             PROVE  DoneUnlessGaveUp'
  OBVIOUS
<1>1. CASE UNCHANGED last
  BY <1>1 DEF DoneUnlessGaveUp, SuccessMeansDone, Owed, UsesDat
<1>2. CASE WaitForLines
  <2>1. CASE last' = [NoCall EXCEPT !.cmd = cmd]
    BY <2>1 DEF NoCall, DoneUnlessGaveUp, SuccessMeansDone
  <2> QED
    BY <1>1, <1>2, <2>1 DEF WaitForLines
<1>3. CASE TuningCmdError \/ TuningDataError
  <2>1. cmd.tuning
    BY <1>3 DEF StatusIsOurs, TuningCmdError, TuningDataError
  <2>2. CASE Return(0)
    BY <2>1, <2>2, ReturnTruthful
  <2> QED
    BY <1>1, <1>3, <2>2 DEF TuningCmdError, TuningDataError
<1>4. CASE CheckErrors
  <2>1. CASE err = {}
    <3>1. Return(ret)
      BY <1>4, <2>1 DEF CheckErrors
    <3>2. Clean /\ ret = 0 => Owed(cmd) \subseteq done /\ resp = n
      BY <1>4, <2>1 DEF CheckErrors, Clean, StatusIsOurs
    <3> QED
      BY <3>1, <3>2, ReturnTruthful
  <2>2. CASE err # {}
    <3> DEFINE value == IF "DAT_TIMEOUT" \in err /\ trans_complete THEN 0
                        ELSE IF sdhci_cmd_err_status THEN 1 ELSE ret
    <3>1. Return(value)
      BY <1>4, <2>2 DEF CheckErrors
    <3>2. Clean => sdhci_cmd_err_status
      BY <2>2 DEF Clean, sdhci_cmd_err_status
    <3>3. Clean /\ value = 0 => trans_complete
      BY <3>2
    <3>4. Clean /\ trans_complete => Owed(cmd) \subseteq done /\ resp = n
      BY <1>4 DEF CheckErrors, Clean, StatusIsOurs, Owed
    <3> HIDE DEF value
    <3> QED
      BY <3>1, <3>3, <3>4, ReturnTruthful
  <2> QED
    BY <2>1, <2>2
<1> QED
  BY <1>1, <1>2, <1>3, <1>4 DEF Next, Hw, HwResponse, HwCmdError, HwTransferComplete,
     HwDataError, Driver, IssueCommand, CmdCompleteSeen, CmdNotComplete, TransCompleteSeen,
     TransferNotComplete, DataError, SendCommand, vars

(* A call that returns 0, with no call given up before it and no unknown    *)
(* error bit, was answered and its data transferred, for every command.     *)
THEOREM SuccessIsTruthful == Spec => []DoneUnlessGaveUp
<1>1. Init => DoneUnlessGaveUp
  BY DEF Init, NoCall, DoneUnlessGaveUp, SuccessMeansDone
<1> QED
  BY <1>1, TypeCorrect, StatusCorrect, NextTruthful, PTL DEF Spec
===============================================================================
