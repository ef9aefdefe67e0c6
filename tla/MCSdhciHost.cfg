\* Commands with and without data, tuning or not, on a controller that errs, answers late or not at all.
CONSTANTS
    Cmds <- SomeCmds
    SDHCI_MAX_CMD_RETRY = 2
    SDHCI_MAX_TRANS_RETRY = 3
    MAX_PRESENT_RETRY = 2
    CmdErrors = {"CMD_TIMEOUT", "CMD_CRC", "OTHER"}
    DataErrors = {"DAT_TIMEOUT", "DAT_CRC", "OTHER"}
    MaxCmds = 3
SPECIFICATION FairSpec
INVARIANTS TypeOK DoneUnlessGaveUp StartsClean
PROPERTY SendReturns
\* The host stops when its callers send no more commands (MaxCmds).
CHECK_DEADLOCK FALSE
