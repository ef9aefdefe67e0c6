\* Requests of up to three commands, each of up to two descriptor lines; lengths that divide neither.
CONSTANTS
    block_size = 2
    SDHCI_ADMA_DESC_LINE_SZ = 4
    MAX_BLOCKS = 3
    LastBlock = 7
    LbaModulus = 32
    Types = {"STD", "MMCHC"}
    Lbas = {0, 1, 6, 7, 8, 31}
    BufferSizes = {0, 1, 2, 4, 6, 8, 12, 14, 16, 18}
SPECIFICATION Spec
INVARIANTS OnlyRequested WholeOrPrefixUnlessMasked DeviceErrorIsReal
