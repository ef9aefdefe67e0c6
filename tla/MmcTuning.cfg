\* Every table of five phases, three driver types of which the card supports two.
CONSTANTS
    MAX_PHASES = 5
    MX_DRV_SUPPORTED_HS200 = 2
    SupportedDrv = {0, 1}
SPECIFICATION FairSpec
INVARIANTS TunedUnlessMasked SelectedInWidestWindow DrvTypeRestored
PROPERTY TuningReturns
