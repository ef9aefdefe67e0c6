CONSTANTS
    CapSets <- SlotCaps
    Configs <- SlotConfigs
    CoreRates <- SlotCoreRates
    Cards <- SlotCards
    OpCondRetries = 3
    IfCondRetries = 3
    AppOpCondRetries = 2
    Blocks = 6
    Units <- SomeUnits
    StatRetry = 6
    RpmbRetry = 5
    MaxOps = 2
    Explored <- Shipping
SPECIFICATION SlotSpec
CHECK_DEADLOCK FALSE
INVARIANTS
    PowerBeforeUse
    IdentificationClock
    ClockWithinLimit
    BusAgrees
    CapacityIsTheCards
    EraseExact
    WpCoversRequest
    PartitionRestored
PROPERTY InitReturns
