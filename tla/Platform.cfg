\* SPMI, PMIC and pin interrupts.
CONSTANTS
    Peripherals <- McPeripherals
    max_peripherals = 2
    Leftover = {1, 2}
    WriteSizes = {3, 8}
    ReadSizes = {5, 12}
    MaxCmds = 2
    Calls <- McCalls
    Codes <- McCodes
    MaxPin = 1
    Types = {"EDGE_BOTH", "LEVEL_HIGH", "EDGE_FALLING"}
    \* 100 in the code
    LoopLimit = 1
SPECIFICATION PlatformSpec
INVARIANTS SpmiReaches PmicPost NeverHalfConfigured NextEdgeDetected
PROPERTY PinServed
\* Clients and pins may stop, and a call may wait for ever for hardware that does not answer.
CHECK_DEADLOCK FALSE
