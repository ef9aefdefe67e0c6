\* The clock table of the msm8909 with two clients, a BAM pipe, the console and the keypad.
CONSTANTS
    Names <- ClkNames
    Lookup <- ClkLookup
    Sources <- ClkSources
    Votes <- ClkVotes
    Branches <- ClkBranches
    Roots <- ClkRoots
    Parent <- ClkParent
    Table <- ClkTable
    Mnd <- ClkMnd
    Clients = {c1, c2}
    Groups <- ClkGroups
    MaxSourceCount = 3
    \* the smallest ring and one with a transfer that wraps; one that is no power
    \* of two, and one too large
    Sizes = {2, 3, 4, 16}
    Offsets = 4
    MaxRounds = 3
    Screens <- McScreens
    MaxBytes = 2
    MaxDepth = 2
    MaxDrawn = 5
    \* a poll shorter than each limit, one that is a repeat, one that is a long press
    KeyList <- McKeyList
    Deltas = {1, 3, 5}
    DEBOUNCE = 2
    REPEAT = 3
    LONGPRESS = 5
    Patterns <- McPatterns
    Functions = {"f", "g"}
    Scans = {"UP", "NULL"}
    Capacity = 2
    MaxPoll = 1
    MaxList = 2
SPECIFICATION DevicesSpec
INVARIANTS HeldIsOn RunsAtAskedRate TransferredInOrder WrittenIsVisible
           PressSendsItsKeys NotificationNotLost NothingLeftBehind
\* A client of the pipe may stop, and a start of the keypad may fault.
CHECK_DEADLOCK FALSE
