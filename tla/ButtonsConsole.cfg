\* The console without registrations: every read, reset at any moment.
CONSTANTS
    MAX_KEYS_TO_BUFFER = 3
    MAX_KEYS_PRESSED_RELEASED = 3
    Pressable = {"PWR", "VOL_UP"}
    Fns = {}
    RegCodes = {}
    Nodes = {}
    AppOps = {"Wait", "Read", "ReadEx", "Reset"}
    MaxKeys = 4
    MaxUnread = 2
    MaxResets = 1
    Reregister = FALSE
SPECIFICATION Spec
INVARIANTS TypeOK PressedCount OneKeyPerSession
PROPERTY ImplementsKeyFifo
