\* A reset preempted by the timer, and the press session after it.
CONSTANTS
    MAX_KEYS_TO_BUFFER = 3
    MAX_KEYS_PRESSED_RELEASED = 3
    Pressable = {"VOL_UP", "VOL_DOWN"}
    Fns = {f1}
    RegCodes = {"SCAN_UP"}
    Nodes = {n1}
    AppOps = {"Register", "Reset"}
    MaxKeys = 3
    MaxUnread = 2
    MaxResets = 1
    Reregister = FALSE
SPECIFICATION Spec
INVARIANT OneKeyPerSession
