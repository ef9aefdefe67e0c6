\* A client registers after the last registration was removed.
CONSTANTS
    MAX_KEYS_TO_BUFFER = 3
    MAX_KEYS_PRESSED_RELEASED = 3
    Pressable = {"VOL_UP"}
    Fns = {f1}
    RegCodes = {"SCAN_UP"}
    Nodes = {n1}
    AppOps = {"Register", "Unregister"}
    MaxKeys = 2
    MaxUnread = 2
    MaxResets = 0
    Reregister = TRUE
SPECIFICATION Spec
INVARIANT RegistrationServed
