\* Registrations come and go while the timer polls and the console reads.
CONSTANTS
    MAX_KEYS_TO_BUFFER = 3
    MAX_KEYS_PRESSED_RELEASED = 3
    Pressable = {"VOL_UP"}
    Fns = {f1}
    RegCodes = {"SCAN_UP", "SCAN_DOWN"}
    Nodes = {n1, n2}
    AppOps = {"Read", "Register", "Unregister"}
    MaxKeys = 2
    MaxUnread = 2
    MaxResets = 0
    Reregister = FALSE
SPECIFICATION FairSpec
INVARIANTS NotifiedAtMostOnce RegistrationServed ListSound
PROPERTY NotifiedEventually
