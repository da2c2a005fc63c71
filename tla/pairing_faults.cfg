SPECIFICATION FairSpec
CONSTANTS
    Faults = {"post_lost", "open_fails", "restore_fails", "drop", "reboot", "auth_timeout", "cancel"}
    MaxFaults = 2
    MaxRequests = 2
    MaxPairings = 2
INVARIANTS TypeOK StuckOnlyIfRefused
PROPERTIES EventuallyConnectedOrStuck PasskeyAnswered
CHECK_DEADLOCK FALSE
