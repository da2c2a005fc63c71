SPECIFICATION Spec
CONSTANTS
    Change <- TwoOClock
    Shifts <- Anyway
    Lists <- UpToTwo
    Daily = Daily
    NoDate = NoDate
    LastHour = 216
INVARIANTS NextIsEarliest NextComesSoon
CHECK_DEADLOCK FALSE
