SPECIFICATION FairSpec
CONSTANTS
    Word = 10
    Interval = 2
    FirstPoll = 1
    BackDated = 9
    OfflineAfter = 3
    MaxBlock = 2
    Watches = {"w1"}
    MaxEvents = 3
INVARIANTS PollsKeepComing ForcedPollComes 
PROPERTIES RowSettles ForgottenOrLost
CHECK_DEADLOCK FALSE
