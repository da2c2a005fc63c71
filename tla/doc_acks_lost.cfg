SPECIFICATION FairSpec
CONSTANTS
    NewSecond = {3}
    BufferRows = 2
    Faults = {}
    MaxFaults = 0
    MaxNotifications = 1
    MaxAcks = 1
PROPERTY AcksFlowBack
CHECK_DEADLOCK FALSE
