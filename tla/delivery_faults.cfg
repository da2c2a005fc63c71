SPECIFICATION FairSpec
CONSTANTS
    NewSecond = {3}
    BufferRows = 2
    Faults = {"drop", "refused", "post_lost", "reboot"}
    MaxFaults = 1
    MaxNotifications = 3
    MaxAcks = 1
INVARIANTS TypeOK DeliveredMeansWritten ShownOnce ShownInOrder
PROPERTY EventuallyShown
CHECK_DEADLOCK FALSE
