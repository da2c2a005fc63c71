SPECIFICATION FairSpec
CONSTANTS
    q1 = q1
    q2 = q2
    on = on
    off = off
    Requests <- TwoRequests
    Ids <- ThreeIds
    MaxSlots = 2
    Contents <- OnOff
    EnabledOnes <- On
    NoRow = NoRow
    BufferRows = 2
    MaxRequests = 3
INVARIANTS TypeOK AutoSlotsUploaded
PROPERTIES SlotsPromised ReachesBridge
CHECK_DEADLOCK FALSE
