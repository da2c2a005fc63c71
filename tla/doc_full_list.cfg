SPECIFICATION FairSpec
CONSTANTS
    q1 = q1
    q2 = q2
    on = on
    off = off
    Requests <- OneRequest
    Ids <- ThreeIds
    MaxSlots = 2
    Contents <- OnOff
    EnabledOnes <- On
    NoRow = NoRow
    BufferRows = 1
    MaxRequests = 2
PROPERTIES FullListReachesBridge
CHECK_DEADLOCK FALSE
