SPECIFICATION FairSpec
CONSTANTS
    v1 = v1
    v2 = v2
    v3 = v3
    Versions <- ThreeVersions
    BinChunks <- Chunks3
    Capacity = 4
    RECEIPT_INTERVAL = 2
    NoVersion = NoVersion
    Faults = {"slow", "write_refused", "error", "link_lost", "post_lost", "download_fails", "upload_fails", "no_service"}
    MaxFaults = 2
    MaxRequests = 2
    MaxUploads = 1
INVARIANTS TypeOK WindowBounded NoBlindActivate CompleteMeansInstalled OneUpdatePerRequest
PROPERTIES EventuallyIdle EventuallyInstalled
CHECK_DEADLOCK FALSE
