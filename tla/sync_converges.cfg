SPECIFICATION FairSpec
CONSTANTS
    m1 = m1
    m2 = m2
    Slots <- OneSlot
    Msgs <- TwoMsgs
    NoMsg = NoMsg
    NoReminder = NoReminder
    NoHash = NoHash
    Disturbances = {"drop", "notify", "dfu"}
    MaxDisturbances = 1
    MaxEdits = 2
    MaxAir = 2
PROPERTIES EventuallySyncedOrCut EventuallySyncedAfterDfu
