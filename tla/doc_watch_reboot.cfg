SPECIFICATION FairSpec
CONSTANTS
    m1 = m1
    m2 = m2
    Slots <- OneSlot
    Msgs <- OneMsg
    NoMsg = NoMsg
    NoReminder = NoReminder
    NoHash = NoHash
    Disturbances = {"watch_reboot"}
    MaxDisturbances = 1
    MaxEdits = 0
    MaxAir = 2
PROPERTY EventuallySynced
