SPECIFICATION Spec
CONSTANTS
    m1 = m1
    m2 = m2
    Slots <- TwoSlots
    Msgs <- OneMsg
    NoMsg = NoMsg
    NoReminder = NoReminder
    NoHash = NoHash
    Disturbances = {"drop", "reject", "send_error", "time_unsent", "notify", "watch_reboot", "bridge_reboot", "dfu", "stock_firmware"}
    MaxDisturbances = 2
    MaxEdits = 1
    MaxAir = 2
INVARIANTS TypeOK HashIsFulfilled PendingDrains NoStaleCommand FreshFirmwareSpared
