SPECIFICATION FairSpec
CONSTANTS
    LongTones = {"warning", "welcome"}
    MaxTasks = 2
    Slots = {0, 1}
    Messages = {"pills"}
    NoMessage = ""
    AwayTicks = 1
    WarnTicks = 2
    MaxChanges = 3
INVARIANTS WarnedHourly NotNagged HeardWhatIsShown
PROPERTIES SpeakerFree AckDisplayed
CHECK_DEADLOCK FALSE
