\* Presses without end, and updates that want the LED, against every wait.
SPECIFICATION FairSpec
CONSTANTS
    Thread = {t1}
    t1 = t1
    Sources = {"power", "update"}
    Lockscreen = TRUE
    WhenChargerSleep = TRUE
    UsbMassStorage = FALSE
    ChargerWakeUp = FALSE
    CustomCase = FALSE
    DeviceRooted = FALSE
    LedUsage = TRUE
PROPERTIES
    RequestIsTaken
    PressEndsGoSleep
    OrderedOutJobEnds
