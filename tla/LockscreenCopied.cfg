\* Fast presses and the lock screen.
SPECIFICATION DeviceSpec
CONSTANTS
    Thread = {t1, t2}
    t1 = t1
    t2 = t2
    Sources = {"power"}
    Lockscreen = TRUE
    WhenChargerSleep = TRUE
    UsbMassStorage = FALSE
    ChargerWakeUp = FALSE
    CustomCase = FALSE
    DeviceRooted = FALSE
    LedUsage = FALSE
    ReconnectWifi = TRUE
    IsNiaModelA = FALSE
    LoaderMayFail = FALSE
SYMMETRY ThreadSymmetry
PROPERTIES
    LockscreenNotCopied
