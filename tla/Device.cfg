\* What is left on the device when the user has stopped pressing.
SPECIFICATION DeviceSpec
CONSTANTS
    Thread = {t1, t2}
    t1 = t1
    t2 = t2
    Sources = {"power"}
    Lockscreen = TRUE
    WhenChargerSleep = TRUE
    UsbMassStorage = FALSE
    ChargerWakeUp = FALSE
    CustomCase = FALSE
    DeviceRooted = FALSE
    LedUsage = FALSE
    ReconnectWifi = TRUE
    IsNiaModelA = TRUE
    LoaderMayFail = FALSE
SYMMETRY ThreadSymmetry
INVARIANTS
    DeviceTypeOK
    AppsBackAtRest
    NetworkBackAtRest
    StoppedAppsWereTold
    LoaderNotMistaken
PROPERTIES
    NotBehindLockscreen
    ImplementsHeldApps
