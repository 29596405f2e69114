\* A second press with the charger plugged in meanwhile.
SPECIFICATION DeviceSpec
CONSTANTS
    Thread = {t1, t2}
    t1 = t1
    t2 = t2
    Sources = {"power"}
    Lockscreen = FALSE
    WhenChargerSleep = FALSE
    UsbMassStorage = FALSE
    ChargerWakeUp = FALSE
    CustomCase = FALSE
    DeviceRooted = FALSE
    LedUsage = FALSE
    ReconnectWifi = TRUE
    IsNiaModelA = FALSE
    LoaderMayFail = FALSE
SYMMETRY ThreadSymmetry
INVARIANTS
    AppsBackAtRest
