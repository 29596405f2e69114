\* Fast presses and the front light.
SPECIFICATION DeviceSpec
CONSTANTS
    Thread = {t1, t2}
    t1 = t1
    t2 = t2
    Sources = {"power"}
    Lockscreen = TRUE
    WhenChargerSleep = TRUE
    UsbMassStorage = FALSE
    ChargerWakeUp = FALSE
    CustomCase = FALSE
    DeviceRooted = FALSE
    LedUsage = FALSE
    ReconnectWifi = TRUE
    IsNiaModelA = TRUE
    LoaderMayFail = TRUE
SYMMETRY ThreadSymmetry
INVARIANTS
    LightBackAtRest
