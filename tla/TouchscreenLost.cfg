\* A press in the last moments of afterSleep, on the model whose touchscreen
\* module is unloaded.
SPECIFICATION DeviceSpec
CONSTANTS
    Thread = {t1, t2}
    t1 = t1
    t2 = t2
    Sources = {"power"}
    Lockscreen = FALSE
    WhenChargerSleep = TRUE
    UsbMassStorage = FALSE
    ChargerWakeUp = FALSE
    CustomCase = FALSE
    DeviceRooted = FALSE
    LedUsage = FALSE
    ReconnectWifi = TRUE
    IsNiaModelA = TRUE
    LoaderMayFail = FALSE
SYMMETRY ThreadSymmetry
INVARIANTS
    TouchscreenBackAtRest
