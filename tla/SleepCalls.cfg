\* Sleep calls, deep ones too, cut short by the power button, and updates of the
\* options, which want the LED.
SPECIFICATION DeviceSpec
CONSTANTS
    Thread = {t1, t2}
    t1 = t1
    t2 = t2
    Sources = {"power", "inotify", "update"}
    Lockscreen = FALSE
    WhenChargerSleep = TRUE
    UsbMassStorage = FALSE
    ChargerWakeUp = TRUE
    CustomCase = FALSE
    DeviceRooted = FALSE
    LedUsage = TRUE
    ReconnectWifi = TRUE
    IsNiaModelA = FALSE
    LoaderMayFail = FALSE
SYMMETRY ThreadSymmetry
VIEW GovernorView
INVARIANTS
    NeverExits
    GovernorBackAtRest
    NobodyStuck
PROPERTIES
    ImplementsJobSlot
