\* The power button, the sleep cover and the idle timer at any moment, on a rooted
\* device with a lock screen, where the charger or a USB session may void a request.
SPECIFICATION Spec
CONSTANTS
    Thread = {t1, t2}
    t1 = t1
    t2 = t2
    Sources = {"power", "hall", "idle"}
    Lockscreen = TRUE
    WhenChargerSleep = FALSE
    UsbMassStorage = TRUE
    ChargerWakeUp = FALSE
    CustomCase = TRUE
    DeviceRooted = TRUE
    LedUsage = FALSE
SYMMETRY ThreadSymmetry
INVARIANTS
    TypeOK
    AtMostOneJob
    NeverExits
    MutedOnlyInGoSleep
    PolledJobIsTold
PROPERTIES
    ImplementsJobSlot
    EndingJobAdvances
