\* A charger plugged in or out while the device is suspended, without option 4.
SPECIFICATION Spec
CONSTANTS
    Thread = {t1, t2}
    t1 = t1
    t2 = t2
    Sources = {"power"}
    Lockscreen = FALSE
    WhenChargerSleep = TRUE
    UsbMassStorage = FALSE
    ChargerWakeUp = FALSE
    CustomCase = FALSE
    DeviceRooted = FALSE
    LedUsage = FALSE
SYMMETRY ThreadSymmetry
PROPERTIES
    NoSuspendOverCharger
