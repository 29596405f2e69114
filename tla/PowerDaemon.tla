---------------------------- MODULE PowerDaemon -----------------------------
(***************************************************************************)
(* SleepControl together with what the jobs do to the device: the user's   *)
(* applications, the message pipe, the screen, the front light, the CPU    *)
(* governor, Wi-Fi, USB networking and the touchscreen module.  Every step *)
(* of SleepControl is a step here; the blocks of prepareSleep and          *)
(* afterSleep, and a configuration update, also change the device.         *)
(***************************************************************************)
EXTENDS SleepControl

CONSTANTS
    ReconnectWifi,     \* 5-wifiReconnect
    IsNiaModelA,       \* the model whose touchscreen module is unloaded
    LoaderMayFail      \* loading that module back may fail four times

ASSUME DeviceAssumption ==
    {ReconnectWifi, IsNiaModelA, LoaderMayFail} \subseteq BOOLEAN

VARIABLES
    appsPids,          \* the applications that were stopped and not continued
    fifo,              \* the last message written to the pipe
    sleepMode,         \* /tmp/sleep_mode
    screen, dump,      \* what is shown, and the copy restoreFbink() shows
    brightness, savedBrightness,  \* the front light, /tmp/savedBrightness
    governor,
    wifi, wasConnectedToWifi,     \* the interface, /run/was_connected_to_wifi
    usbNet, wasUsbNetOn,          \* the service, and what the options recorded
    touchscreen, touchscreenStatus \* the module, and what its loader believes

apps   == <<appsPids, fifo, sleepMode>>
view   == <<screen, dump, brightness, savedBrightness>>
radios == <<wifi, wasConnectedToWifi, usbNet, wasUsbNetOn>>
panel  == <<touchscreen, touchscreenStatus>>
device == <<apps, view, governor, radios, panel>>

App == "reader"

(* Booted, with one application in front, Wi-Fi and USB networking up.     *)
DeviceInit ==
    /\ appsPids = {} /\ fifo = "none" /\ sleepMode = FALSE
    /\ screen = "apps" /\ dump = "none"
    /\ brightness = "user" /\ savedBrightness = "none"
    /\ governor = "normal"
    /\ wifi = TRUE /\ wasConnectedToWifi = FALSE
    /\ usbNet = TRUE /\ wasUsbNetOn = TRUE
    /\ touchscreen = TRUE /\ touchscreenStatus = TRUE

-----------------------------------------------------------------------------
(* What each block of a job does.                                          *)

(* "start", SIGSTOP; SIGCONT, "stop0"; and the mode file.                  *)
AppsEffect(name) ==
    /\ appsPids' = CASE name = "freezeApps"   -> appsPids \cup {App}
                     [] name = "unfreezeApps" -> {}
                     [] OTHER -> appsPids
    /\ fifo' = CASE name = "pipeStart"    -> "start"
                 [] name = "unfreezeApps" -> "stop0"
                 [] OTHER -> fifo
    /\ sleepMode' = CASE name = "sleepMode" -> TRUE
                      [] name = "awakeMode" -> FALSE
                      [] OTHER -> sleepMode

(* The screen is not copied while the lock screen shows.  InkBox's         *)
(* start-up, in which it is copied all the same (prepareSleep.cpp:94),     *)
(* is over; Applications has it as guiScript.  A lock screen that still    *)
(* runs is covered by the copy instead of being launched.  A copy that was *)
(* dropped after it was taken restores nothing: the screen is only         *)
(* refreshed.  Without a lock screen afterSleep may clear it, in a block   *)
(* that follows the mode file's and depends on the background option.      *)
ScreenEffect(name) ==
    /\ dump' = IF name = "screenshot" /\ ~lockscreenUp THEN screen ELSE dump
    /\ screen' \in
         LET restored == CASE dump = "none"  -> screen
                           [] dump = "empty" -> "blank"
                           [] OTHER -> dump IN
         CASE name = "sleepScreen"   -> {"splash"}
           [] name = "awakeMode"     -> {screen} \cup (IF Lockscreen THEN {} ELSE {"blank"})
           [] name = "restoreScreen" -> {restored}
           [] name = "lockscreen" /\ Lockscreen ->
                {IF lockscreenUp THEN restored ELSE "lockscreen"}
           [] OTHER -> {screen}

(* Faulty: without a saved level there is nothing to fall back on.         *)
FaultyLightEffect(name) ==
    LET restore == name = IF Lockscreen THEN "lockBrightness" ELSE "brightnessOn" IN
    /\ brightness' = IF name = "brightnessOff" THEN "off"
                     ELSE IF restore THEN savedBrightness ELSE brightness
    /\ savedBrightness' = IF name = "brightnessOff" THEN brightness
                          ELSE IF restore THEN "none" ELSE savedBrightness

(* restoreBrightness() falls back on the present level when there is no    *)
(* saved one; with a lock screen the light comes back before it is left.   *)
LightEffect(name) ==
    LET restore == name = IF Lockscreen THEN "lockBrightness" ELSE "brightnessOn" IN
    /\ brightness' = IF name = "brightnessOff" THEN "off"
                     ELSE IF restore /\ savedBrightness # "none" THEN savedBrightness
                     ELSE brightness
    /\ savedBrightness' = IF name = "brightnessOff" THEN brightness
                          ELSE IF restore THEN "none" ELSE savedBrightness

GovernorEffect(name) ==
    governor' = IF name = "deepSleepGo" /\ deepSleep THEN "powersave"
                ELSE IF name = "returnDeepSleep" /\ deepSleep THEN "normal"
                ELSE governor

(* Faulty: the flag follows the state found by the last turnOffWifi().     *)
FaultyWifiEffect(name) ==
    /\ wasConnectedToWifi' =
         IF name = "wifiOff" THEN wifi /\ ReconnectWifi ELSE wasConnectedToWifi
    /\ wifi' = CASE name = "wifiOff" -> FALSE
                 [] name = "wifiOn"  -> wifi \/ (ReconnectWifi /\ wasConnectedToWifi)
                 [] OTHER -> wifi

WifiEffect(name) ==
    /\ wasConnectedToWifi' =
         (wasConnectedToWifi \/ (name = "wifiOff" /\ wifi /\ ReconnectWifi))
    /\ wifi' = CASE name = "wifiOff" -> FALSE
                 [] name = "wifiOn"  -> wifi \/ (ReconnectWifi /\ wasConnectedToWifi)
                 [] OTHER -> wifi

UsbNetEffect(name) ==
    /\ usbNet' = CASE name = "usbNetOff" /\ wasUsbNetOn -> FALSE
                   [] name = "usbNetOn"  /\ wasUsbNetOn -> TRUE
                   [] OTHER -> usbNet
    /\ UNCHANGED wasUsbNetOn

(* Faulty: the flag is turned before it is compared, not after.            *)
FaultyNiaATouchscreenLoader(moduleStatus) ==
    /\ touchscreenStatus' = ~touchscreenStatus
    /\ touchscreen' \in IF touchscreenStatus = moduleStatus THEN {touchscreen}
                        ELSE {moduleStatus} \cup
                          (IF ~moduleStatus \/ LoaderMayFail THEN {touchscreen} ELSE {})

(* The flag is turned before the module is; after four failures the loader *)
(* gives up.  Unloading fails while something holds the device open.       *)
NiaATouchscreenLoader(moduleStatus) ==
    IF touchscreenStatus = moduleStatus
    THEN UNCHANGED panel
    ELSE /\ touchscreenStatus' = moduleStatus
         /\ touchscreen' \in {moduleStatus} \cup
              (IF ~moduleStatus \/ LoaderMayFail THEN {touchscreen} ELSE {})

(* The module stays loaded when KOReader (luajit) runs.                    *)
TouchscreenEffect(name) ==
    CASE name = "touchscreenOff" /\ IsNiaModelA ->
           NiaATouchscreenLoader(FALSE) \/ UNCHANGED panel
      [] name = "touchscreenOn" /\ IsNiaModelA -> NiaATouchscreenLoader(TRUE)
      [] OTHER -> UNCHANGED panel

Effect(name) ==
    /\ AppsEffect(name)     /\ ScreenEffect(name) /\ LightEffect(name)
    /\ GovernorEffect(name) /\ WifiEffect(name)   /\ UsbNetEffect(name)
    /\ TouchscreenEffect(name)

(* prepareVariables(): the copy of the screen is dropped, the governor is  *)
(* set to the option's unless 2-cpuGovernor has no file (which is then     *)
(* only written), and the USB networking flag from what the device shows   *)
(* now.  The options themselves are constants.                             *)
UpdateEffect ==
    /\ dump' = IF dump = "none" THEN "none" ELSE "empty"
    /\ governor' \in {"normal", governor}
    /\ wasUsbNetOn' = usbNet
    /\ UNCHANGED <<apps, screen, brightness, savedBrightness, wifi, wasConnectedToWifi,
                   usbNet, panel>>

-----------------------------------------------------------------------------
ActOnDevice(t) == Act(t) /\ Effect(StepName(t))

DeviceInitAll == Init /\ DeviceInit

JobButAct(t) ==
    JobStart(t) \/ CheckOrder(t) \/ Release(t) \/ Report(t) \/ GoSleep(t)

ControlOnly ==
    \/ Running /\ (Watchdog \/ \E t \in Thread : JobButAct(t))
    \/ Running /\ (PowerButton \/ HallSensor \/ IdleExpires \/ SleepCall)
    \/ Running /\ (MonitorNote \/ IdleStep \/ ConfigStep \/ LeaveLockscreen)
    \/ suspended /\ Wake

DeviceNext ==
    \/ Running /\ \E t \in Thread : ActOnDevice(t)
    \/ Running /\ UpdateConfig /\ UpdateEffect
    \/ ControlOnly /\ UNCHANGED device

DeviceSpec == DeviceInitAll /\ [][DeviceNext]_<<vars, device>>

-----------------------------------------------------------------------------
(* Properties.                                                             *)

(* The device lies idle, and as far as the daemon knows it is awake.       *)
RestingAwake == Resting /\ sleepJob = "Nothing"

(* Every variable of the device stays in its range.                        *)
DeviceTypeOK ==
    /\ appsPids \subseteq {App} /\ fifo \in {"none", "start", "stop0"}
    /\ screen \in {"apps", "splash", "lockscreen", "blank"}
    /\ dump \in {"none", "empty", "apps", "splash", "lockscreen", "blank"}
    /\ brightness \in {"user", "off"} /\ savedBrightness \in {"none", "user", "off"}
    /\ governor \in {"normal", "powersave"}
    /\ {sleepMode, wifi, wasConnectedToWifi, usbNet, wasUsbNetOn}
         \cup {touchscreen, touchscreenStatus} \subseteq BOOLEAN

(* However prepareSleep and afterSleep were cut short and repeated by fast *)
(* presses: when the daemon is done, no application is left stopped, the   *)
(* applications have last been told "stop0", and /tmp/sleep_mode agrees.   *)
AppsBackAtRest == RestingAwake => appsPids = {} /\ fifo # "start" /\ ~sleepMode

(* An awake device never keeps running under the powersave governor.       *)
GovernorBackAtRest == RestingAwake => governor = "normal"

(* Wi-Fi (with option 5) and USB networking, up when the device went to    *)
(* sleep, are up again, although turnOffWifi() and disableUsbNet() may     *)
(* have run several times in between.                                      *)
NetworkBackAtRest == RestingAwake => (ReconnectWifi => wifi) /\ usbNet

(* An application is stopped only after "start" and continued before       *)
(* "stop0": one that is stopped was last told "start".                     *)
StoppedAppsWereTold == appsPids # {} => fifo = "start"

(* Nobody gets past the lock screen by pressing: while it shows, whatever  *)
(* jobs are cut short and begun anew behind it, the applications that were *)
(* stopped stay stopped.                                                   *)
NotBehindLockscreen ==
    [][appsPids # {} /\ appsPids' = {} => ~lockscreenUp]_<<vars, device>>

(* The front light comes back when the user has stopped pressing.          *)
LightBackAtRest == RestingAwake => brightness = "user"

(* "To avoid screen shooting the previous lockscreen": the copy that       *)
(* afterSleep shows once the lock screen has been left is no picture of a  *)
(* lock screen behind which the applications are stopped and draw nothing. *)
LockscreenNotCopied ==
    [][dump' = "lockscreen" /\ dump # "lockscreen" => appsPids = {}]_<<vars, device>>

(* The loader's flag never claims a module that is not there: otherwise no *)
(* later afterSleep would load it, however often a job was repeated or an  *)
(* unload failed.                                                          *)
LoaderNotMistaken == touchscreenStatus => touchscreen

(* "we need this module...": an awake device at rest can be touched.       *)
TouchscreenBackAtRest == RestingAwake => touchscreen

-----------------------------------------------------------------------------
(* However presses cut the jobs short and begin new ones, they keep the    *)
(* promise of HeldApps, as Applications does with the list taken apart.    *)
(* The lock screen is block 6 of afterSleep, the wait for the user 8.      *)
PastBlock(i) ==
    \E t \in Thread : job[t].kind = "After" /\ job[t].at > i /\ ~die["After"]

Promise == INSTANCE HeldApps WITH
    alive  <- {App},
    held   <- appsPids,
    up     <- lockscreenUp,
    locked <- Lockscreen,
    waking <- CASE Lockscreen /\ PastBlock(8) -> "left"
                [] Lockscreen /\ PastBlock(6) /\ ~PastBlock(8) -> "shown"
                [] OTHER -> "away"

ImplementsHeldApps == Promise!Spec

=============================================================================
