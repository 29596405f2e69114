---------------------------- MODULE SleepControl ----------------------------
(***************************************************************************)
(* The control core of the InkBox power daemon: the watchdog thread, the   *)
(* three detached job threads it launches (prepareSleep, goSleep,          *)
(* afterSleep) and the three threads that raise sleep requests             *)
(* (monitorEvents, idleSleep, configUpdate), with the globals and mutexes  *)
(* of functions.cpp through which they talk.                               *)
(*                                                                         *)
(* A step is the code between two points where another thread can see or   *)
(* change something.  watchdogStartJob_mtx, newSleepCondition_mtx and      *)
(* ignoreEvents_mtx protect single assignments, so their sections are      *)
(* atomic; sleep_mtx, currentActiveThread_mtx and occupyLed are held       *)
(* across other work and are modelled by their owner.                      *)
(*                                                                         *)
(* What a job does to the device is left to PowerDaemon: here a step of a  *)
(* job is a name, and only its effect on the shared globals is kept.       *)
(***************************************************************************)
EXTENDS Naturals, Sequences, FiniteSets

CONSTANTS
    Thread,            \* the OS threads that detached jobs run on
    Sources,           \* which requests the environment makes
    Lockscreen,        \* 12-lockscreen
    WhenChargerSleep,  \* 3-whenChargerSleep
    UsbMassStorage,    \* whether /kobo/tmp/in_usbms can appear
    ChargerWakeUp,     \* 4-chargerWakeUp
    CustomCase,        \* 8-customCase
    DeviceRooted,      \* /opt/root/rooted
    LedUsage           \* 6-ledUsage

SourceNames == {"power", "hall", "idle", "inotify", "update"}

ASSUME ConstantsAssumption ==
    /\ Sources \subseteq SourceNames
    /\ {Lockscreen, WhenChargerSleep, UsbMassStorage, ChargerWakeUp,
        CustomCase, DeviceRooted, LedUsage} \subseteq BOOLEAN
    /\ Thread \cap {"free", "watchdog", "idle", "config"} = {}

(* sleepBool of functions.h; Skip is set and cleared within one section    *)
(* of sleep_mtx and is seen by no other thread.                            *)
JobKind   == {"Prepare", "GoingSleep", "After"}
SleepBool == JobKind \cup {"Nothing"}

(* goSleepCondition of functions.h.                                        *)
GoSleepCondition == {"None", "powerButton", "halSensor", "Idle", "Inotify"}

VARIABLES
    watchdogStartJob,    \* a request waits for the watchdog
    newSleepCondition,   \* who raised the last request
    sleepJob,            \* what the device should be doing
    watchdogNextStep,    \* what a finished job asks the watchdog to launch
    currentActiveThread, \* which job may be running
    ignoreEvents,        \* monitorEvents must not raise requests
    deepSleep,           \* the next sleep is a deep one
    deepSleepPermission, \* an inotify request may be taken
    customCaseCount,     \* hall triggers seen since the last one acted on
    lockscreenUp,        \* lockscreen-bin is running
    sleep_mtx,
    currentActiveThread_mtx,
    occupyLed,           \* owners of the three long-held mutexes
    watchdog,            \* the watchdog's position and its launch
    job,                 \* the position of each job thread
    die,                 \* diePrepare, dieGoing, dieAfter
    monitor, idle, config, \* the positions of the three raising threads
    suspended,           \* the kernel has stopped every thread
    chargerChanged       \* the charger's state is not what goSleep saved

requests == <<watchdogStartJob, newSleepCondition>>
deep     == <<deepSleep, deepSleepPermission>>
raisers  == <<monitor, idle, config, customCaseCount>>
mutexes  == <<sleep_mtx, currentActiveThread_mtx, occupyLed>>
jobs     == <<job, die>>
orders   == <<sleepJob, watchdogNextStep, currentActiveThread>>
kernel   == <<suspended, chargerChanged>>

vars == <<requests, orders, ignoreEvents, deep, lockscreenUp, mutexes,
          watchdog, jobs, raisers, kernel>>

-----------------------------------------------------------------------------
(* Each definition named Faulty... is the one that follows it with a       *)
(* plausible slip in it.  No definition uses them: they show that the      *)
(* properties would notice.                                                *)

(* Faulty: applications are stopped before they are told, and deep sleep   *)
(* is forgotten before it is undone.                                       *)
FaultySteps == [
    Prepare |-> << "touchscreenOff", "screenshot", "collectLockscreen",
                   "freezeApps", "pipeStart", "sleepScreen", "sleepMode",
                   "brightnessOff", "wifiOff", "usbNetOff",
                   "requestGoSleep", "deepSleepGo" >>,
    After   |-> << "forgetDeepSleep", "returnDeepSleep", "permitDeepSleep",
                   "awakeMode", "wifiOn", "lockscreen", "lockBrightness",
                   "lockWait", "restoreScreen", "unfreezeApps",
                   "brightnessOn", "usbNetOn", "touchscreenOn", "finish" >> ]

(* The jobs as lists of named steps, in the order of the code.  A step     *)
(* outside Unguarded runs only when the CEP() or CEA() before it leaves    *)
(* the die flag clear; blocks with no effect outside the job (the Xorg     *)
(* notice, the clock, the ssh sessions, the gadget role) are left out with *)
(* their check, which the next check repeats.                              *)
Steps == [
    Prepare |-> << "touchscreenOff", "screenshot", "collectLockscreen",
                   "pipeStart", "freezeApps", "sleepScreen", "sleepMode",
                   "brightnessOff", "wifiOff", "usbNetOff",
                   "requestGoSleep", "deepSleepGo" >>,
    After   |-> << "returnDeepSleep", "forgetDeepSleep", "permitDeepSleep",
                   "awakeMode", "wifiOn", "lockscreen", "lockBrightness",
                   "lockWait", "restoreScreen", "unfreezeApps",
                   "brightnessOn", "usbNetOn", "touchscreenOn", "finish" >> ]

(* Faulty: no CEA() before the applications are continued.                 *)
FaultyUnguarded == {"touchscreenOff", "collectLockscreen",
                    "returnDeepSleep", "forgetDeepSleep", "permitDeepSleep", "unfreezeApps"}

Unguarded == {"touchscreenOff", "collectLockscreen",
              "returnDeepSleep", "forgetDeepSleep", "permitDeepSleep"}

NoJob == [kind |-> "Nothing", pc |-> "none", at |-> 0]

StepName(t) == Steps[job[t].kind][job[t].at]

(* Where job kind k goes once it is past step i - 1.                       *)
Arrive(k, i) ==
    [ kind |-> k, at |-> i,
      pc   |-> IF i > Len(Steps[k]) THEN "release"
               ELSE IF Steps[k][i] \in Unguarded THEN "act" ELSE "check" ]

Goto(t, pc) == job' = [job EXCEPT ![t].pc = pc]

Init ==
    /\ watchdogStartJob = FALSE  /\ newSleepCondition = "None"
    /\ sleepJob = "Nothing"      /\ watchdogNextStep = "Nothing"
    /\ currentActiveThread = "Nothing"
    /\ ignoreEvents = FALSE      /\ customCaseCount = 0
    /\ deepSleep = FALSE         /\ deepSleepPermission = TRUE
    /\ lockscreenUp = FALSE
    /\ suspended = FALSE         /\ chargerChanged = FALSE
    /\ sleep_mtx = "free"        /\ currentActiveThread_mtx = "free"
    /\ occupyLed = "free"
    /\ watchdog = [pc |-> "top", want |-> "Nothing", from |-> "start"]
    /\ job = [t \in Thread |-> NoJob]
    /\ die = [k \in JobKind |-> FALSE]
    /\ monitor = "wait" /\ idle = "count" /\ config = "wait"

-----------------------------------------------------------------------------
(* The watchdog, one pass of its loop.                                     *)

WatchdogAt(pc)  == watchdog.pc = pc
WatchdogTo(pc)  == watchdog' = [watchdog EXCEPT !.pc = pc]
Launching(want, from, pc) ==
    watchdog' = [pc |-> pc, want |-> want, from |-> from]

(* The pass begins by taking the pending request and clearing it.          *)
TakeRequest ==
    /\ WatchdogAt("top")
    /\ watchdogStartJob' = FALSE
    /\ WatchdogTo(IF watchdogStartJob THEN "decide" ELSE "next")
    /\ UNCHANGED <<newSleepCondition, orders, ignoreEvents, deep, lockscreenUp,
                   mutexes, jobs, raisers, kernel>>

(* Faulty: a press during prepareSleep only withdraws the order.           *)
FaultyDecide ==
    /\ WatchdogAt("decide")
    /\ sleep_mtx = "free"
    /\ IF sleepJob \in {"Nothing", "After"}
       THEN /\ sleep_mtx' = "watchdog"
            /\ UNCHANGED sleepJob
            /\ Launching("Prepare", "start", "claim")
       ELSE IF sleepJob = "GoingSleep"
       THEN /\ sleep_mtx' = "watchdog"
            /\ UNCHANGED sleepJob
            /\ WatchdogTo("settle")
       ELSE /\ sleepJob' = "Nothing"
            /\ UNCHANGED sleep_mtx
            /\ WatchdogTo("next")
    /\ UNCHANGED <<requests, watchdogNextStep, currentActiveThread, ignoreEvents,
                   deep, lockscreenUp, currentActiveThread_mtx, occupyLed,
                   jobs, raisers, kernel>>

(* The request becomes an order.  A USB mass storage session, or a charger *)
(* under option 3, turns it into Skip, which the last branch writes back   *)
(* as Nothing.  The other branches keep sleep_mtx.                         *)
Decide ==
    /\ WatchdogAt("decide")
    /\ sleep_mtx = "free"
    /\ \E usbms \in {FALSE, UsbMassStorage}, charger \in BOOLEAN :
         IF usbms \/ (~WhenChargerSleep /\ charger)
         THEN /\ sleepJob' = "Nothing"
              /\ WatchdogTo("next")
              /\ UNCHANGED sleep_mtx
         ELSE /\ sleep_mtx' = "watchdog"
              /\ UNCHANGED sleepJob
              /\ \/ /\ sleepJob \in {"Nothing", "After"}
                    /\ Launching("Prepare", "start", "claim")
                 \/ sleepJob = "Prepare"    /\ Launching("After", "start", "claim")
                 \/ sleepJob = "GoingSleep" /\ WatchdogTo("settle")
    /\ UNCHANGED <<requests, watchdogNextStep, currentActiveThread, ignoreEvents,
                   deep, lockscreenUp, currentActiveThread_mtx, occupyLed,
                   jobs, raisers, kernel>>

(* Faulty: the way out forgets the mutex.                                  *)
FaultySettle ==
    /\ WatchdogAt("settle")
    /\ IF watchdogNextStep # "After"
       THEN Launching("After", "start", "claim")
       ELSE WatchdogTo("next")
    /\ UNCHANGED <<requests, orders, ignoreEvents, deep, lockscreenUp, mutexes, jobs,
                   raisers, kernel>>

(* 400 ms later, sleep_mtx still held: does goSleep already ask for After? *)
Settle ==
    /\ WatchdogAt("settle")
    /\ IF watchdogNextStep # "After"
       THEN Launching("After", "start", "claim") /\ UNCHANGED sleep_mtx
       ELSE WatchdogTo("next") /\ sleep_mtx' = "free"
    /\ UNCHANGED <<requests, orders, ignoreEvents, deep, lockscreenUp,
                   currentActiveThread_mtx, occupyLed, jobs, raisers, kernel>>

(* Faulty: an order still in force is kept: the running job is not told.   *)
FaultyClaim ==
    /\ WatchdogAt("claim")
    /\ currentActiveThread_mtx = "free"
    /\ currentActiveThread_mtx' = "watchdog"
    /\ sleepJob' = IF sleepJob = "Nothing" THEN watchdog.want ELSE sleepJob
    /\ sleep_mtx' = "free"
    /\ WatchdogTo("peek")
    /\ UNCHANGED <<requests, watchdogNextStep, currentActiveThread, ignoreEvents,
                   deep, lockscreenUp, occupyLed, jobs, raisers, kernel>>

(* sleepJob is overwritten with both mutexes held, sleep_mtx is released.  *)
Claim ==
    /\ WatchdogAt("claim")
    /\ currentActiveThread_mtx = "free"
    /\ currentActiveThread_mtx' = "watchdog"
    /\ sleepJob' = watchdog.want
    /\ sleep_mtx' = "free"
    /\ WatchdogTo("peek")
    /\ UNCHANGED <<requests, watchdogNextStep, currentActiveThread, ignoreEvents,
                   deep, lockscreenUp, occupyLed, jobs, raisers, kernel>>

(* Faulty: busy or not, the job is launched.                               *)
FaultyPeek ==
    /\ WatchdogAt("peek")
    /\ currentActiveThread_mtx' = "free"
    /\ WatchdogTo("mark")
    /\ UNCHANGED <<requests, orders, ignoreEvents, deep, lockscreenUp, sleep_mtx,
                   occupyLed, jobs, raisers, kernel>>

(* The first look at currentActiveThread, inside the section of Claim; the *)
(* unlock does not ask who owns the mutex.                                 *)
Peek ==
    /\ WatchdogAt("peek")
    /\ currentActiveThread_mtx' = "free"
    /\ WatchdogTo(IF currentActiveThread = "Nothing" THEN "mark" ELSE "poll")
    /\ UNCHANGED <<requests, orders, ignoreEvents, deep, lockscreenUp, sleep_mtx,
                   occupyLed, jobs, raisers, kernel>>

(* Faulty: looks once and leaves.                                          *)
FaultyPoll ==
    /\ WatchdogAt("poll")
    /\ currentActiveThread_mtx = "free"
    /\ WatchdogTo(IF watchdog.from = "start" THEN "mark" ELSE "choose")
    /\ UNCHANGED <<requests, orders, ignoreEvents, deep, lockscreenUp, mutexes,
                   jobs, raisers, kernel>>

(* The polling loops, which leave once the running job has reported.       *)
Poll ==
    /\ WatchdogAt("poll")
    /\ currentActiveThread_mtx = "free"
    /\ currentActiveThread = "Nothing"
    /\ WatchdogTo(IF watchdog.from = "start" THEN "mark" ELSE "choose")
    /\ UNCHANGED <<requests, orders, ignoreEvents, deep, lockscreenUp, mutexes,
                   jobs, raisers, kernel>>

Mark ==
    /\ WatchdogAt("mark")
    /\ currentActiveThread_mtx = "free"
    /\ currentActiveThread' = watchdog.want
    /\ WatchdogTo("launch")
    /\ UNCHANGED <<requests, sleepJob, watchdogNextStep, ignoreEvents, deep,
                   lockscreenUp, mutexes, jobs, raisers, kernel>>

(* thread(...).detach()                                                    *)
Launch ==
    /\ WatchdogAt("launch")
    /\ \E t \in Thread :
         /\ job[t] = NoJob
         /\ job' = [job EXCEPT ![t] = [kind |-> watchdog.want, pc |-> "start", at |-> 0]]
    /\ WatchdogTo(IF watchdog.from = "start" THEN "next" ELSE "consume")
    /\ UNCHANGED <<requests, orders, ignoreEvents, deep, lockscreenUp, mutexes,
                   die, raisers, kernel>>

(* The second half of the pass: has a job asked for a next step?           *)
ReadNextStep ==
    /\ WatchdogAt("next")
    /\ WatchdogTo(IF watchdogNextStep # "Nothing" THEN "reset" ELSE "top")
    /\ UNCHANGED <<requests, orders, ignoreEvents, deep, lockscreenUp, mutexes,
                   jobs, raisers, kernel>>

(* Faulty: the asked-for step is cleared too early.                        *)
FaultyResetOrder ==
    /\ WatchdogAt("reset")
    /\ sleep_mtx = "free"
    /\ sleepJob' = "Nothing"
    /\ watchdogNextStep' = "Nothing"
    /\ Launching("Nothing", "next", "poll")
    /\ UNCHANGED <<requests, currentActiveThread, ignoreEvents,
                   deep, lockscreenUp, mutexes, jobs, raisers, kernel>>

ResetOrder ==
    /\ WatchdogAt("reset")
    /\ sleep_mtx = "free"
    /\ sleepJob' = "Nothing"
    /\ Launching("Nothing", "next", "poll")
    /\ UNCHANGED <<requests, watchdogNextStep, currentActiveThread, ignoreEvents,
                   deep, lockscreenUp, mutexes, jobs, raisers, kernel>>

(* watchdogNextStep is read again, and once more further down, when it can *)
(* only be what it was: a job that might write it has gone.  Anything but  *)
(* the two steps a job asks for ends the process.                          *)
ChooseNextStep ==
    /\ WatchdogAt("choose")
    /\ IF watchdogNextStep \in {"After", "GoingSleep"}
       THEN Launching(watchdogNextStep, "next", "assign")
       ELSE WatchdogTo("exit")
    /\ UNCHANGED <<requests, orders, ignoreEvents, deep, lockscreenUp, mutexes,
                   jobs, raisers, kernel>>

Assign ==
    /\ WatchdogAt("assign")
    /\ sleep_mtx = "free"
    /\ sleepJob' = watchdog.want
    /\ WatchdogTo("mark")
    /\ UNCHANGED <<requests, watchdogNextStep, currentActiveThread, ignoreEvents,
                   deep, lockscreenUp, mutexes, jobs, raisers, kernel>>

ConsumeNextStep ==
    /\ WatchdogAt("consume")
    /\ watchdogNextStep' = "Nothing"
    /\ WatchdogTo("top")
    /\ UNCHANGED <<requests, sleepJob, currentActiveThread, ignoreEvents, deep,
                   lockscreenUp, mutexes, jobs, raisers, kernel>>

Watchdog ==
    \/ TakeRequest \/ Decide \/ Settle \/ Claim \/ Peek \/ Poll \/ Mark \/ Launch
    \/ ReadNextStep \/ ResetOrder \/ ChooseNextStep \/ Assign \/ ConsumeNextStep

-----------------------------------------------------------------------------
(* The jobs.  A job holds occupyLed from its first step to its last but    *)
(* one, and reports by clearing currentActiveThread.                       *)

JobAt(t, pc) == job[t].pc = pc

(* The die flag is cleared on the way in (goSleep and afterSleep clear it  *)
(* just before they wait for occupyLed, prepareSleep just after).          *)
JobStart(t) ==
    LET k == job[t].kind IN
    /\ JobAt(t, "start")
    /\ occupyLed = "free"
    /\ occupyLed' = t
    /\ die' = [die EXCEPT ![k] = FALSE]
    /\ job' = [job EXCEPT ![t] =
                 IF k = "GoingSleep" THEN [@ EXCEPT !.pc = "forget"] ELSE Arrive(k, 1)]
    /\ UNCHANGED <<requests, orders, ignoreEvents, deep, lockscreenUp, sleep_mtx,
                   currentActiveThread_mtx, watchdog, raisers, kernel>>

(* CEP() and CEA(): a job whose order was changed is to die.  Once dying   *)
(* it only runs through to its unguarded steps and its end.                *)
CheckOrder(t) ==
    LET k == job[t].kind IN
    /\ JobAt(t, "check")
    /\ die[k] \/ sleep_mtx = "free"
    /\ die' = [die EXCEPT ![k] = @ \/ sleepJob # k]
    /\ IF die'[k] THEN job' = [job EXCEPT ![t] = Arrive(k, @.at + 1)]
                  ELSE Goto(t, "act")
    /\ UNCHANGED <<requests, orders, ignoreEvents, deep, lockscreenUp, mutexes,
                   watchdog, raisers, kernel>>

(* What the steps of prepareSleep and afterSleep do to shared globals.     *)
StepOrders(name) ==
    \/ /\ name = "requestGoSleep"
       /\ watchdogNextStep' = "GoingSleep"
       /\ UNCHANGED <<sleepJob, currentActiveThread>>
    \/ /\ name = "finish"
       /\ sleep_mtx = "free"
       /\ sleepJob' = "Nothing"
       /\ UNCHANGED <<watchdogNextStep, currentActiveThread>>
    \/ name \notin {"requestGoSleep", "finish"} /\ UNCHANGED orders

StepDeep(name) ==
    /\ deepSleep' = (deepSleep /\ name # "forgetDeepSleep")
    /\ deepSleepPermission' = (deepSleepPermission \/ name = "permitDeepSleep")

StepLockscreen(name) ==
    lockscreenUp' = CASE name = "lockscreen" -> Lockscreen \/ lockscreenUp
                      [] name \in {"collectLockscreen", "freezeApps"} -> FALSE
                      [] OTHER -> lockscreenUp

(* Faulty: while it waits for the lock screen, afterSleep checks nothing.  *)
FaultyAct(t) ==
    LET k == job[t].kind IN
    /\ JobAt(t, "act")
    /\ StepOrders(StepName(t))
    /\ StepDeep(StepName(t))
    /\ StepLockscreen(StepName(t))
    /\ StepName(t) = "lockWait" => ~lockscreenUp
    /\ job' = [job EXCEPT ![t] = Arrive(k, @.at + 1)]
    /\ UNCHANGED <<requests, ignoreEvents, mutexes, watchdog, die, raisers, kernel>>

(* One guarded or unguarded block of prepareSleep or afterSleep.  lockWait *)
(* goes back to its check for as long as the lock screen is up.            *)
Act(t) ==
    LET k == job[t].kind IN
    /\ JobAt(t, "act")
    /\ StepOrders(StepName(t))
    /\ StepDeep(StepName(t))
    /\ StepLockscreen(StepName(t))
    /\ IF StepName(t) = "lockWait" /\ lockscreenUp
       THEN Goto(t, "check")
       ELSE job' = [job EXCEPT ![t] = Arrive(k, @.at + 1)]
    /\ UNCHANGED <<requests, ignoreEvents, mutexes, watchdog, die, raisers, kernel>>

(* Faulty: the job reports with its last unlock.                           *)
FaultyRelease(t) ==
    /\ JobAt(t, "release")
    /\ occupyLed' = "free"
    /\ currentActiveThread' = "Nothing"
    /\ Goto(t, IF job[t].kind = "GoingSleep" THEN "ask" ELSE "report")
    /\ UNCHANGED <<requests, sleepJob, watchdogNextStep, ignoreEvents, deep, lockscreenUp,
                   sleep_mtx, currentActiveThread_mtx, watchdog, die, raisers, kernel>>

Release(t) ==
    /\ JobAt(t, "release")
    /\ occupyLed' = "free"
    /\ Goto(t, IF job[t].kind = "GoingSleep" THEN "ask" ELSE "report")
    /\ UNCHANGED <<requests, orders, ignoreEvents, deep, lockscreenUp, sleep_mtx,
                   currentActiveThread_mtx, watchdog, die, raisers, kernel>>

Report(t) ==
    /\ JobAt(t, "report")
    /\ currentActiveThread_mtx = "free"
    /\ currentActiveThread' = "Nothing"
    /\ job' = [job EXCEPT ![t] = NoJob]
    /\ UNCHANGED <<requests, sleepJob, watchdogNextStep, ignoreEvents, deep,
                   lockscreenUp, mutexes, watchdog, die, raisers, kernel>>

-----------------------------------------------------------------------------
(* goSleep: between Mute and Unmute the buttons only leave a note in       *)
(* newSleepCondition, which CEG() reads.                                   *)

GoStep(t, from, to) == JobAt(t, from) /\ Goto(t, to)

Forget(t) ==
    /\ GoStep(t, "forget", "mute")
    /\ newSleepCondition' = "None"
    /\ UNCHANGED <<watchdogStartJob, orders, ignoreEvents, deep, lockscreenUp, mutexes,
                   watchdog, die, raisers, kernel>>

Mute(t) ==
    /\ GoStep(t, "mute", "entered")
    /\ ignoreEvents' = TRUE
    /\ UNCHANGED <<requests, orders, deep, lockscreenUp, mutexes, watchdog, die,
                   raisers, kernel>>

(* Runs of CEG() with nothing but waiting between them (smartWait) count   *)
(* as one: what makes a goSleep die stays that way until it is gone.       *)
AfterCEG == [entered |-> "extend", waited |-> "loop", failed |-> "loop", woken |-> "judge"]

(* Faulty: only the order is looked at.                                    *)
FaultyCEG(t) ==
    /\ job[t].pc \in DOMAIN AfterCEG
    /\ die["GoingSleep"] \/ sleep_mtx = "free"
    /\ die' = [die EXCEPT !["GoingSleep"] = @ \/ sleepJob # "GoingSleep"]
    /\ Goto(t, AfterCEG[job[t].pc])
    /\ UNCHANGED <<requests, orders, ignoreEvents, deep, lockscreenUp, mutexes,
                   watchdog, raisers, kernel>>

CEG(t) ==
    /\ job[t].pc \in DOMAIN AfterCEG
    /\ die["GoingSleep"] \/ sleep_mtx = "free"
    /\ die' = [die EXCEPT !["GoingSleep"] =
                 @ \/ sleepJob # "GoingSleep" \/ newSleepCondition # "None"]
    /\ Goto(t, AfterCEG[job[t].pc])
    /\ UNCHANGED <<requests, orders, ignoreEvents, deep, lockscreenUp, mutexes,
                   watchdog, raisers, kernel>>

(* "1" to state-extended, unless dying.                                    *)
Extend(t) ==
    /\ GoStep(t, "extend", "waited")
    /\ UNCHANGED <<requests, orders, ignoreEvents, deep, lockscreenUp, mutexes,
                   watchdog, die, raisers, kernel>>

(* The loop's condition; its body first lends the LED to ledManager.       *)
SuspendLoop(t) ==
    /\ JobAt(t, "loop")
    /\ IF die["GoingSleep"]
       THEN Goto(t, "unmute") /\ UNCHANGED occupyLed
       ELSE Goto(t, "retake") /\ occupyLed' = "free"
    /\ UNCHANGED <<requests, orders, ignoreEvents, deep, lockscreenUp, sleep_mtx,
                   currentActiveThread_mtx, watchdog, die, raisers, kernel>>

Retake(t) ==
    /\ GoStep(t, "retake", "mem")
    /\ occupyLed = "free"
    /\ occupyLed' = t
    /\ UNCHANGED <<requests, orders, ignoreEvents, deep, lockscreenUp, sleep_mtx,
                   currentActiveThread_mtx, watchdog, die, raisers, kernel>>

(* "mem" to /sys/power/state: the kernel refuses, or stops every thread.   *)
Suspend(t) ==
    /\ JobAt(t, "mem")
    /\ \/ Goto(t, "failed") /\ UNCHANGED suspended
       \/ Goto(t, "woken") /\ suspended' = TRUE
    /\ UNCHANGED <<requests, orders, ignoreEvents, deep, lockscreenUp, mutexes,
                   watchdog, die, raisers, chargerChanged>>

(* A wake-up ends the loop only without option 4 and with the charger in   *)
(* the state it had before the suspend.                                    *)
Judge(t) ==
    /\ JobAt(t, "judge")
    /\ Goto(t, IF ~ChargerWakeUp /\ ~chargerChanged THEN "unmute" ELSE "loop")
    /\ UNCHANGED <<requests, orders, ignoreEvents, deep, lockscreenUp, mutexes,
                   watchdog, die, raisers, kernel>>

(* Faulty: the buttons stay muted.                                         *)
FaultyUnmute(t) ==
    /\ GoStep(t, "unmute", "release")
    /\ UNCHANGED <<requests, orders, ignoreEvents, deep, lockscreenUp, mutexes, watchdog,
                   die, raisers, kernel>>

Unmute(t) ==
    /\ GoStep(t, "unmute", "release")
    /\ ignoreEvents' = FALSE
    /\ chargerChanged' = FALSE
    /\ UNCHANGED <<requests, orders, deep, lockscreenUp, mutexes, watchdog, die,
                   raisers, suspended>>

AskForAfter(t) ==
    /\ GoStep(t, "ask", "report")
    /\ watchdogNextStep' = "After"
    /\ UNCHANGED <<requests, sleepJob, currentActiveThread, ignoreEvents, deep,
                   lockscreenUp, mutexes, watchdog, die, raisers, kernel>>

GoSleep(t) ==
    \/ Forget(t) \/ Mute(t) \/ CEG(t) \/ Extend(t) \/ SuspendLoop(t) \/ Retake(t)
    \/ Suspend(t) \/ Judge(t) \/ Unmute(t) \/ AskForAfter(t)

Job(t) ==
    \/ JobStart(t) \/ CheckOrder(t) \/ Act(t) \/ Release(t) \/ Report(t)
    \/ GoSleep(t)

-----------------------------------------------------------------------------
(* monitorEvents: eventHandler() raises the request, unless muted, and     *)
(* only then does the caller say who it was.                               *)

EventHandler == watchdogStartJob' = (watchdogStartJob \/ ~ignoreEvents)

PowerButton ==
    /\ "power" \in Sources /\ monitor = "wait"
    /\ EventHandler
    /\ monitor' = "powerButton"
    /\ UNCHANGED <<newSleepCondition, orders, ignoreEvents, deep, lockscreenUp, mutexes,
                   watchdog, jobs, customCaseCount, idle, config, kernel>>

(* Faulty: off by one, the count reaches two.                              *)
FaultyHallSensor ==
    /\ "hall" \in Sources /\ monitor = "wait"
    /\ IF CustomCase /\ customCaseCount < 2
       THEN customCaseCount' = customCaseCount + 1 /\ UNCHANGED <<watchdogStartJob, monitor>>
       ELSE customCaseCount' = 0 /\ EventHandler /\ monitor' = "halSensor"
    /\ UNCHANGED <<newSleepCondition, orders, ignoreEvents, deep, lockscreenUp, mutexes,
                   watchdog, jobs, idle, config, kernel>>

(* With option 8 every other trigger of the hall sensor is ignored.        *)
HallSensor ==
    /\ "hall" \in Sources /\ monitor = "wait"
    /\ IF CustomCase /\ customCaseCount = 0
       THEN customCaseCount' = 1 /\ UNCHANGED <<watchdogStartJob, monitor>>
       ELSE customCaseCount' = 0 /\ EventHandler /\ monitor' = "halSensor"
    /\ UNCHANGED <<newSleepCondition, orders, ignoreEvents, deep, lockscreenUp, mutexes,
                   watchdog, jobs, idle, config, kernel>>

MonitorNote ==
    /\ monitor \in GoSleepCondition
    /\ newSleepCondition' = monitor
    /\ monitor' = "wait"
    /\ UNCHANGED <<watchdogStartJob, orders, ignoreEvents, deep, lockscreenUp, mutexes,
                   watchdog, jobs, customCaseCount, idle, config, kernel>>

-----------------------------------------------------------------------------
(* idleSleep, each time its counter reaches idleSleepTime: three looks at  *)
(* what is going on, then the reason, then the request.                    *)

IdleUnchanged ==
    UNCHANGED <<orders, ignoreEvents, deep, lockscreenUp, sleep_mtx, occupyLed, watchdog,
                jobs, monitor, config, customCaseCount, kernel>>

IdleExpires ==
    /\ "idle" \in Sources /\ idle = "count"
    /\ sleep_mtx = "free"
    /\ sleepJob = "Nothing"
    /\ idle' = "nextStep"
    /\ UNCHANGED <<requests, currentActiveThread_mtx>> /\ IdleUnchanged

IdleReadsNextStep ==
    /\ idle = "nextStep"
    /\ idle' = IF watchdogNextStep = "Nothing" THEN "thread" ELSE "count"
    /\ UNCHANGED <<requests, currentActiveThread_mtx>> /\ IdleUnchanged

(* On a rooted device the mutex is kept while a shell looks for ssh.       *)
IdleReadsThread ==
    /\ idle = "thread"
    /\ currentActiveThread_mtx = "free"
    /\ IF currentActiveThread # "Nothing"
       THEN idle' = "count" /\ UNCHANGED currentActiveThread_mtx
       ELSE IF DeviceRooted
            THEN idle' = "ssh" /\ currentActiveThread_mtx' = "idle"
            ELSE idle' = "note" /\ UNCHANGED currentActiveThread_mtx
    /\ UNCHANGED requests /\ IdleUnchanged

IdleLooksForSsh ==
    /\ idle = "ssh"
    /\ currentActiveThread_mtx' = "free"
    /\ idle' \in {"count", "note"}
    /\ UNCHANGED requests /\ IdleUnchanged

IdleNotes ==
    /\ idle = "note"
    /\ newSleepCondition' = "Idle"
    /\ idle' = "raise"
    /\ UNCHANGED <<watchdogStartJob, currentActiveThread_mtx>> /\ IdleUnchanged

IdleRaises ==
    /\ idle = "raise"
    /\ watchdogStartJob' = TRUE
    /\ idle' = "count"
    /\ UNCHANGED <<newSleepCondition, currentActiveThread_mtx>> /\ IdleUnchanged

IdleStep == IdleReadsNextStep \/ IdleReadsThread \/ IdleLooksForSsh \/ IdleNotes \/ IdleRaises

-----------------------------------------------------------------------------
(* configUpdate: a write to /run/ipd/sleepCall asks for a sleep, one to    *)
(* updateConfig has the options read again.                                *)

ConfigUnchanged ==
    UNCHANGED <<orders, ignoreEvents, lockscreenUp, sleep_mtx, watchdog, jobs, monitor,
                idle, customCaseCount, kernel>>

SleepCall ==
    /\ "inotify" \in Sources /\ config = "wait"
    /\ deepSleepPermission
    /\ config' \in {"deepSleep", "sleep"}
    /\ UNCHANGED <<requests, deep, currentActiveThread_mtx, occupyLed>> /\ ConfigUnchanged

CallSetsDeepSleep ==
    /\ config \in {"deepSleep", "sleep"}
    /\ deepSleep' = (deepSleep \/ config = "deepSleep")
    /\ config' = "forbid"
    /\ UNCHANGED <<requests, deepSleepPermission, currentActiveThread_mtx, occupyLed>>
    /\ ConfigUnchanged

(* currentActiveThread_mtx is unlocked by a thread that never locked it:   *)
(* undefined behaviour, which musl and glibc resolve by freeing the mutex  *)
(* whoever holds it.                                                       *)
CallForbidsAnother ==
    /\ config = "forbid"
    /\ deepSleepPermission' = FALSE
    /\ currentActiveThread_mtx' = "free"
    /\ config' = "raise"
    /\ UNCHANGED <<requests, deepSleep, occupyLed>> /\ ConfigUnchanged

CallRaises ==
    /\ config = "raise"
    /\ watchdogStartJob' = TRUE
    /\ config' = "note"
    /\ UNCHANGED <<newSleepCondition, deep, currentActiveThread_mtx, occupyLed>>
    /\ ConfigUnchanged

CallNotes ==
    /\ config = "note"
    /\ newSleepCondition' = "Inotify"
    /\ config' = "wait"
    /\ UNCHANGED <<watchdogStartJob, deep, currentActiveThread_mtx, occupyLed>>
    /\ ConfigUnchanged

(* prepareVariables() ends in ledManagerAccurate(), which with option 6    *)
(* waits for occupyLed, that is for a job to end or to lend it.  The light *)
(* itself is no variable, and every write to it is left out: the one that  *)
(* an update makes without the mutex (setLedState(false), whatever the     *)
(* option) like those of the jobs.  What an update reads is not modelled   *)
(* here either: the options are constants (Options has the reading).       *)
UpdateConfig ==
    /\ "update" \in Sources /\ config = "wait"
    /\ config' = IF LedUsage THEN "led" ELSE "wait"
    /\ UNCHANGED <<requests, deep, currentActiveThread_mtx, occupyLed>> /\ ConfigUnchanged

UpdateTakesLed ==
    /\ config = "led"
    /\ occupyLed = "free"
    /\ occupyLed' = "config"
    /\ config' = "ledHeld"
    /\ UNCHANGED <<requests, deep, currentActiveThread_mtx>> /\ ConfigUnchanged

UpdateGivesLed ==
    /\ config = "ledHeld"
    /\ occupyLed' = "free"
    /\ config' = "wait"
    /\ UNCHANGED <<requests, deep, currentActiveThread_mtx>> /\ ConfigUnchanged

ConfigStep ==
    \/ CallSetsDeepSleep \/ CallForbidsAnother \/ CallRaises \/ CallNotes
    \/ UpdateTakesLed \/ UpdateGivesLed

-----------------------------------------------------------------------------
(* The environment: the user leaves the lock screen; the kernel resumes,    *)
(* because of a charger that came or went, or for any other reason.        *)

LeaveLockscreen ==
    /\ lockscreenUp
    /\ lockscreenUp' = FALSE
    /\ UNCHANGED <<requests, orders, ignoreEvents, deep, mutexes, watchdog, jobs,
                   raisers, kernel>>

Wake ==
    /\ suspended' = FALSE
    /\ chargerChanged' \in BOOLEAN
    /\ UNCHANGED <<requests, orders, ignoreEvents, deep, lockscreenUp, mutexes,
                   watchdog, jobs, raisers>>

Request == PowerButton \/ HallSensor \/ IdleExpires \/ SleepCall \/ UpdateConfig

Running == ~suspended /\ watchdog.pc # "exit"

Next ==
    \/ Running /\ (Watchdog \/ \E t \in Thread : Job(t))
    \/ Running /\ (Request \/ MonitorNote \/ IdleStep \/ ConfigStep \/ LeaveLockscreen)
    \/ suspended /\ Wake

Spec == Init /\ [][Next]_vars

(* Every thread that can run does.  Each may find a mutex taken, or the     *)
(* device suspended, again and again, but the others sleep between their   *)
(* turns, hence strong fairness.  The environment owes only the wake-up.   *)
Fairness ==
    /\ SF_vars(Running /\ Watchdog)
    /\ \A t \in Thread : SF_vars(Running /\ Job(t))
    /\ SF_vars(Running /\ MonitorNote)
    /\ SF_vars(Running /\ IdleStep)
    /\ SF_vars(Running /\ ConfigStep)
    /\ WF_vars(suspended /\ Wake)

FairSpec == Spec /\ Fairness

-----------------------------------------------------------------------------
(* Properties.                                                             *)

Live(t)   == job[t] # NoJob

(* The stretch of goSleep in which the buttons are muted, and the stretch  *)
(* of any job in which it has occupyLed.                                   *)
InMuted(t) == job[t].pc \in {"entered", "extend", "waited", "loop", "retake", "mem",
                             "failed", "woken", "judge", "unmute"}
InLed(t)   == job[t].pc \notin {"none", "start", "retake", "ask", "report"}

WatchdogPc == {"top", "decide", "settle", "claim", "peek", "poll", "mark", "launch",
               "next", "reset", "choose", "assign", "consume", "exit"}
JobPc      == {"none", "start", "check", "act", "release", "report", "forget", "mute",
               "entered", "extend", "waited", "loop", "retake", "mem", "failed", "woken",
               "judge", "unmute", "ask"}

(* Every variable stays in its range.                                      *)
TypeOK ==
    /\ watchdogStartJob \in BOOLEAN /\ newSleepCondition \in GoSleepCondition
    /\ sleepJob \in SleepBool       /\ currentActiveThread \in SleepBool
    /\ watchdogNextStep \in {"Nothing", "GoingSleep", "After"}
    /\ ignoreEvents \in BOOLEAN     /\ customCaseCount \in {0, 1}
    /\ deepSleep \in BOOLEAN        /\ deepSleepPermission \in BOOLEAN
    /\ lockscreenUp \in BOOLEAN
    /\ suspended \in BOOLEAN        /\ chargerChanged \in BOOLEAN
    /\ sleep_mtx \in {"free", "watchdog"}
    /\ currentActiveThread_mtx \in {"free", "watchdog", "idle"}
    /\ occupyLed \in Thread \cup {"free", "config"}
    /\ watchdog \in [pc : WatchdogPc, want : SleepBool, from : {"start", "next"}]
    /\ job \in [Thread -> [kind : SleepBool, pc : JobPc, at : Nat]]
    /\ die \in [JobKind -> BOOLEAN]
    /\ monitor \in {"wait", "powerButton", "halSensor"}
    /\ idle \in {"count", "nextStep", "thread", "ssh", "note", "raise"}
    /\ config \in {"wait", "deepSleep", "sleep", "forbid", "raise", "note", "led", "ledHeld"}

(* Never two jobs at work on the device: detached threads are not joined,  *)
(* and only currentActiveThread keeps prepareSleep, goSleep and afterSleep *)
(* from freezing and thawing, or saving and restoring, at the same time.   *)
AtMostOneJob ==
    \A t \in Thread : Live(t) =>
        /\ currentActiveThread = job[t].kind
        /\ \A u \in Thread : Live(u) => u = t

(* The process never runs into exit(EXIT_FAILURE): between the two reads   *)
(* of watchdogNextStep, and whatever jobs write to it in between, it stays *)
(* a step the watchdog can launch.                                         *)
NeverExits == watchdog.pc # "exit"

(* The power button is never left muted: ignoreEvents is set only while a  *)
(* goSleep is there to read newSleepCondition instead and to clear it.     *)
MutedOnlyInGoSleep ==
    ignoreEvents => \E t \in Thread : job[t].kind = "GoingSleep" /\ InMuted(t)

(* What keeps the watchdog's waits short: a goSleep, which ends only at a  *)
(* button, and an afterSleep, which ends only at the user's lock screen,   *)
(* are waited for only once their order has changed.  A prepareSleep may   *)
(* be waited for untold (behind a second prepareSleep); it ends by itself. *)
PolledJobIsTold ==
    \A t \in Thread :
        Live(t) /\ watchdog.pc \in {"peek", "poll"} =>
            job[t].kind = "Prepare" \/ sleepJob # job[t].kind

(* Who waits for what: the three mutexes, and the end of a job; and who is *)
(* where the wait can end, inside the section or at work.                  *)
Actors == Thread \cup {"watchdog", "idle", "config"}

Awaits(a, what) ==
    \/ /\ what = "sleep_mtx" /\ sleep_mtx # "free"
       /\ \/ a = "watchdog" /\ watchdog.pc \in {"decide", "reset", "assign"}
          \/ a = "idle" /\ idle = "count"
          \/ a \in Thread /\ \/ job[a].pc = "check" /\ ~die[job[a].kind]
                             \/ job[a].pc = "act" /\ StepName(a) = "finish"
                             \/ job[a].pc \in DOMAIN AfterCEG /\ ~die["GoingSleep"]
    \/ /\ what = "currentActiveThread_mtx" /\ currentActiveThread_mtx # "free"
       /\ \/ a = "watchdog" /\ watchdog.pc \in {"claim", "poll", "mark"}
          \/ a = "idle" /\ idle = "thread"
          \/ a \in Thread /\ job[a].pc = "report"
    \/ /\ what = "occupyLed" /\ occupyLed # "free"
       /\ \/ a = "config" /\ config = "led"
          \/ a \in Thread /\ job[a].pc \in {"start", "retake"}
    \/ /\ what = "job" /\ currentActiveThread # "Nothing"
       /\ a = "watchdog" /\ watchdog.pc = "poll"

CanEnd(a, what) ==
    \/ what = "sleep_mtx" /\ a = "watchdog" /\ watchdog.pc \in {"settle", "claim"}
    \/ what = "currentActiveThread_mtx" /\ a = "watchdog" /\ watchdog.pc = "peek"
    \/ what = "currentActiveThread_mtx" /\ a = "idle" /\ idle = "ssh"
    \/ what = "occupyLed" /\ a = "config" /\ config = "ledHeld"
    \/ what = "occupyLed" /\ a \in Thread /\ InLed(a)
    \/ what = "job" /\ a \in Thread /\ Live(a)

Stuck(S) ==
    \A a \in S : \E what \in {"sleep_mtx", "currentActiveThread_mtx", "occupyLed", "job"} :
        Awaits(a, what) /\ {b \in Actors : CanEnd(b, what)} \subseteq S

(* No threads wait for nobody but each other, and none waits for a mutex   *)
(* that its owner has left locked or for a job that has gone without       *)
(* clearing currentActiveThread: the watchdog holds sleep_mtx into its     *)
(* wait for the other mutex, polls for a job that needs both of them, and  *)
(* an update and the job need the LED.                                     *)
NobodyStuck == \A S \in SUBSET Actors : Stuck(S) => S = {}

(* A job that is to end: its order has been replaced, or goSleep's buttons *)
(* have left their note, or it is past all its waiting.  A prepareSleep    *)
(* waits for nobody.                                                       *)
Ending(t) ==
    /\ Live(t)
    /\ \/ job[t].kind = "Prepare"
       \/ sleepJob # job[t].kind
       \/ InMuted(t) /\ newSleepCondition # "None"
       \/ job[t].pc \in {"unmute", "release", "ask", "report"}

(* How far it is from its end.  Untold, prepareSleep does what it checks   *)
(* for; the others may be about to do one more block, after which they     *)
(* look, and goSleep one more attempt to suspend.                          *)
Rank == [report |-> 1, ask |-> 2, release |-> 3, unmute |-> 4, failed |-> 7, woken |-> 7,
         mem |-> 8, retake |-> 9, waited |-> 12, extend |-> 13, entered |-> 14, mute |-> 15,
         forget |-> 16]

Remaining(t) ==
    LET k == job[t].kind
        toGo == 4 * (Len(Steps[k]) + 1 - job[t].at)
        last == IF k = "Prepare" THEN "act" ELSE "check"
    IN CASE job[t].pc = "start" -> 100
         [] job[t].pc \in {"check", "act"} -> IF job[t].pc = last THEN toGo ELSE toGo + 1
         [] job[t].pc = "loop"  -> IF die[k] THEN 5 ELSE 10
         [] job[t].pc = "judge" -> IF die[k] THEN 6 ELSE 11
         [] OTHER -> Rank[job[t].pc]

(* Such a job stays one, and every step it takes brings it nearer to its   *)
(* end: no press, no lock screen and no refused suspend sends it back.     *)
EndingJobAdvances ==
    [][\A t \in Thread :
          Ending(t) /\ Live(t)' =>
              /\ Ending(t)'
              /\ IF job'[t] = job[t] THEN Remaining(t)' = Remaining(t)
                                     ELSE Remaining(t)' < Remaining(t)]_vars

(* Nothing to do and nobody at work.                                       *)
Resting ==
    /\ watchdog.pc = "top" /\ ~watchdogStartJob
    /\ watchdogNextStep = "Nothing" /\ currentActiveThread = "Nothing"

(* docs.md, option 4: with that option the device "will try to sleep       *)
(* anyway" after the charger has changed; without it a device woken by its *)
(* charger is not suspended again.                                         *)
NoSuspendOverCharger ==
    [][suspended' /\ ~suspended => ChargerWakeUp \/ ~chargerChanged]_vars

(* Every request reaches the watchdog: its waits for running jobs, and the *)
(* jobs' waits for its mutexes and for the LED, all end.                   *)
RequestIsTaken == watchdogStartJob ~> ~watchdogStartJob

(* A button pressed while goSleep has the buttons muted ends the goSleep,  *)
(* even when every attempt to suspend fails.                               *)
PressEndsGoSleep == ignoreEvents /\ newSleepCondition # "None" ~> ~ignoreEvents

(* A job whose order has changed comes to its end, lock screen or not.     *)
OrderedOutJobEnds ==
    currentActiveThread \notin {"Nothing", sleepJob} ~> currentActiveThread = "Nothing"

-----------------------------------------------------------------------------
(* The watchdog keeps the promise of JobSlot: currentActiveThread is the   *)
(* slot, the live detached threads are the workers.                        *)
Slot == INSTANCE JobSlot WITH
    slot    <- currentActiveThread,
    workers <- {t \in Thread : Live(t)},
    muted   <- ignoreEvents

ImplementsJobSlot == Slot!Spec

=============================================================================
