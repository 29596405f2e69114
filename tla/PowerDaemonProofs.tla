-------------------------- MODULE PowerDaemonProofs --------------------------
(***************************************************************************)
(* What holds of PowerDaemon for any threads and requests: the device does *)
(* not disturb the daemon, and what prepareSleep has done to it is undone  *)
(* when the daemon comes to rest awake, however its jobs were cut short.   *)
(***************************************************************************)
EXTENDS PowerDaemon, JobBlockProofs

-----------------------------------------------------------------------------
(* The daemon in its device.                                               *)

(* A step of the daemon with its device is one of SleepControl.            *)
LEMMA ControlStep ==
    ASSUME [DeviceNext]_<<vars, device>>
    PROVE  [Next]_vars
<1>1. ASSUME NEW t \in Thread, Act(t) \/ JobButAct(t) PROVE Job(t)
  BY <1>1 DEF Job, JobButAct
<1>2. QED
  BY <1>1 DEF DeviceNext, ActOnDevice, ControlOnly, Next, Request

(* The device adds nothing to the control core: every behaviour of the     *)
(* daemon with its device is one of SleepControl.                          *)
THEOREM ControlKept == DeviceSpec => Spec
<1>1. DeviceInitAll => Init
  BY DEF DeviceInitAll
<1>2. [DeviceNext]_<<vars, device>> => [Next]_vars
  BY ControlStep
<1>3. QED
  BY <1>1, <1>2, PTL DEF DeviceSpec, Spec

(* So the invariant of the control core holds of it.                       *)
LEMMA ControlInvariance == DeviceSpec => []IInv
  BY ControlKept, Invariance, PTL

-----------------------------------------------------------------------------
(* What the blocks do to the applications, the governor and the networks.  *)

(* What a block of prepareSleep may do, by its place.                      *)
LEMMA PrepareEffect ==
    ASSUME NEW i \in 1 .. 12, Effect(Steps["Prepare"][i])
    PROVE  /\ appsPids' = IF i = 5 THEN appsPids \cup {App} ELSE appsPids
           /\ fifo' = IF i = 4 THEN "start" ELSE fifo
           /\ i # 7 => sleepMode' = sleepMode
           /\ governor' = IF i = 12 /\ deepSleep THEN "powersave" ELSE governor
           /\ i # 9 => wifi' = wifi
           /\ ReconnectWifi => (wifi => wifi') \/ wasConnectedToWifi'
           /\ wasConnectedToWifi => wasConnectedToWifi'
           /\ i # 10 => usbNet' = usbNet
           /\ wasUsbNetOn' = wasUsbNetOn
<1> DEFINE name == Steps["Prepare"][i]
<1>1. /\ name = "pipeStart"   <=> i = 4
      /\ name = "freezeApps"  <=> i = 5
      /\ name = "sleepMode"   <=> i = 7
      /\ name = "wifiOff"     <=> i = 9
      /\ name = "usbNetOff"   <=> i = 10
      /\ name = "deepSleepGo" <=> i = 12
      /\ name \notin {"unfreezeApps", "awakeMode", "returnDeepSleep", "forgetDeepSleep",
             "wifiOn", "usbNetOn"}
  BY PrepareSteps
<1>2. AppsEffect(name) /\ GovernorEffect(name) /\ WifiEffect(name) /\ UsbNetEffect(name)
  BY DEF Effect
<1> HIDE DEF name
<1>3. QED
  BY <1>1, <1>2 DEF AppsEffect, GovernorEffect, WifiEffect, UsbNetEffect

(* What a block of afterSleep may do, by its place.                        *)
LEMMA AfterEffect ==
    ASSUME NEW i \in 1 .. 14, Effect(Steps["After"][i])
    PROVE  /\ appsPids' = IF i = 10 THEN {} ELSE appsPids
           /\ fifo' = IF i = 10 THEN "stop0" ELSE fifo
           /\ sleepMode' = IF i = 4 THEN FALSE ELSE sleepMode
           /\ governor' = IF i = 1 /\ deepSleep THEN "normal" ELSE governor
           /\ wifi => wifi'
           /\ i = 5 /\ ReconnectWifi /\ wasConnectedToWifi => wifi'
           /\ wasConnectedToWifi => wasConnectedToWifi'
           /\ usbNet => usbNet'
           /\ i = 12 /\ wasUsbNetOn => usbNet'
           /\ wasUsbNetOn' = wasUsbNetOn
<1> DEFINE name == Steps["After"][i]
<1>1. /\ name = "returnDeepSleep" <=> i = 1
      /\ name = "awakeMode"       <=> i = 4
      /\ name = "wifiOn"          <=> i = 5
      /\ name = "unfreezeApps"    <=> i = 10
      /\ name = "usbNetOn"        <=> i = 12
      /\ name \notin {"pipeStart", "freezeApps", "sleepMode", "wifiOff", "usbNetOff",
             "deepSleepGo"}
  BY AfterSteps
<1>2. AppsEffect(name) /\ GovernorEffect(name) /\ WifiEffect(name) /\ UsbNetEffect(name)
  BY DEF Effect
<1> HIDE DEF name
<1>3. (wasConnectedToWifi => wasConnectedToWifi') /\ (wasUsbNetOn' = wasUsbNetOn)
  BY <1>1, <1>2 DEF WifiEffect, UsbNetEffect
<1>4. (sleepMode' = IF i = 4 THEN FALSE ELSE sleepMode)
  BY <1>1, <1>2 DEF AppsEffect
<1>5. (wifi => wifi') /\ (i = 5 /\ ReconnectWifi /\ wasConnectedToWifi => wifi')
  BY <1>1, <1>2 DEF WifiEffect
<1>6. (usbNet => usbNet') /\ (i = 12 /\ wasUsbNetOn => usbNet')
  BY <1>1, <1>2 DEF UsbNetEffect
<1>7. /\ appsPids' = IF i = 10 THEN {} ELSE appsPids
      /\ fifo' = IF i = 10 THEN "stop0" ELSE fifo
      /\ governor' = IF i = 1 /\ deepSleep THEN "normal" ELSE governor
  BY <1>1, <1>2 DEF AppsEffect, GovernorEffect
<1>8. QED
  BY <1>3, <1>4, <1>5, <1>6, <1>7

(* A block leaves every variable of the device in its range.               *)
LEMMA EffectType ==
    ASSUME DeviceTypeOK, IInv, NEW name, Effect(name)
    PROVE  DeviceTypeOK'
<1> USE DEF DeviceTypeOK
<1>1. {sleepMode, wifi, wasConnectedToWifi, usbNet, wasUsbNetOn}' \subseteq BOOLEAN
  <2>1. sleepMode' \in BOOLEAN
    BY DEF Effect, AppsEffect
  <2>2. wasConnectedToWifi' \in BOOLEAN
    BY DEF Effect, WifiEffect
  <2>3. wifi' \in BOOLEAN
    BY DEF Effect, WifiEffect
  <2>4. usbNet' \in BOOLEAN /\ wasUsbNetOn' \in BOOLEAN
    BY DEF Effect, UsbNetEffect
  <2>5. QED
    BY <2>1, <2>2, <2>3, <2>4
<1>2. {touchscreen, touchscreenStatus}' \subseteq BOOLEAN
  BY DEF Effect, TouchscreenEffect, NiaATouchscreenLoader, panel
<1>3. appsPids' \subseteq {App} /\ fifo' \in {"none", "start", "stop0"}
  BY DEF Effect, AppsEffect
<1>4. governor' \in {"normal", "powersave"}
  BY DEF Effect, GovernorEffect
<1>5. brightness' \in {"user", "off"} /\ savedBrightness' \in {"none", "user", "off"}
  BY DEF Effect, LightEffect
<1>6. /\ screen' \in {"apps", "splash", "lockscreen", "blank"}
      /\ dump' \in {"none", "empty", "apps", "splash", "lockscreen", "blank"}
  BY DEF Effect, ScreenEffect
<1>7. QED
  BY <1>1, <1>2, <1>3, <1>4, <1>5, <1>6

(* So does every step of the daemon.                                       *)
LEMMA DeviceTypeStep ==
    ASSUME DeviceTypeOK, IInv, [DeviceNext]_<<vars, device>>
    PROVE  DeviceTypeOK'
<1>1. ASSUME NEW t \in Thread, ActOnDevice(t)
      PROVE  DeviceTypeOK'
  BY <1>1, EffectType DEF ActOnDevice
<1>2. CASE UpdateEffect
  BY <1>2 DEF UpdateEffect, apps, panel, DeviceTypeOK
<1>3. CASE UNCHANGED device
  BY <1>3 DEF device, apps, view, radios, panel, DeviceTypeOK
<1>4. QED
  BY <1>1, <1>2, <1>3 DEF DeviceNext

-----------------------------------------------------------------------------
(* The steps of all but the jobs.                                          *)
Others ==
    \/ Watchdog \/ Request \/ MonitorNote \/ IdleStep \/ ConfigStep \/ LeaveLockscreen \/ Wake
    \/ UNCHANGED vars

(* Those who are no job let no job die and cut no deep sleep short; what   *)
(* they launch begins at the beginning.                                    *)
LEMMA OthersEffect ==
    ASSUME IInv, Others
    PROVE  /\ UNCHANGED die
           /\ deepSleep => deepSleep'
           /\ \A t \in Thread :
                job'[t] = job[t] \/ (job'[t].at = 0 /\ job'[t].pc = "start")
<1>1. deepSleep => deepSleep'
  <2>1. CASE Watchdog
    BY <2>1 DEF Watchdog, TakeRequest, Decide, Settle, Claim, Peek, Poll, Mark, Launch,
                ReadNextStep, ResetOrder, ChooseNextStep, Assign, ConsumeNextStep, deep
  <2>2. CASE Request \/ MonitorNote \/ IdleStep \/ ConfigStep \/ LeaveLockscreen \/ Wake
    BY <2>2 DEF Request, PowerButton, HallSensor, IdleExpires, SleepCall, UpdateConfig,
                MonitorNote, IdleStep, IdleReadsNextStep, IdleReadsThread, IdleLooksForSsh,
                IdleNotes, IdleRaises, ConfigStep, CallSetsDeepSleep, CallForbidsAnother,
                CallRaises, CallNotes, UpdateTakesLed, UpdateGivesLed, LeaveLockscreen, Wake,
                IdleUnchanged, ConfigUnchanged, deep
  <2>3. CASE UNCHANGED vars
    BY <2>3 DEF vars, deep
  <2>4. QED
    BY <2>1, <2>2, <2>3 DEF Others
<1>2. CASE Launch
  <2>1. PICK t \in Thread :
          job' = [job EXCEPT ![t] = [kind |-> watchdog.want, pc |-> "start", at |-> 0]]
    BY <1>2 DEF Launch
  <2>2. /\ job'[t].at = 0 /\ job'[t].pc = "start"
        /\ \A u \in Thread \ {t} : job'[u] = job[u]
    BY <2>1 DEF IInv, TypeOK
  <2>3. QED
    BY <1>1, <1>2, <2>2 DEF Launch
<1>3. CASE ~Launch
  <2>1. UNCHANGED <<job, die>>
    BY <1>3, WatchdogEffect, OtherEffect DEF Others, vars, jobs
  <2>2. QED
    BY <1>1, <2>1
<1>4. QED
  BY <1>2, <1>3

(* A step of the device is a block, an update, another step of a job, or   *)
(* one of somebody else.                                                   *)
LEMMA DeviceSteps ==
    ASSUME [DeviceNext]_<<vars, device>>
    PROVE  \/ \E t \in Thread : ActOnDevice(t)
           \/ UpdateConfig /\ UpdateEffect
           \/ UNCHANGED device /\ \E t \in Thread : JobButAct(t)
           \/ UNCHANGED device /\ Others
  BY DEF DeviceNext, ControlOnly, Others, Request

(* A job withdraws deepSleep only in its block of afterSleep; between      *)
(* blocks it leaves the device's business alone.                           *)
LEMMA BlockDeep ==
    ASSUME IInv, Positions, NEW t \in Thread, Act(t), deepSleep, ~deepSleep'
    PROVE  job[t].kind = "After" /\ job[t].at = 2
<1>1. Steps[job[t].kind][job[t].at] = "forgetDeepSleep"
  BY DEF Act, StepDeep, StepName
<1>2. /\ job[t].kind \in BlockJob /\ job[t].at \in 1 .. Len(Steps[job[t].kind])
  BY DEF Act, JobAt, Positions
<1>3. QED
  BY <1>1, <1>2, BlocksOf

(* Between its blocks a job does not touch the deep sleep.                 *)
LEMMA BetweenBlocks ==
    ASSUME IInv, Positions, NEW t \in Thread, JobButAct(t)
    PROVE  /\ deepSleep' = deepSleep
           /\ Starts(t) \/ Skips(t) \/ Passes(t) \/ Leaves(t) \/ IsGoSleep(t)
<1>1. ~Act(t)
  BY DEF JobButAct, JobStart, CheckOrder, Release, Report, GoSleep, Act, JobAt, Forget, Mute,
         CEG, AfterCEG, Extend, SuspendLoop, Retake, Suspend, Judge, Unmute, AskForAfter, GoStep
<1>2. deepSleep' = deepSleep
  BY DEF JobButAct, JobStart, CheckOrder, Release, Report, GoSleep, Forget, Mute, CEG, Extend,
         SuspendLoop, Retake, Suspend, Judge, Unmute, AskForAfter, deep
<1>3. QED
  BY <1>1, <1>2, Ways DEF Job, JobButAct

(* A block is done by a job that was let; its place moves on, except while *)
(* it waits for the lock screen.                                           *)
LEMMA Block ==
    ASSUME IInv, Positions, NEW t \in Thread, ActOnDevice(t)
    PROVE  /\ Job(t) /\ Act(t) /\ UNCHANGED die
           /\ job'[t].kind = job[t].kind
           /\ StepName(t) \notin Unguarded => ~die[job[t].kind]
           /\ \/ /\ job[t].kind = "Prepare" /\ job[t].at \in 1 .. 12
                 /\ Effect(Steps["Prepare"][job[t].at])
                 /\ job'[t].at = job[t].at + 1
              \/ /\ job[t].kind = "After" /\ job[t].at \in 1 .. 14
                 /\ Effect(Steps["After"][job[t].at])
                 /\ job'[t].at \in {job[t].at, job[t].at + 1}
           /\ job'[t].pc = "act" => StepName(t)' \in Unguarded
           /\ sleepJob' # sleepJob => StepName(t) = "finish"
<1>1. Job(t) /\ Act(t) /\ Effect(StepName(t)) /\ UNCHANGED die
  BY DEF ActOnDevice, Job, Act
<1>2. /\ job[t].kind \in BlockJob /\ job[t].at \in 1 .. Len(Steps[job[t].kind])
      /\ StepName(t) \notin Unguarded => ~die[job[t].kind]
      /\ job[t] \in JobRecord
  BY <1>1 DEF Act, JobAt, Positions, IInv, TypeOK, JobRecord
<1>3. sleepJob' # sleepJob => StepName(t) = "finish"
  BY <1>1 DEF Act, StepOrders, orders
<1>4. \/ job[t].kind = "Prepare" /\ job[t].at \in 1 .. 12 /\ Effect(Steps["Prepare"][job[t].at])
      \/ job[t].kind = "After" /\ job[t].at \in 1 .. 14 /\ Effect(Steps["After"][job[t].at])
  BY <1>1, <1>2, BlocksOf DEF StepName
<1>5. CASE job'[t] = Arrive(job[t].kind, job[t].at + 1)
  <2>1. job[t].at + 1 \in Nat /\ job[t].at + 1 > 0
    BY <1>2 DEF JobRecord
  <2>2. /\ job'[t].kind = job[t].kind /\ job'[t].at = job[t].at + 1
        /\ job'[t].pc = "act" => StepName(t)' \in Unguarded
    BY <1>2, <1>5, <2>1, ArriveAt DEF StepName
  <2>3. QED
    BY <1>1, <1>2, <1>3, <1>4, <2>2
<1>6. CASE StepName(t) = "lockWait" /\ Goto(t, "check")
  <2>1. job'[t] = [job[t] EXCEPT !.pc = "check"]
    BY <1>6 DEF Goto, IInv, TypeOK
  <2>2. /\ job'[t].kind = job[t].kind /\ job'[t].at = job[t].at /\ job'[t].pc = "check"
    BY <1>2, <2>1 DEF JobRecord
  <2>3. job[t].kind = "After"
    BY <1>2, <1>6, BlocksOf DEF StepName
  <2>4. QED
    BY <1>1, <1>2, <1>3, <1>4, <2>2, <2>3
<1>7. QED
  BY <1>1, <1>5, <1>6 DEF Act, IInv, TypeOK

-----------------------------------------------------------------------------
(* What holds without any assumption on the options: the applications are  *)
(* told before they are stopped, and the governor is raised before the     *)
(* wish for a deep sleep is forgotten.                                     *)

ToldFirst ==
    \A t \in Thread :
        job[t].kind = "Prepare" /\ job[t].at = 5 /\ ~die["Prepare"] => fifo = "start"

GovernorRaised ==
    /\ governor = "powersave" => deepSleep
    /\ \A t \in Thread : job[t].kind = "After" /\ job[t].at > 1 => governor = "normal"

DInv ==
    DeviceTypeOK /\ Positions /\ StoppedAppsWereTold /\ ToldFirst /\ GovernorRaised

(* Every step keeps the invariant of the device.                           *)
LEMMA DInvStep ==
    ASSUME IInv, DInv, [DeviceNext]_<<vars, device>>
    PROVE  DInv'
<1> USE DEF App
<1>1. [Next]_vars
  BY ControlStep
<1>2. Positions' /\ DeviceTypeOK'
  BY <1>1, PositionsStep, DeviceTypeStep DEF DInv
<1>3. ASSUME NEW t \in Thread, ActOnDevice(t)
      PROVE  StoppedAppsWereTold' /\ ToldFirst' /\ GovernorRaised'
  <2>1. Job(t) /\ Act(t) /\ UNCHANGED die /\ job'[t].kind = job[t].kind
    BY <1>3, Block DEF DInv
  <2>2. \A u \in Thread \ {t} : job'[u].kind = "Nothing"
    BY <2>1, Alone DEF NoJob
  <2>3. governor \in {"normal", "powersave"}
    BY DEF DInv, DeviceTypeOK
  <2>4. CASE job[t].kind = "Prepare"
    <3>1. /\ job[t].at \in 1 .. 12 /\ Effect(Steps["Prepare"][job[t].at])
          /\ job'[t].at = job[t].at + 1
          /\ StepName(t) \notin Unguarded => ~die["Prepare"]
      BY <1>3, <2>4, Block DEF DInv
    <3>2. /\ appsPids' = IF job[t].at = 5 THEN appsPids \cup {App} ELSE appsPids
          /\ fifo' = IF job[t].at = 4 THEN "start" ELSE fifo
          /\ governor' = IF job[t].at = 12 /\ deepSleep THEN "powersave" ELSE governor
      BY <3>1, PrepareEffect
    <3>3. job[t].at = 5 => ~die["Prepare"]
      BY <2>4, <3>1, PrepareSteps DEF StepName
    <3>4. StoppedAppsWereTold'
      BY <2>4, <3>2, <3>3 DEF DInv, StoppedAppsWereTold, ToldFirst
    <3>5. ToldFirst'
      BY <2>1, <2>2, <2>4, <3>1, <3>2 DEF ToldFirst
    <3>6. deepSleep => deepSleep'
      BY <2>1, <2>4, BlockDeep DEF DInv
    <3>7. GovernorRaised'
      BY <2>1, <2>2, <2>4, <3>2, <3>6 DEF DInv, GovernorRaised
    <3>8. QED
      BY <3>4, <3>5, <3>7
  <2>5. CASE job[t].kind = "After"
    <3>1. /\ job[t].at \in 1 .. 14 /\ Effect(Steps["After"][job[t].at])
          /\ job'[t].at \in {job[t].at, job[t].at + 1}
      BY <1>3, <2>5, Block DEF DInv
    <3>2. /\ appsPids' = IF job[t].at = 10 THEN {} ELSE appsPids
          /\ fifo' = IF job[t].at = 10 THEN "stop0" ELSE fifo
          /\ governor' = IF job[t].at = 1 /\ deepSleep THEN "normal" ELSE governor
      BY <3>1, AfterEffect
    <3>3. StoppedAppsWereTold' /\ ToldFirst'
      BY <2>1, <2>2, <2>5, <3>2 DEF DInv, StoppedAppsWereTold, ToldFirst
    <3>4. job[t].at # 2 /\ deepSleep => deepSleep'
      BY <2>1, BlockDeep DEF DInv
    <3>5. governor' = "powersave" => deepSleep'
      BY <2>5, <3>1, <3>2, <3>4 DEF DInv, GovernorRaised
    <3>6. job'[t].at > 1 => governor' = "normal"
      BY <2>3, <2>5, <3>1, <3>2 DEF DInv, GovernorRaised
    <3>7. GovernorRaised'
      BY <2>2, <3>5, <3>6 DEF GovernorRaised
    <3>8. QED
      BY <3>3, <3>7
  <2>6. QED
    BY <1>3, <2>4, <2>5, Block DEF DInv
<1>4. CASE UpdateConfig /\ UpdateEffect
  <2>1. UNCHANGED <<job, die, appsPids, fifo>> /\ governor' \in {"normal", governor}
    BY <1>4, OtherEffect DEF UpdateEffect, apps, Request
  <2>2. UNCHANGED deepSleep
    BY <1>4 DEF UpdateConfig, deep
  <2>3. QED
    BY <1>2, <2>1, <2>2 DEF DInv, StoppedAppsWereTold, ToldFirst, GovernorRaised
<1>5. ASSUME NEW t \in Thread, JobButAct(t), UNCHANGED device
      PROVE  StoppedAppsWereTold' /\ ToldFirst' /\ GovernorRaised'
  <2>1. Job(t) /\ UNCHANGED <<appsPids, fifo, governor>>
    BY <1>5 DEF Job, JobButAct, device, apps
  <2>2. \A u \in Thread \ {t} : job'[u].kind = "Nothing"
    BY <2>1, Alone DEF NoJob
  <2>3. /\ deepSleep' = deepSleep
        /\ Starts(t) \/ Skips(t) \/ Passes(t) \/ Leaves(t) \/ IsGoSleep(t)
    BY <1>5, BetweenBlocks DEF DInv
  <2>4. /\ job'[t].kind = "Prepare" /\ job'[t].at = 5 /\ ~die'["Prepare"] => fifo = "start"
        /\ job'[t].kind = "After" /\ job'[t].at > 1 => governor = "normal"
    <3>1. job[t] \in JobRecord
      BY DEF IInv, TypeOK, JobRecord
    <3>2. CASE Starts(t)
      BY <3>2, ArriveAt DEF Starts
    <3>3. CASE Skips(t)
      <4>1. job'[t].kind = job[t].kind /\ job'[t].at = job[t].at + 1 /\ die'[job[t].kind]
        BY <3>1, <3>3, ArriveAt DEF Skips, JobRecord
      <4>2. Steps["After"][1] \in Unguarded
        BY AfterSteps
      <4>3. job[t].kind = "After" => job[t].at > 1
        BY <3>1, <3>3, <4>2, BlocksOf DEF Skips, StepName, JobRecord
      <4>4. QED
        BY <4>1, <4>3 DEF DInv, GovernorRaised
    <3>4. CASE Passes(t)
      <4>1. job'[t].kind = job[t].kind /\ job'[t].at = job[t].at /\ ~die[job[t].kind]
        BY <3>1, <3>4 DEF Passes, JobRecord
      <4>2. QED
        BY <4>1 DEF DInv, ToldFirst, GovernorRaised
    <3>5. CASE Leaves(t)
      BY <3>1, <3>5 DEF Leaves, JobRecord, NoJob, DInv, ToldFirst, GovernorRaised
    <3>6. CASE IsGoSleep(t)
      BY <3>6 DEF IsGoSleep
    <3>7. QED
      BY <2>3, <3>2, <3>3, <3>4, <3>5, <3>6
  <2>5. StoppedAppsWereTold' /\ ToldFirst'
    BY <2>1, <2>2, <2>4 DEF DInv, StoppedAppsWereTold, ToldFirst
  <2>6. GovernorRaised'
    BY <2>1, <2>2, <2>3, <2>4 DEF DInv, GovernorRaised
  <2>7. QED
    BY <2>5, <2>6
<1>6. CASE UNCHANGED device /\ Others
  <2>1. UNCHANGED <<appsPids, fifo, governor>>
    BY <1>6 DEF device, apps
  <2>2. /\ UNCHANGED die
        /\ deepSleep => deepSleep'
        /\ \A u \in Thread : job'[u] = job[u] \/ job'[u].at = 0
    BY <1>6, OthersEffect
  <2>3. StoppedAppsWereTold' /\ ToldFirst'
    BY <2>1, <2>2 DEF DInv, StoppedAppsWereTold, ToldFirst
  <2>4. GovernorRaised'
    BY <2>1, <2>2 DEF DInv, GovernorRaised
  <2>5. QED
    BY <1>2, <2>3, <2>4 DEF DInv
<1>7. QED
  BY <1>2, <1>3, <1>4, <1>5, <1>6, DeviceSteps DEF DInv

(* It holds after booting.                                                 *)
LEMMA DInvInit == DeviceInitAll => DInv
<1> SUFFICES ASSUME DeviceInitAll PROVE DInv
  OBVIOUS
<1>1. \A t \in Thread : job[t] = NoJob
  BY DEF DeviceInitAll, Init
<1>2. DeviceTypeOK
  BY DEF DeviceInitAll, DeviceInit, DeviceTypeOK
<1>3. Positions /\ ToldFirst
  BY <1>1 DEF Positions, ToldFirst, NoJob
<1>4. StoppedAppsWereTold /\ GovernorRaised
  BY <1>1 DEF DeviceInitAll, DeviceInit, StoppedAppsWereTold, GovernorRaised, NoJob
<1>5. QED
  BY <1>2, <1>3, <1>4 DEF DInv

(* The invariant of the device holds throughout.                           *)
THEOREM DeviceInvariance == DeviceSpec => []DInv
<1>1. IInv /\ DInv /\ [DeviceNext]_<<vars, device>> => DInv'
  BY DInvStep
<1>2. QED
  BY <1>1, DInvInit, ControlInvariance, PTL DEF DeviceSpec

(* Every variable of the device stays in its range.                        *)
THEOREM DeviceTypeCorrect == DeviceSpec => []DeviceTypeOK
<1>1. DInv => DeviceTypeOK
  BY DEF DInv
<1>2. QED
  BY <1>1, DeviceInvariance, PTL

(* However the jobs are cut short and repeated, what is stopped was last   *)
(* told "start".                                                           *)
THEOREM AppsTold == DeviceSpec => []StoppedAppsWereTold
<1>1. DInv => StoppedAppsWereTold
  BY DEF DInv
<1>2. QED
  BY <1>1, DeviceInvariance, PTL

(* As long as loading succeeds within the loader's attempts, its flag      *)
(* never claims a module that is not there, although unloading may fail.   *)
THEOREM LoaderRight ==
    ASSUME ~LoaderMayFail
    PROVE  DeviceSpec => []LoaderNotMistaken
<1>1. DeviceInitAll => LoaderNotMistaken
  BY DEF DeviceInitAll, DeviceInit, LoaderNotMistaken
<1>2. LoaderNotMistaken /\ [DeviceNext]_<<vars, device>> => LoaderNotMistaken'
  <2> SUFFICES ASSUME LoaderNotMistaken, [DeviceNext]_<<vars, device>>
               PROVE  LoaderNotMistaken'
    OBVIOUS
  <2>1. UNCHANGED panel \/ NiaATouchscreenLoader(FALSE) \/ NiaATouchscreenLoader(TRUE)
    BY DeviceSteps DEF ActOnDevice, Effect, TouchscreenEffect, UpdateEffect, device
  <2>2. QED
    BY <2>1 DEF NiaATouchscreenLoader, LoaderNotMistaken, panel
<1>3. QED
  BY <1>1, <1>2, PTL DEF DeviceSpec

-----------------------------------------------------------------------------
(* The lock screen: an afterSleep that may continue applications has seen  *)
(* it gone.                                                                *)

PastLockscreen ==
    \A t \in Thread :
        job[t].kind = "After" /\ job[t].at > 8 /\ ~die["After"] => ~lockscreenUp

(* The block that shows the lock screen, the one that waits for the user   *)
(* to leave it, and the one that continues the applications.               *)
LEMMA LockBlocks ==
    \A i \in 1 .. 14 :
        /\ Steps["After"][i] = "lockscreen" <=> i = 6
        /\ Steps["After"][i] = "lockWait" <=> i = 8
        /\ Steps["After"][i] \in Unguarded => i < 8
  BY DEF Steps, Unguarded

(* A block of afterSleep after the wait does not show the lock screen, and *)
(* none gets past the wait while it shows.                                 *)
LEMMA LockEffect ==
    ASSUME IInv, NEW t \in Thread, Act(t), job[t].kind = "After", job[t].at \in 1 .. 14
    PROVE  /\ job[t].at > 6 /\ ~lockscreenUp => ~lockscreenUp'
           /\ job[t].at = 8 /\ lockscreenUp => job'[t].at = 8
<1>1. StepName(t) = Steps["After"][job[t].at] /\ job \in [Thread -> JobRecord]
  BY DEF StepName, IInv, TypeOK, JobRecord
<1>2. job[t].at > 6 /\ ~lockscreenUp => ~lockscreenUp'
  <2>1. job[t].at > 6 => StepName(t) # "lockscreen"
    BY <1>1, LockBlocks
  <2>2. QED
    BY <2>1 DEF Act, StepLockscreen, IInv, TypeOK
<1>3. job[t].at = 8 /\ lockscreenUp => job'[t].at = 8
  <2>1. job[t].at = 8 => StepName(t) = "lockWait"
    BY <1>1, LockBlocks
  <2>2. job[t].at = 8 /\ lockscreenUp => job'[t] = [job[t] EXCEPT !.pc = "check"]
    BY <1>1, <2>1 DEF Act, Goto
  <2>3. QED
    BY <1>1, <2>2 DEF JobRecord
<1>4. QED
  BY <1>2, <1>3

(* Only afterSleep shows the lock screen.                                  *)
LEMMA LockscreenKept ==
    ASSUME IInv, Others \/ \E t \in Thread : JobButAct(t)
    PROVE  lockscreenUp' => lockscreenUp
<1>1. CASE Watchdog
  BY <1>1 DEF Watchdog, TakeRequest, Decide, Settle, Claim, Peek, Poll, Mark, Launch,
              ReadNextStep, ResetOrder, ChooseNextStep, Assign, ConsumeNextStep
<1>2. CASE Request \/ MonitorNote \/ IdleStep \/ ConfigStep \/ LeaveLockscreen \/ Wake
  BY <1>2 DEF Request, PowerButton, HallSensor, IdleExpires, SleepCall, UpdateConfig,
              MonitorNote, IdleStep, IdleReadsNextStep, IdleReadsThread, IdleLooksForSsh,
              IdleNotes, IdleRaises, ConfigStep, CallSetsDeepSleep, CallForbidsAnother,
              CallRaises, CallNotes, UpdateTakesLed, UpdateGivesLed, LeaveLockscreen, Wake,
              IdleUnchanged, ConfigUnchanged
<1>3. ASSUME NEW t \in Thread, JobButAct(t)
      PROVE  UNCHANGED lockscreenUp
  BY <1>3 DEF JobButAct, JobStart, CheckOrder, Release, Report, GoSleep, Forget, Mute, CEG,
              Extend, SuspendLoop, Retake, Suspend, Judge, Unmute, AskForAfter
<1>4. QED
  BY <1>1, <1>2, <1>3 DEF Others, vars

(* Between blocks an afterSleep that is not dying begins or stays where it *)
(* is.                                                                     *)
LEMMA AfterGoesOn ==
    ASSUME TypeOK, NEW t \in Thread,
           Starts(t) \/ Skips(t) \/ Passes(t) \/ Leaves(t) \/ IsGoSleep(t),
           job'[t].kind = "After", ~die'["After"]
    PROVE  \/ job'[t].at = 1
           \/ job[t].kind = "After" /\ ~die["After"] /\ job'[t].at = job[t].at
<1>1. job[t] \in JobRecord
  BY DEF TypeOK, JobRecord
<1>2. CASE Starts(t)
  BY <1>2, ArriveAt DEF Starts
<1>3. CASE Skips(t)
  BY <1>1, <1>3, ArriveAt DEF Skips, JobRecord
<1>4. CASE Passes(t) \/ Leaves(t) \/ IsGoSleep(t)
  BY <1>1, <1>4 DEF Passes, Leaves, IsGoSleep, JobRecord, NoJob
<1>5. QED
  BY <1>2, <1>3, <1>4

(* The lock screen stays gone for as long as that afterSleep goes on.      *)
LEMMA PastLockscreenStep ==
    ASSUME IInv, DInv, PastLockscreen, [DeviceNext]_<<vars, device>>
    PROVE  PastLockscreen'
<1>1. ASSUME NEW t \in Thread, ActOnDevice(t)
      PROVE  PastLockscreen'
  <2>1. Job(t) /\ Act(t) /\ UNCHANGED die /\ job'[t].kind = job[t].kind
    BY <1>1, Block DEF DInv
  <2>2. \A u \in Thread \ {t} : job'[u].kind = "Nothing"
    BY <2>1, Alone DEF NoJob
  <2>3. CASE job[t].kind # "After"
    BY <2>1, <2>2, <2>3 DEF PastLockscreen
  <2>4. CASE job[t].kind = "After"
    <3>1. job[t].at \in 1 .. 14 /\ job'[t].at \in {job[t].at, job[t].at + 1}
      BY <1>1, <2>4, Block DEF DInv
    <3>2. /\ job[t].at > 6 /\ ~lockscreenUp => ~lockscreenUp'
          /\ job[t].at = 8 /\ lockscreenUp => job'[t].at = 8
      BY <2>1, <2>4, <3>1, LockEffect
    <3>3. job'[t].at > 8 /\ ~die["After"] => ~lockscreenUp
      BY <2>4, <3>1, <3>2 DEF PastLockscreen
    <3>4. job'[t].at > 8 => job[t].at > 6
      BY <3>1
    <3>5. QED
      BY <2>1, <2>2, <3>2, <3>3, <3>4 DEF PastLockscreen
  <2>5. QED
    BY <2>3, <2>4
<1>2. ASSUME NEW t \in Thread, JobButAct(t)
      PROVE  PastLockscreen'
  <2>1. \A u \in Thread \ {t} : job'[u].kind = "Nothing"
    BY <1>2, Alone DEF NoJob, Job, JobButAct
  <2>2. job'[t].kind = "After" /\ ~die'["After"] =>
            \/ job'[t].at = 1
            \/ job[t].kind = "After" /\ ~die["After"] /\ job'[t].at = job[t].at
    BY <1>2, BetweenBlocks, AfterGoesOn DEF DInv, IInv
  <2>3. lockscreenUp' => lockscreenUp
    BY <1>2, LockscreenKept
  <2>4. QED
    BY <2>1, <2>2, <2>3 DEF PastLockscreen
<1>3. CASE Others
  BY <1>3, OthersEffect, LockscreenKept DEF PastLockscreen
<1>4. QED
  BY <1>1, <1>2, <1>3, DeviceSteps DEF Others, Request

(* Whatever jobs are cut short and begun anew behind the lock screen, no   *)
(* stopped application is continued before the user has left it.           *)
THEOREM StoppedBehindLockscreen == DeviceSpec => NotBehindLockscreen
<1>1. DeviceInitAll => PastLockscreen
  BY DEF DeviceInitAll, Init, NoJob, PastLockscreen
<1>2. IInv /\ DInv /\ PastLockscreen /\ [DeviceNext]_<<vars, device>> => PastLockscreen'
  BY PastLockscreenStep
<1>3. ASSUME IInv, DInv, PastLockscreen, [DeviceNext]_<<vars, device>>,
             appsPids # {}, appsPids' = {}
      PROVE  ~lockscreenUp
  <2>1. PICK t \in Thread : ActOnDevice(t)
    BY <1>3, DeviceSteps DEF UpdateEffect, device, apps
  <2>2. job[t].kind = "After" /\ job[t].at = 10
    <3>1. CASE job[t].kind = "Prepare"
      BY <1>3, <2>1, <3>1, Block, PrepareEffect DEF DInv
    <3>2. CASE job[t].kind = "After"
      BY <1>3, <2>1, <3>2, Block, AfterEffect DEF DInv
    <3>3. QED
      BY <1>3, <2>1, <3>1, <3>2, Block DEF DInv
  <2>3. StepName(t) \notin Unguarded
    BY <2>2, LockBlocks DEF StepName
  <2>4. ~die["After"]
    BY <1>3, <2>1, <2>2, <2>3, Block DEF DInv
  <2>5. QED
    BY <1>3, <2>2, <2>4 DEF PastLockscreen
<1>4. IInv /\ DInv /\ PastLockscreen /\ [DeviceNext]_<<vars, device>> =>
          [appsPids # {} /\ appsPids' = {} => ~lockscreenUp]_<<vars, device>>
  BY <1>3
<1>5. QED
  BY <1>1, <1>2, <1>4, ControlInvariance, DeviceInvariance, PTL
     DEF DeviceSpec, NotBehindLockscreen

-----------------------------------------------------------------------------
(* The promise of HeldApps.                                                *)

Wakes ==
    CASE Lockscreen /\ PastBlock(8) -> "left"
      [] Lockscreen /\ PastBlock(6) /\ ~PastBlock(8) -> "shown"
      [] OTHER -> "away"
promised == <<{App}, appsPids, lockscreenUp, Lockscreen, Wakes>>

(* Only the job at work has a place.                                       *)
LEMMA PlaceOfJob ==
    ASSUME IInv, NEW t \in Thread, Job(t), NEW i \in Nat
    PROVE  /\ PastBlock(i) <=> job[t].kind = "After" /\ job[t].at > i /\ ~die["After"]
           /\ PastBlock(i)' <=> job'[t].kind = "After" /\ job'[t].at > i /\ ~die'["After"]
<1>1. \A u \in Thread \ {t} : job[u].kind = "Nothing" /\ job'[u].kind = "Nothing"
  BY Alone DEF NoJob
<1>2. QED
  BY <1>1 DEF PastBlock

(* Between blocks, and whatever others do, a waking goes no further.       *)
LEMMA WakesNoFurther ==
    ASSUME IInv, DInv, Others \/ \E t \in Thread : JobButAct(t)
    PROVE  Wakes' \in {Wakes, "away"}
<1>1. ASSUME NEW i \in {6, 8}, PastBlock(i)'
      PROVE  (PastBlock(8)' <=> PastBlock(8)) /\ PastBlock(6)
  <2>1. ASSUME NEW t \in Thread, JobButAct(t)
        PROVE  (PastBlock(8)' <=> PastBlock(8)) /\ PastBlock(6)
    <3>1. Job(t)
      BY <2>1 DEF Job, JobButAct
    <3>2. job'[t].kind = "After" /\ job'[t].at > i /\ ~die'["After"]
      BY <1>1, <3>1, PlaceOfJob
    <3>3. job[t].kind = "After" /\ ~die["After"] /\ job'[t].at = job[t].at
      BY <2>1, <3>2, BetweenBlocks, AfterGoesOn DEF DInv, IInv
    <3>4. job[t].at \in Nat
      BY DEF IInv, TypeOK, JobRecord
    <3>5. QED
      BY <3>1, <3>2, <3>3, <3>4, PlaceOfJob
  <2>2. CASE Others
    <3>1. PICK t \in Thread : job'[t].kind = "After" /\ job'[t].at > i /\ ~die'["After"]
      BY <1>1 DEF PastBlock
    <3>2. UNCHANGED die /\ \A u \in Thread : job'[u] = job[u] \/ job'[u].at = 0
      BY <2>2, OthersEffect
    <3>3. job'[t] = job[t]
      BY <3>1, <3>2
    <3>4. \A u \in Thread : job[u].kind = "After" => u = t
      BY <3>1, <3>3 DEF IInv, AtMostOneJob, Live, NoJob
    <3>5. job[t].at \in Nat
      BY DEF IInv, TypeOK, JobRecord
    <3>6. \A u \in Thread : job'[u].kind = "After" /\ job'[u].at > 8 => u = t
      BY <3>2, <3>4
    <3>7. QED
      BY <3>1, <3>2, <3>3, <3>4, <3>5, <3>6 DEF PastBlock
  <2>3. QED
    BY <2>1, <2>2
<1>2. QED
  BY <1>1 DEF Wakes

(* A block of prepareSleep holds the applications, or is nothing to them.  *)
LEMMA PrepareOnPromise ==
    ASSUME IInv, DInv, NEW t \in Thread, ActOnDevice(t), job[t].kind = "Prepare"
    PROVE  Promise!Hold
<1>1. Job(t) /\ job'[t].kind = "Prepare" /\ job[t].at \in 1 .. 12
      /\ Effect(Steps["Prepare"][job[t].at])
  BY Block DEF DInv
<1>2. Wakes = "away" /\ Wakes' = "away"
  BY <1>1, PlaceOfJob DEF Wakes
<1>3. appsPids \subseteq appsPids' /\ appsPids' \subseteq {App}
  BY <1>1, PrepareEffect DEF DInv, DeviceTypeOK
<1>4. QED
  BY <1>2, <1>3 DEF Promise!Hold, Wakes

(* A block of afterSleep shows the lock screen, waits for its end, or lets *)
(* the applications go.                                                    *)
LEMMA AfterOnPromise ==
    ASSUME IInv, DInv, NEW t \in Thread, ActOnDevice(t), job[t].kind = "After"
    PROVE  Promise!Show \/ Promise!Leave \/ Promise!LetGo \/ Promise!ComeAndGo
<1> DEFINE i == job[t].at
<1>1. /\ Job(t) /\ Act(t) /\ job'[t].kind = "After" /\ UNCHANGED die
      /\ i \in 1 .. 14 /\ Effect(Steps["After"][i]) /\ job'[t].at \in {i, i + 1}
      /\ StepName(t) \notin Unguarded => ~die["After"]
  BY Block DEF DInv
<1>2. appsPids' = IF i = 10 THEN {} ELSE appsPids
  BY <1>1, AfterEffect
<1>3. appsPids \subseteq {App}
  BY DEF DInv, DeviceTypeOK
<1>4. \A j \in Nat :
        /\ PastBlock(j) <=> i > j /\ ~die["After"]
        /\ PastBlock(j)' <=> job'[t].at > j /\ ~die["After"]
  BY <1>1, PlaceOfJob
<1>5. i >= 8 => ~die["After"]
  BY <1>1, LockBlocks DEF StepName
<1>6. CASE i = 10
  <2>1. PastBlock(8) /\ PastBlock(8)'
    BY <1>1, <1>4, <1>5, <1>6
  <2>2. Wakes' = Wakes /\ (Lockscreen => Wakes = "left")
    BY <2>1 DEF Wakes
  <2>3. QED
    BY <1>2, <1>6, <2>2 DEF Promise!LetGo, Wakes
<1>7. CASE Wakes' = Wakes /\ i # 10
  BY <1>2, <1>3, <1>7 DEF Promise!ComeAndGo, Wakes
<1>8. CASE Wakes' # Wakes /\ i # 10
  <2>1. Lockscreen /\ ~die["After"]
    BY <1>4, <1>8 DEF Wakes
  <2>2. job'[t].at = i + 1 /\ i \in {6, 8}
    BY <1>1, <1>4, <1>8 DEF Wakes
  <2>3. CASE i = 6
    <3>1. StepName(t) = "lockscreen"
      BY <1>1, <2>3, LockBlocks DEF StepName
    <3>2. lockscreenUp'
      BY <1>1, <2>1, <3>1 DEF Act, StepLockscreen
    <3>3. Wakes = "away" /\ Wakes' = "shown"
      BY <1>4, <2>1, <2>2, <2>3 DEF Wakes
    <3>4. QED
      BY <1>2, <2>3, <3>2, <3>3 DEF Promise!Show, Wakes
  <2>4. CASE i = 8
    <3>1. ~lockscreenUp /\ ~lockscreenUp'
      BY <1>1, <2>2, <2>4, LockEffect
    <3>2. Wakes = "shown" /\ Wakes' = "left"
      BY <1>4, <2>1, <2>2, <2>4 DEF Wakes
    <3>3. QED
      BY <1>2, <2>4, <3>1, <3>2 DEF Promise!Leave, Wakes
  <2>5. QED
    BY <2>2, <2>3, <2>4
<1>9. QED
  BY <1>6, <1>7, <1>8

(* Presses at any moment, jobs that die at any check, updates and a lock   *)
(* screen that goes when the user leaves it: the daemon keeps the promise  *)
(* of HeldApps.                                                            *)
THEOREM PromiseKept == DeviceSpec => ImplementsHeldApps
<1>1. DeviceInitAll => Promise!Init
  BY DEF DeviceInitAll, DeviceInit, Init, NoJob, Promise!Init, PastBlock
<1>2. IInv /\ DInv /\ [DeviceNext]_<<vars, device>> => [Promise!Next]_promised
  <2> SUFFICES ASSUME IInv, DInv, [DeviceNext]_<<vars, device>>
               PROVE  Promise!Next
    OBVIOUS
  <2>1. ASSUME NEW t \in Thread, ActOnDevice(t)
        PROVE  Promise!Next
    <3>1. job[t].kind \in {"Prepare", "After"}
      BY <2>1, Block DEF DInv
    <3>2. QED
      BY <2>1, <3>1, PrepareOnPromise, AfterOnPromise DEF Promise!Next
  <2>2. CASE (Others \/ \E t \in Thread : JobButAct(t)) /\ UNCHANGED appsPids
    <3>1. Wakes' \in {Wakes, "away"}
      BY <2>2, WakesNoFurther
    <3>2. appsPids \subseteq {App}
      BY DEF DInv, DeviceTypeOK
    <3>3. Promise!GiveUp \/ Promise!ComeAndGo
      BY <2>2, <3>1, <3>2 DEF Promise!GiveUp, Promise!ComeAndGo, Wakes
    <3>4. QED
      BY <3>3 DEF Promise!Next
  <2>3. QED
    BY <2>1, <2>2, DeviceSteps DEF Others, Request, UpdateEffect, device, apps
<1>3. QED
  BY <1>1, <1>2, ControlInvariance, DeviceInvariance, PTL
     DEF DeviceSpec, ImplementsHeldApps, Promise!Spec, promised, Wakes

-----------------------------------------------------------------------------
(* At rest.  As long as no charger and no USB session voids a request, a   *)
(* withdrawn order means that what prepareSleep has done is undone: the    *)
(* order is withdrawn by the last block of afterSleep, or by the watchdog  *)
(* on the way to a next step.                                              *)

NeverVoided == WhenChargerSleep /\ ~UsbMassStorage

(* No order, and none about to be given for a next step.                   *)
Unordered ==
    /\ sleepJob = "Nothing"
    /\ ~(watchdog.from = "next" /\ watchdog.pc \in {"poll", "choose", "assign"})

(* A prepareSleep at a guarded block has its order, or the watchdog waits  *)
(* for it and knows what to launch next.                                   *)
BlockOrdered ==
    \A t \in Thread :
        job[t].kind = "Prepare" /\ job[t].pc = "act" /\ StepName(t) \notin Unguarded
            => ~Unordered

(* What an afterSleep that was not told to die has put right so far.       *)
Undone ==
    \A t \in Thread :
        job[t].kind = "After" /\ ~die["After"] =>
            /\ job[t].at > 4  => ~sleepMode
            /\ job[t].at > 10 => appsPids = {} /\ fifo # "start"

Clean == Unordered => appsPids = {} /\ fifo # "start" /\ ~sleepMode /\ governor = "normal"

(* The watchdog and the others never leave the device without an order.    *)
LEMMA Unordering ==
    ASSUME NeverVoided, IInv, Others, Unordered'
    PROVE  Unordered
<1>1. CASE Watchdog
  <2> USE <1>1 DEF Unordered, WatchdogAt, WatchdogTo, Launching, IInv, TypeOK, orders
  <2>1. CASE Decide
    <3>1. UsbMassStorage = FALSE /\ WhenChargerSleep
      BY ConstantsAssumption DEF NeverVoided
    <3>2. UNCHANGED sleepJob
      BY <2>1, <3>1 DEF Decide
    <3>3. watchdog.pc = "decide"
      BY <2>1 DEF Decide
    <3>4. QED
      BY <3>2, <3>3
  <2>2. CASE Claim
    BY <2>2 DEF Claim, SlotShape, JobKind
  <2>3. CASE ChooseNextStep
    BY <2>3 DEF ChooseNextStep, NextShape
  <2>4. CASE Assign
    BY <2>4 DEF Assign, SlotShape, JobKind
  <2>5. CASE TakeRequest \/ Settle \/ Peek \/ Poll \/ Mark \/ Launch
    BY <2>5 DEF TakeRequest, Settle, Peek, Poll, Mark, Launch
  <2>6. CASE ReadNextStep \/ ResetOrder \/ ConsumeNextStep
    BY <2>6 DEF ReadNextStep, ResetOrder, ConsumeNextStep
  <2>7. QED
    BY <2>1, <2>2, <2>3, <2>4, <2>5, <2>6 DEF Watchdog
<1>2. CASE UNCHANGED <<sleepJob, watchdog>>
  BY <1>2 DEF Unordered
<1>3. QED
  BY <1>1, <1>2, OtherEffect DEF Others, vars, orders

(* A block that needs an order is done under one, as long as no request is *)
(* voided: the watchdog withdraws an order only after its job has ended.   *)
LEMMA BlockOrderedStep ==
    ASSUME NeverVoided, IInv, Positions, BlockOrdered, [Next]_vars
    PROVE  BlockOrdered'
<1> SUFFICES ASSUME NEW t \in Thread, Unordered',
                    job'[t].kind = "Prepare", job'[t].pc = "act",
                    StepName(t)' \notin Unguarded
             PROVE  FALSE
  BY DEF BlockOrdered
<1>1. ASSUME NEW u \in Thread, Job(u)
      PROVE  FALSE
  <2>1. u = t
    BY <1>1, Alone DEF NoJob
  <2>2. job[t] \in JobRecord
    BY DEF IInv, TypeOK, JobRecord
  <2>3. CASE Starts(t) \/ Skips(t) \/ Does(t)
    <3>1. CASE job'[t] = [job[t] EXCEPT !.pc = "check"]
      BY <2>2, <3>1 DEF JobRecord
    <3>2. CASE job'[t] = Arrive(job[t].kind, 1)
      BY <2>3, <3>2, ArriveAt DEF Starts, Skips, Does, StepName
    <3>3. CASE job'[t] = Arrive(job[t].kind, job[t].at + 1)
      <4>1. job[t].kind \in BlockJob /\ job[t].at + 1 \in Nat /\ job[t].at + 1 > 0
        BY <2>2, <2>3 DEF Starts, Skips, Does, JobRecord
      <4>2. QED
        BY <3>3, <4>1, ArriveAt DEF StepName
    <3>4. QED
      BY <2>3, <3>1, <3>2, <3>3 DEF Starts, Skips, Does
  <2>4. CASE Passes(t)
    <3>1. job[t].kind = "Prepare"
      BY <2>2, <2>4 DEF Passes, JobRecord
    <3>2. QED
      BY <2>4, <3>1 DEF Passes, Unordered, orders
  <2>5. CASE Leaves(t)
    BY <2>2, <2>5 DEF Leaves, JobRecord, NoJob
  <2>6. CASE IsGoSleep(t)
    BY <2>6 DEF IsGoSleep
  <2>7. QED
    BY <1>1, <2>1, <2>3, <2>4, <2>5, <2>6, Ways
<1>2. CASE Others
  <2>1. job'[t] = job[t]
    BY <1>2, OthersEffect
  <2>2. ~Unordered
    BY <2>1 DEF BlockOrdered, StepName
  <2>3. QED
    BY <1>2, <2>2, Unordering
<1>3. QED
  BY <1>1, <1>2 DEF Next, Others

CInv == BlockOrdered /\ Undone /\ Clean

(* Every step keeps what holds while no request is voided.                 *)
LEMMA CInvStep ==
    ASSUME NeverVoided, IInv, DInv, CInv, [DeviceNext]_<<vars, device>>
    PROVE  CInv'
<1>1. BlockOrdered'
  BY ControlStep, BlockOrderedStep DEF CInv, DInv
<1>2. ASSUME NEW t \in Thread, ActOnDevice(t)
      PROVE  Undone' /\ Clean'
  <2>1. Job(t) /\ Act(t) /\ UNCHANGED die /\ job'[t].kind = job[t].kind
    BY <1>2, Block DEF DInv
  <2>2. \A u \in Thread \ {t} : job'[u].kind = "Nothing"
    BY <2>1, Alone DEF NoJob
  <2>3. UNCHANGED watchdog
    BY <2>1, JobEffect DEF IInv
  <2>4. CASE job[t].kind = "Prepare"
    <3>1. /\ job[t].at \in 1 .. 12 /\ Effect(Steps["Prepare"][job[t].at])
          /\ sleepJob' # sleepJob => StepName(t) = "finish"
      BY <1>2, <2>4, Block DEF DInv
    <3>2. UNCHANGED sleepJob
      BY <2>4, <3>1, PrepareSteps DEF StepName
    <3>3. Unordered' => Unordered
      BY <2>3, <3>2 DEF Unordered
    <3>4. Unordered => job[t].at \in {1, 3}
      BY <2>1, <2>4, <3>1, PrepareSteps DEF CInv, BlockOrdered, StepName, Act, JobAt
    <3>5. Unordered => UNCHANGED <<appsPids, fifo, governor>> /\ sleepMode' = sleepMode
      BY <3>1, <3>4, PrepareEffect
    <3>6. Clean'
      BY <3>3, <3>5 DEF CInv, Clean
    <3>7. Undone'
      BY <2>1, <2>2, <2>4 DEF Undone
    <3>8. QED
      BY <3>6, <3>7
  <2>5. CASE job[t].kind = "After"
    <3>1. /\ job[t].at \in 1 .. 14 /\ Effect(Steps["After"][job[t].at])
          /\ job'[t].at \in {job[t].at, job[t].at + 1}
          /\ sleepJob' # sleepJob => StepName(t) = "finish"
          /\ StepName(t) \notin Unguarded => ~die["After"]
      BY <1>2, <2>5, Block DEF DInv
    <3>2. /\ appsPids' = IF job[t].at = 10 THEN {} ELSE appsPids
          /\ fifo' = IF job[t].at = 10 THEN "stop0" ELSE fifo
          /\ governor' = IF job[t].at = 1 /\ deepSleep THEN "normal" ELSE governor
      BY <3>1, AfterEffect
    <3>3. sleepMode' = IF job[t].at = 4 THEN FALSE ELSE sleepMode
      BY <3>1, AfterEffect
    <3>4. Undone'
      BY <2>1, <2>2, <2>5, <3>1, <3>2, <3>3 DEF CInv, Undone
    <3>5. CASE Unordered
      BY <3>2, <3>3, <3>4, <3>5 DEF CInv, Clean
    <3>6. CASE ~Unordered /\ Unordered'
      <4>1. sleepJob' # sleepJob
        BY <2>3, <3>6 DEF Unordered
      <4>2. job[t].at = 14 /\ ~die["After"]
        BY <2>5, <3>1, <4>1, AfterSteps DEF StepName
      <4>3. appsPids = {} /\ fifo # "start" /\ ~sleepMode /\ governor = "normal"
        BY <2>5, <4>2 DEF CInv, Undone, DInv, GovernorRaised
      <4>4. QED
        BY <3>2, <3>3, <3>4, <4>2, <4>3 DEF Clean
    <3>7. QED
      BY <3>4, <3>5, <3>6 DEF Clean
  <2>6. QED
    BY <1>2, <2>4, <2>5, Block DEF DInv
<1>3. CASE UpdateConfig /\ UpdateEffect
  <2>1. UNCHANGED <<job, die, watchdog, sleepJob>>
    BY <1>3, OtherEffect DEF Request, orders
  <2>2. UNCHANGED <<appsPids, fifo, sleepMode>> /\ governor' \in {"normal", governor}
    BY <1>3 DEF UpdateEffect, apps
  <2>3. QED
    BY <1>1, <2>1, <2>2 DEF CInv, Undone, Clean, Unordered
<1>4. ASSUME NEW t \in Thread, JobButAct(t), UNCHANGED device
      PROVE  Undone' /\ Clean'
  <2>1. Job(t) /\ UNCHANGED <<appsPids, fifo, governor, sleepMode>>
    BY <1>4 DEF Job, JobButAct, device, apps
  <2>2. \A u \in Thread \ {t} : job'[u].kind = "Nothing"
    BY <2>1, Alone DEF NoJob
  <2>3. Starts(t) \/ Skips(t) \/ Passes(t) \/ Leaves(t) \/ IsGoSleep(t)
    BY <1>4, BetweenBlocks DEF DInv
  <2>4. UNCHANGED sleepJob /\ UNCHANGED watchdog
    BY <2>1, <2>3, JobEffect DEF IInv, Starts, Skips, Passes, Leaves, IsGoSleep, orders
  <2>5. job'[t].kind = "After" /\ ~die'["After"] =>
            \/ job'[t].at = 1
            \/ job[t].kind = "After" /\ ~die["After"] /\ job'[t].at = job[t].at
    BY <2>3, AfterGoesOn DEF IInv
  <2>6. QED
    BY <2>1, <2>2, <2>4, <2>5 DEF CInv, Undone, Clean, Unordered
<1>5. CASE UNCHANGED device /\ Others
  <2>1. UNCHANGED <<appsPids, fifo, governor, sleepMode>>
    BY <1>5 DEF device, apps
  <2>2. /\ UNCHANGED die
        /\ \A u \in Thread : job'[u] = job[u] \/ job'[u].at = 0
    BY <1>5, OthersEffect
  <2>3. Unordered' => Unordered
    BY <1>5, Unordering
  <2>4. QED
    BY <1>1, <2>1, <2>2, <2>3 DEF CInv, Undone, Clean
<1>6. QED
  BY <1>1, <1>2, <1>3, <1>4, <1>5, DeviceSteps DEF CInv

(* It holds after booting.                                                 *)
LEMMA CInvInit == DeviceInitAll => CInv
<1> SUFFICES ASSUME DeviceInitAll PROVE CInv
  OBVIOUS
<1>1. \A t \in Thread : job[t] = NoJob
  BY DEF DeviceInitAll, Init
<1>2. BlockOrdered /\ Undone
  BY <1>1 DEF BlockOrdered, Undone, NoJob
<1>3. Clean
  BY DEF DeviceInitAll, DeviceInit, Clean
<1>4. QED
  BY <1>2, <1>3 DEF CInv

(* Where requests are never voided, a device without an order is as it was *)
(* before its sleep.                                                       *)
LEMMA CleanInvariance ==
    ASSUME NeverVoided
    PROVE  DeviceSpec => []CInv
<1>1. IInv /\ DInv /\ CInv /\ [DeviceNext]_<<vars, device>> => CInv'
  BY CInvStep
<1>2. QED
  BY <1>1, CInvInit, ControlInvariance, DeviceInvariance, PTL DEF DeviceSpec

(* Whatever presses, sleep calls and updates cut the jobs short: when the  *)
(* daemon rests awake no application is left stopped or told to stop.      *)
THEOREM AppsBack ==
    ASSUME NeverVoided
    PROVE  DeviceSpec => []AppsBackAtRest
<1>1. CInv => AppsBackAtRest
  BY DEF CInv, Clean, Unordered, AppsBackAtRest, RestingAwake, Resting
<1>2. QED
  BY <1>1, CleanInvariance, PTL

(* Nor is the governor left lowered, although deepSleep is set by another  *)
(* thread and cleared in the middle of afterSleep.                         *)
THEOREM GovernorBack ==
    ASSUME NeverVoided
    PROVE  DeviceSpec => []GovernorBackAtRest
<1>1. CInv => GovernorBackAtRest
  BY DEF CInv, Clean, Unordered, GovernorBackAtRest, RestingAwake, Resting
<1>2. QED
  BY <1>1, CleanInvariance, PTL

-----------------------------------------------------------------------------
(* The networks: Wi-Fi always, USB networking as long as no update records *)
(* it while it is down.                                                    *)

NoUpdate == "update" \notin Sources

NetworksShape ==
    /\ NoUpdate => wasUsbNetOn
    /\ ReconnectWifi => wifi \/ wasConnectedToWifi
    /\ \A t \in Thread :
         job[t].kind = "After" /\ ~die["After"] =>
             /\ job[t].at > 5 /\ ReconnectWifi => wifi
             /\ job[t].at > 12 /\ NoUpdate => usbNet
    /\ Unordered => (ReconnectWifi => wifi) /\ (NoUpdate => usbNet)

(* Every step keeps it.                                                    *)
LEMMA NetworksStep ==
    ASSUME NeverVoided, IInv, DInv, CInv, NetworksShape,
           [DeviceNext]_<<vars, device>>
    PROVE  NetworksShape'
<1>1. ASSUME NEW t \in Thread, ActOnDevice(t)
      PROVE  NetworksShape'
  <2>1. Job(t) /\ Act(t) /\ UNCHANGED die /\ job'[t].kind = job[t].kind
    BY <1>1, Block DEF DInv
  <2>2. \A u \in Thread \ {t} : job'[u].kind = "Nothing"
    BY <2>1, Alone DEF NoJob
  <2>3. UNCHANGED watchdog
    BY <2>1, JobEffect DEF IInv
  <2>4. CASE job[t].kind = "Prepare"
    <3>1. /\ job[t].at \in 1 .. 12 /\ Effect(Steps["Prepare"][job[t].at])
          /\ sleepJob' # sleepJob => StepName(t) = "finish"
      BY <1>1, <2>4, Block DEF DInv
    <3>2. UNCHANGED sleepJob
      BY <2>4, <3>1, PrepareSteps DEF StepName
    <3>3. Unordered' => Unordered
      BY <2>3, <3>2 DEF Unordered
    <3>4. Unordered => job[t].at \in {1, 3}
      BY <2>1, <2>4, <3>1, PrepareSteps DEF CInv, BlockOrdered, StepName, Act, JobAt
    <3>5. /\ ReconnectWifi => (wifi => wifi') \/ wasConnectedToWifi'
          /\ wasConnectedToWifi => wasConnectedToWifi'
          /\ wasUsbNetOn' = wasUsbNetOn
          /\ job[t].at # 9 => wifi' = wifi
          /\ job[t].at # 10 => usbNet' = usbNet
      BY <3>1, PrepareEffect
    <3>6. Unordered' => (ReconnectWifi => wifi') /\ (NoUpdate => usbNet')
      <4> SUFFICES ASSUME Unordered' PROVE (ReconnectWifi => wifi') /\ (NoUpdate => usbNet')
        OBVIOUS
      <4>1. (ReconnectWifi => wifi) /\ (NoUpdate => usbNet)
        BY <3>3 DEF NetworksShape
      <4>2. job[t].at # 9 /\ job[t].at # 10
        BY <3>3, <3>4
      <4>3. wifi' = wifi
        BY <4>2, <3>5
      <4>4. usbNet' = usbNet
        BY <4>2, <3>5
      <4>5. QED
        BY <4>1, <4>3, <4>4, Zenon
    <3>7. QED
      BY <2>1, <2>2, <2>4, <3>5, <3>6 DEF NetworksShape
  <2>5. CASE job[t].kind = "After"
    <3>1. /\ job[t].at \in 1 .. 14 /\ Effect(Steps["After"][job[t].at])
          /\ job'[t].at \in {job[t].at, job[t].at + 1}
          /\ sleepJob' # sleepJob => StepName(t) = "finish"
          /\ StepName(t) \notin Unguarded => ~die["After"]
      BY <1>1, <2>5, Block DEF DInv
    <3>2. /\ wifi => wifi'
          /\ job[t].at = 5 /\ ReconnectWifi /\ wasConnectedToWifi => wifi'
          /\ wasConnectedToWifi => wasConnectedToWifi'
          /\ usbNet => usbNet'
          /\ job[t].at = 12 /\ wasUsbNetOn => usbNet'
          /\ wasUsbNetOn' = wasUsbNetOn
      BY <3>1, AfterEffect
    <3>3. ~die["After"] =>
              /\ job'[t].at > 5 /\ ReconnectWifi => wifi'
              /\ job'[t].at > 12 /\ NoUpdate => usbNet'
      BY <2>5, <3>1, <3>2 DEF NetworksShape
    <3>4. Unordered' => (ReconnectWifi => wifi') /\ (NoUpdate => usbNet')
      <4>1. CASE Unordered
        BY <3>2, <4>1 DEF NetworksShape
      <4>2. CASE ~Unordered /\ Unordered'
        <5>1. sleepJob' # sleepJob
          BY <2>3, <4>2 DEF Unordered
        <5>2. job[t].at = 14 /\ ~die["After"]
          BY <2>5, <3>1, <5>1, AfterSteps DEF StepName
        <5>3. QED
          BY <2>5, <3>2, <5>2 DEF NetworksShape
      <4>3. QED
        BY <4>1, <4>2
    <3>5. QED
      BY <2>1, <2>2, <2>5, <3>2, <3>3, <3>4 DEF NetworksShape
  <2>6. QED
    BY <1>1, <2>4, <2>5, Block DEF DInv
<1>2. ASSUME NEW t \in Thread, JobButAct(t), UNCHANGED device
      PROVE  NetworksShape'
  <2>1. Job(t) /\ UNCHANGED <<wifi, wasConnectedToWifi, usbNet, wasUsbNetOn>>
    BY <1>2 DEF Job, JobButAct, device, radios
  <2>2. \A u \in Thread \ {t} : job'[u].kind = "Nothing"
    BY <2>1, Alone DEF NoJob
  <2>3. Starts(t) \/ Skips(t) \/ Passes(t) \/ Leaves(t) \/ IsGoSleep(t)
    BY <1>2, BetweenBlocks DEF DInv
  <2>4. UNCHANGED sleepJob /\ UNCHANGED watchdog
    BY <2>1, <2>3, JobEffect DEF IInv, Starts, Skips, Passes, Leaves, IsGoSleep, orders
  <2>5. job'[t].kind = "After" /\ ~die'["After"] =>
            \/ job'[t].at = 1
            \/ job[t].kind = "After" /\ ~die["After"] /\ job'[t].at = job[t].at
    BY <2>3, AfterGoesOn DEF IInv
  <2>6. QED
    BY <2>1, <2>2, <2>4, <2>5 DEF NetworksShape, Unordered
<1>3. CASE UNCHANGED device /\ Others
  <2>1. UNCHANGED <<wifi, wasConnectedToWifi, usbNet, wasUsbNetOn>>
    BY <1>3 DEF device, radios
  <2>2. /\ UNCHANGED die
        /\ \A u \in Thread : job'[u] = job[u] \/ job'[u].at = 0
    BY <1>3, OthersEffect
  <2>3. Unordered' => Unordered
    BY <1>3, Unordering
  <2>4. QED
    BY <2>1, <2>2, <2>3 DEF NetworksShape
<1>4. CASE UpdateConfig /\ UpdateEffect
  <2>1. UNCHANGED <<job, die, watchdog, sleepJob>>
    BY <1>4, OtherEffect DEF Request, orders
  <2>2. UNCHANGED <<wifi, wasConnectedToWifi, usbNet>> /\ ~NoUpdate
    BY <1>4 DEF UpdateEffect, UpdateConfig, NoUpdate
  <2>3. QED
    BY <2>1, <2>2 DEF NetworksShape, Unordered
<1>5. QED
  BY <1>1, <1>2, <1>3, <1>4, DeviceSteps

(* It holds throughout.                                                    *)
LEMMA NetworksInvariance ==
    ASSUME NeverVoided
    PROVE  DeviceSpec => []NetworksShape
<1>1. DeviceInitAll => NetworksShape
  <2> SUFFICES ASSUME DeviceInitAll PROVE NetworksShape
    OBVIOUS
  <2>1. \A t \in Thread : job[t].kind = "Nothing"
    BY DEF DeviceInitAll, Init, NoJob
  <2>2. QED
    BY <2>1 DEF DeviceInitAll, DeviceInit, NetworksShape
<1>2. IInv /\ DInv /\ CInv /\ NetworksShape /\ [DeviceNext]_<<vars, device>> => NetworksShape'
  BY NetworksStep
<1>3. DeviceSpec => []CInv
  BY CleanInvariance
<1>4. QED
  BY <1>1, <1>2, <1>3, ControlInvariance, DeviceInvariance, PTL DEF DeviceSpec

(* The networks that were up come back, however often turnOffWifi() and    *)
(* disableUsbNet() have run in between.                                    *)
THEOREM NetworksBack ==
    ASSUME NeverVoided, "update" \notin Sources
    PROVE  DeviceSpec => []NetworkBackAtRest
<1>1. NetworksShape => NetworkBackAtRest
  BY DEF NetworksShape, NoUpdate, Unordered, NetworkBackAtRest, RestingAwake, Resting
<1>2. DeviceSpec => []NetworksShape
  BY NetworksInvariance
<1>3. QED
  BY <1>1, <1>2, PTL

(* Wi-Fi comes back even when the options are read again at any time: the  *)
(* update does not touch what turnOffWifi() has recorded.                  *)
THEOREM WifiBack ==
    ASSUME NeverVoided
    PROVE  DeviceSpec => [](RestingAwake /\ ReconnectWifi => wifi)
<1>1. NetworksShape => (RestingAwake /\ ReconnectWifi => wifi)
  BY DEF NetworksShape, Unordered, RestingAwake, Resting
<1>2. DeviceSpec => []NetworksShape
  BY NetworksInvariance
<1>3. QED
  BY <1>1, <1>2, PTL

=============================================================================
