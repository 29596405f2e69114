--------------------------- MODULE OptionsProofs ----------------------------
(***************************************************************************)
(* Theorems about Options, for every device, whatever the GUI edits and    *)
(* whatever programs exist.                                                *)
(***************************************************************************)
EXTENDS Options, FiniteSetTheorems, TLAPS

Texts == (UNION {Values(o) : o \in Option}) \cup {"", "0", "false", "absent"}

(* The files and the copies have a value for each option.                  *)
Functions == file \in [Option -> Texts] /\ memory \in [Option -> Texts]

(* The program that is remembered is the only one that may run.            *)
Controllers ==
    /\ controllers \subseteq {chargerManagerPid}
    /\ chargerManagerPid \in controllers /\ ~switched
         => memory["10-chargerController"] = chargerManagerPid

(* A request needs the directory that comes with the list of applications; *)
(* and while an update is read for, there is no other request.             *)
RequestShape ==
    /\ updateConfig => file["appsList"] # "absent"
    /\ watching /\ reader \in {"read", "led", "lit", "answer"} => updateConfig
    /\ reader = "answer" => watching
    /\ reader = "watch" => ~watching
    /\ reader # "read" => next = 1

InForce(o) == o \in dirty \/ file[o] = "absent" \/ memory[o] = file[o]

(* What has been read so far is in force; except at the start of the       *)
(* daemon, where a request may be made that nobody hears of.               *)
ReadSoFar ==
    watching \/ ~updateConfig
        => /\ reader = "read" => \A j \in 1 .. next - 1 : InForce(Order[j])
           /\ reader \in {"led", "lit", "watch", "answer"} => \A o \in Option : InForce(o)
           /\ reader = "idle" /\ ~updateConfig => \A o \in Option : InForce(o)

IInv ==
    OptionsTypeOK /\ Functions /\ Controllers /\ NotHeldByController /\ RequestShape

(* The options that are not set to their file's default at a first boot    *)
(* have their files.                                                       *)
DefaultsAgree == Absent \cap {"6-ledUsage", "7-idleSleep"} = {}

Present == file["6-ledUsage"] # "absent" /\ file["7-idleSleep"] # "absent"

-----------------------------------------------------------------------------
LEMMA OptionNames ==
    /\ Len(Order) = 11
    /\ Option = {"12-lockscreen", "appsList", "1-cinematicBrightnessDelayMs", "2-cpuGovernor",
                 "3-whenChargerSleep", "4-chargerWakeUp", "5-wifiReconnect", "6-ledUsage",
                 "7-idleSleep", "8-customCase", "10-chargerController"}
    /\ \A i \in 1 .. 11 : Order[i] \in Option
<1>1. Len(Order) = 11
    BY DEF Order
<1>2. \A i \in 1 .. 11 : Order[i] \in Option
    BY <1>1 DEF Option
<1>3. ASSUME NEW i \in 1 .. 11
      PROVE  Order[i] \in {"12-lockscreen", "appsList", "1-cinematicBrightnessDelayMs",
                 "2-cpuGovernor", "3-whenChargerSleep", "4-chargerWakeUp", "5-wifiReconnect",
                 "6-ledUsage", "7-idleSleep", "8-customCase", "10-chargerController"}
    BY DEF Order
<1>4. /\ Order[1] = "12-lockscreen" /\ Order[2] = "appsList"
      /\ Order[3] = "1-cinematicBrightnessDelayMs" /\ Order[4] = "2-cpuGovernor"
      /\ Order[5] = "3-whenChargerSleep" /\ Order[6] = "4-chargerWakeUp"
      /\ Order[7] = "5-wifiReconnect" /\ Order[8] = "6-ledUsage" /\ Order[9] = "7-idleSleep"
      /\ Order[10] = "8-customCase" /\ Order[11] = "10-chargerController"
    BY DEF Order
<1>5. Option = {Order[i] : i \in 1 .. 11}
    BY <1>1 DEF Option
<1>6. {Order[i] : i \in 1 .. 11}
          = {"12-lockscreen", "appsList", "1-cinematicBrightnessDelayMs",
             "2-cpuGovernor", "3-whenChargerSleep", "4-chargerWakeUp", "5-wifiReconnect",
             "6-ledUsage", "7-idleSleep", "8-customCase", "10-chargerController"}
    BY <1>3, <1>4
<1> QED BY <1>1, <1>2, <1>5, <1>6

(* A default is a value or nothing.                                        *)
LEMMA ValueRange ==
    ASSUME NEW o \in Option
    PROVE  /\ Values(o) \subseteq Texts /\ "absent" \notin Values(o)
           /\ FileDefault(o) \in Values(o) \cup {"absent"}
           /\ Globals[o] \in Texts
           /\ FileDefault(o) = "absent" => o \in {"12-lockscreen", "10-chargerController"}
<1>1. Values(o) \subseteq Texts
    BY DEF Texts
<1>2. "absent" \notin Values(o)
    BY DEF Values
<1>3. FileDefault(o) = "absent" => o \in {"12-lockscreen", "10-chargerController"}
    BY OptionNames DEF FileDefault
<1>4. FileDefault(o) \in Values(o) \cup {"absent"}
  <2>1. CASE o = "appsList"
      BY <2>1 DEF Values, FileDefault
  <2>2. CASE o = "1-cinematicBrightnessDelayMs"
      BY <2>2 DEF Values, FileDefault
  <2>3. CASE o = "2-cpuGovernor"
      BY <2>3 DEF Values, FileDefault
  <2>4. CASE o = "7-idleSleep"
      BY <2>4 DEF Values, FileDefault
  <2>5. CASE o \in {"12-lockscreen", "10-chargerController"}
      BY <2>5 DEF FileDefault
  <2>6. CASE o \in {"3-whenChargerSleep", "4-chargerWakeUp", "5-wifiReconnect", "6-ledUsage",
                    "8-customCase"}
      BY <2>6 DEF Values, FileDefault
  <2> QED BY <2>1, <2>2, <2>3, <2>4, <2>5, <2>6, OptionNames
<1>5. Globals[o] \in {"", "0", "false"}
    BY DEF Globals
<1> QED BY <1>1, <1>2, <1>3, <1>4, <1>5 DEF Texts

(* Reading a missing file sets one copy to a value.                        *)
LEMMA DefaultRange ==
    ASSUME NEW o \in Option, memory \in [Option -> Texts]
    PROVE  /\ MemoryDefault(o) \in [Option -> Texts]
           /\ \A q \in Option : MemoryDefault(o)[q] \in Values(q) \cup {memory[q]}
           /\ MemoryDefault(o)["10-chargerController"] = memory["10-chargerController"]
           /\ o \notin {"6-ledUsage", "7-idleSleep"} =>
                 /\ \A q \in Option \ {o} : MemoryDefault(o)[q] = memory[q]
                 /\ FileDefault(o) # "absent" => MemoryDefault(o)[o] = FileDefault(o)
<1>0. "10-chargerController" \in Option
    BY OptionNames
<1>1. CASE o = "6-ledUsage"
  <2>1. MemoryDefault(o) = [memory EXCEPT !["5-wifiReconnect"] = "false"]
      BY <1>1 DEF MemoryDefault
  <2>2. "5-wifiReconnect" \in Option /\ "false" \in Values("5-wifiReconnect")
      BY OptionNames DEF Values
  <2>3. "false" \in Texts
      BY DEF Texts
  <2> QED BY <1>0, <1>1, <2>1, <2>2, <2>3
<1>2. CASE o = "7-idleSleep"
  <2>1. MemoryDefault(o) = [memory EXCEPT ![o] = "60"]
      BY <1>2 DEF MemoryDefault
  <2>2. "60" \in Values(o) /\ "60" \in Texts
      BY <1>2, ValueRange DEF Values
  <2> QED BY <1>0, <1>2, <2>1, <2>2
<1>3. CASE o = "12-lockscreen"
  <2>1. MemoryDefault(o) = [memory EXCEPT ![o] = "false"] /\ FileDefault(o) = "absent"
      BY <1>3 DEF MemoryDefault, FileDefault
  <2>2. "false" \in Values(o) /\ "false" \in Texts
      BY <1>3, ValueRange DEF Values
  <2> QED BY <1>0, <1>3, <2>1, <2>2
<1>4. CASE o = "10-chargerController"
  <2>1. MemoryDefault(o) = memory /\ FileDefault(o) = "absent"
      BY <1>4 DEF MemoryDefault, FileDefault
  <2> QED BY <1>0, <1>4, <2>1
<1>5. CASE o \notin {"6-ledUsage", "7-idleSleep", "12-lockscreen", "10-chargerController"}
  <2>1. MemoryDefault(o) = [memory EXCEPT ![o] = FileDefault(o)]
      BY <1>5 DEF MemoryDefault
  <2>2. FileDefault(o) \in Values(o) /\ FileDefault(o) \in Texts
      BY <1>5, ValueRange
  <2> QED BY <1>0, <1>5, <2>1, <2>2
<1> QED BY <1>1, <1>2, <1>3, <1>4, <1>5

-----------------------------------------------------------------------------
LEMMA InitInv == Init => IInv
<1> SUFFICES ASSUME Init PROVE IInv
    OBVIOUS
<1>1. PICK chosen \in [Edited -> UNION {Values(o) : o \in Edited}], missing \in SUBSET Absent :
          /\ \A o \in Edited : chosen[o] \in Values(o)
          /\ file = [o \in Option |-> IF o \in missing THEN "absent"
                                      ELSE IF o \in Edited THEN chosen[o]
                                      ELSE FileDefault(o)]
    BY DEF Init
<1>2. \A o \in Option : file[o] \in Values(o) \cup {"absent"}
    BY <1>1, ValueRange
<1>3. "absent" \in Texts
    BY DEF Texts
<1>4. file \in [Option -> Texts]
    BY <1>1, <1>3, ValueRange
<1>5. memory \in [Option -> Texts] /\ \A o \in Option : memory[o] = Globals[o]
    BY ValueRange DEF Init, Globals
<1>6. /\ {updateConfig, chargerControllerEnabled, switched, watching, event, started, charger,
          chargerConnected} \subseteq BOOLEAN
      /\ reader = "read" /\ next = 1 /\ occupyLed = "nobody" /\ controllers = {}
      /\ chargerManagerPid = "0" /\ watchdog = "runs" /\ dirty = {}
    BY DEF Init
<1>7. OptionsTypeOK
    BY <1>2, <1>5, <1>6, OptionNames DEF OptionsTypeOK
<1>8. Controllers /\ NotHeldByController /\ RequestShape
    BY DEF Init, Controllers, NotHeldByController, RequestShape
<1> QED BY <1>4, <1>5, <1>7, <1>8 DEF IInv, Functions

(* The steps of prepareVariables() that read an option.                    *)
LEMMA ReadStep ==
    ASSUME IInv, ReadFile \/ ReadDefault
    PROVE  IInv'
<1> DEFINE o == Order[next]
<1>1. /\ o \in Option /\ file[o] \in Texts /\ "10-chargerController" \in Option
      /\ memory \in [Option -> Texts] /\ file \in [Option -> Texts]
      /\ next \in 1 .. 11 /\ Len(Order) = 11
    BY OptionNames DEF IInv, OptionsTypeOK, Functions
<1>2. Advance /\ reader = "read"
    BY DEF ReadFile, ReadDefault
<1>3. next' \in 1 .. 11 /\ reader' \in {"read", "led"} /\ (reader' # "read" => next' = 1)
    BY <1>1, <1>2 DEF Advance
<1>4. CASE ReadFile
  <2> USE <1>4 DEF ReadFile, files, led, controller
  <2>1. memory' = [memory EXCEPT ![o] = file[o]] /\ file[o] # "absent"
      OBVIOUS
  <2>2. Functions'
      BY <1>1, <2>1 DEF Functions
  <2>3. \A q \in Option : memory'[q] \in Values(q) \cup {Globals[q]}
      BY <1>1, <2>1 DEF IInv, OptionsTypeOK
  <2>4. chargerControllerEnabled' \in BOOLEAN /\ switched' \in BOOLEAN
      OBVIOUS
  <2>5. OptionsTypeOK'
      BY <1>1, <1>3, <2>3, <2>4 DEF IInv, OptionsTypeOK
  <2>6. switched' \/ memory'["10-chargerController"] = memory["10-chargerController"]
      BY <1>1, <2>1
  <2>7. switched => switched'
      OBVIOUS
  <2>8. Controllers'
      BY <2>6, <2>7 DEF IInv, Controllers
  <2>9. NotHeldByController'
      BY <2>7 DEF IInv, NotHeldByController
  <2>10. RequestShape'
      BY <1>3 DEF IInv, RequestShape
  <2> QED BY <2>2, <2>5, <2>8, <2>9, <2>10 DEF IInv
<1>5. CASE ReadDefault
  <2> USE <1>5 DEF ReadDefault, Notify, led, controller
  <2>1. memory' = MemoryDefault(o) /\ file' = [file EXCEPT ![o] = FileDefault(o)]
      OBVIOUS
  <2>2. "absent" \in Texts
      BY DEF Texts
  <2>3. Functions'
      BY <1>1, <2>1, <2>2, DefaultRange, ValueRange DEF Functions
  <2>4. \A q \in Option : memory'[q] \in Values(q) \cup {Globals[q]}
      BY <1>1, <2>1, DefaultRange DEF IInv, OptionsTypeOK
  <2>5. \A q \in Option : file'[q] \in Values(q) \cup {"absent"}
      BY <1>1, <2>1, ValueRange DEF IInv, OptionsTypeOK
  <2>6. /\ chargerControllerEnabled' \in BOOLEAN /\ updateConfig' \in BOOLEAN
        /\ event' \in {event, watching}
      OBVIOUS
  <2>7. OptionsTypeOK'
      BY <1>3, <1>1, <2>4, <2>5, <2>6 DEF IInv, OptionsTypeOK
  <2>8. memory'["10-chargerController"] = memory["10-chargerController"]
      BY <1>1, <2>1, DefaultRange
  <2>9. Controllers' /\ NotHeldByController'
      BY <2>8 DEF IInv, Controllers, NotHeldByController
  <2>10. updateConfig' => updateConfig
      OBVIOUS
  <2>11. updateConfig => o # "appsList"
      BY DEF IInv, RequestShape
  <2>12. updateConfig => updateConfig'
      BY <2>11
  <2>13. updateConfig => file'["appsList"] # "absent"
      BY <1>1, <2>1, <2>11, OptionNames DEF IInv, RequestShape
  <2>14. RequestShape'
      BY <1>2, <1>3, <2>10, <2>12, <2>13 DEF IInv, RequestShape
  <2> QED BY <2>3, <2>7, <2>9, <2>14 DEF IInv
<1> QED BY <1>4, <1>5

(* The steps that read no option and start no program.                     *)
LEMMA OtherStep ==
    ASSUME IInv,
           \/ TakeLed \/ GiveLed \/ AddWatch \/ checkUpdateFile \/ Answer
           \/ JobTakesLed \/ JobGivesLed \/ MainTakesLed \/ MainGivesLed
           \/ Request \/ PlugOrUnplug \/ ControllerEnds
    PROVE  IInv'
<1>1. CASE TakeLed
  <2> USE <1>1 DEF TakeLed, files, copies, thread, led, controller
  <2>1. OptionsTypeOK'
      BY DEF IInv, OptionsTypeOK
  <2>2. Functions' /\ RequestShape'
      BY DEF IInv, Functions, RequestShape
  <2>3. Controllers' /\ NotHeldByController'
      BY DEF IInv, Controllers, NotHeldByController
  <2> QED BY <2>1, <2>2, <2>3 DEF IInv
<1>2. CASE GiveLed
  <2> USE <1>2 DEF GiveLed, files, copies, thread, led, controller
  <2>1. OptionsTypeOK'
      BY DEF IInv, OptionsTypeOK
  <2>2. Functions' /\ RequestShape'
      BY DEF IInv, Functions, RequestShape
  <2>3. Controllers' /\ NotHeldByController'
      BY DEF IInv, Controllers, NotHeldByController
  <2> QED BY <2>1, <2>2, <2>3 DEF IInv
<1>3. CASE AddWatch
  <2> USE <1>3 DEF AddWatch, files, copies, thread, led, controller
  <2>1. OptionsTypeOK'
      BY DEF IInv, OptionsTypeOK
  <2>2. Functions' /\ RequestShape'
      BY DEF IInv, Functions, RequestShape
  <2>3. Controllers' /\ NotHeldByController'
      BY DEF IInv, Controllers, NotHeldByController
  <2> QED BY <2>1, <2>2, <2>3 DEF IInv
<1>4. CASE checkUpdateFile
  <2> USE <1>4 DEF checkUpdateFile, files, copies, thread, led, controller
  <2>1. OptionsTypeOK'
      BY DEF IInv, OptionsTypeOK
  <2>2. Functions' /\ RequestShape'
      BY DEF IInv, Functions, RequestShape
  <2>3. Controllers' /\ NotHeldByController'
      BY DEF IInv, Controllers, NotHeldByController
  <2> QED BY <2>1, <2>2, <2>3 DEF IInv
<1>5. CASE Answer
  <2> USE <1>5 DEF Answer, files, copies, thread, led, controller, Notify
  <2>1. OptionsTypeOK'
      BY DEF IInv, OptionsTypeOK
  <2>2. Functions' /\ RequestShape'
      BY DEF IInv, Functions, RequestShape
  <2>3. Controllers' /\ NotHeldByController'
      BY DEF IInv, Controllers, NotHeldByController
  <2> QED BY <2>1, <2>2, <2>3 DEF IInv
<1>6. CASE JobTakesLed
  <2> USE <1>6 DEF JobTakesLed, files, copies, thread, led, controller
  <2>1. OptionsTypeOK'
      BY DEF IInv, OptionsTypeOK
  <2>2. Functions' /\ RequestShape'
      BY DEF IInv, Functions, RequestShape
  <2>3. Controllers' /\ NotHeldByController'
      BY DEF IInv, Controllers, NotHeldByController
  <2> QED BY <2>1, <2>2, <2>3 DEF IInv
<1>7. CASE JobGivesLed
  <2> USE <1>7 DEF JobGivesLed, files, copies, thread, led, controller
  <2>1. OptionsTypeOK'
      BY DEF IInv, OptionsTypeOK
  <2>2. Functions' /\ RequestShape'
      BY DEF IInv, Functions, RequestShape
  <2>3. Controllers' /\ NotHeldByController'
      BY DEF IInv, Controllers, NotHeldByController
  <2> QED BY <2>1, <2>2, <2>3 DEF IInv
<1>8. CASE MainTakesLed
  <2> USE <1>8 DEF MainTakesLed, files, copies, thread, led, controller
  <2>1. OptionsTypeOK'
      BY DEF IInv, OptionsTypeOK
  <2>2. Functions' /\ RequestShape'
      BY DEF IInv, Functions, RequestShape
  <2>3. Controllers' /\ NotHeldByController'
      BY DEF IInv, Controllers, NotHeldByController
  <2> QED BY <2>1, <2>2, <2>3 DEF IInv
<1>9. CASE MainGivesLed
  <2> USE <1>9 DEF MainGivesLed, files, copies, thread, led, controller
  <2>1. OptionsTypeOK'
      BY DEF IInv, OptionsTypeOK
  <2>2. Functions' /\ RequestShape'
      BY DEF IInv, Functions, RequestShape
  <2>3. Controllers' /\ NotHeldByController'
      BY DEF IInv, Controllers, NotHeldByController
  <2> QED BY <2>1, <2>2, <2>3 DEF IInv
<1>10. CASE Request
  <2> USE <1>10 DEF Request, files, copies, thread, led, controller, Notify
  <2>1. OptionsTypeOK'
      BY DEF IInv, OptionsTypeOK
  <2>2. Functions' /\ RequestShape'
      BY DEF IInv, Functions, RequestShape
  <2>3. Controllers' /\ NotHeldByController'
      BY DEF IInv, Controllers, NotHeldByController
  <2> QED BY <2>1, <2>2, <2>3 DEF IInv
<1>11. CASE PlugOrUnplug
  <2> USE <1>11 DEF PlugOrUnplug, files, copies, thread, led, controller
  <2>1. OptionsTypeOK'
      BY DEF IInv, OptionsTypeOK
  <2>2. Functions' /\ RequestShape'
      BY DEF IInv, Functions, RequestShape
  <2>3. Controllers' /\ NotHeldByController'
      BY DEF IInv, Controllers, NotHeldByController
  <2> QED BY <2>1, <2>2, <2>3 DEF IInv
<1>12. CASE ControllerEnds
  <2> USE <1>12 DEF ControllerEnds, files, copies, thread, led, controller
  <2>1. OptionsTypeOK'
      BY DEF IInv, OptionsTypeOK
  <2>2. Functions' /\ RequestShape'
      BY DEF IInv, Functions, RequestShape
  <2>3. Controllers' /\ NotHeldByController'
      BY DEF IInv, Controllers, NotHeldByController
  <2> QED BY <2>1, <2>2, <2>3 DEF IInv
<1> QED BY <1>1, <1>2, <1>3, <1>4, <1>5, <1>6, <1>7, <1>8, <1>9, <1>10, <1>11, <1>12

(* The steps that start a program, edit an option, or begin anew.          *)
LEMMA ControllerStep ==
    ASSUME IInv, ChargerChanged \/ Collected
    PROVE  IInv'
<1> USE DEF files, thread, led
<1>1. "0" \notin Targets /\ Controllers
    BY OptionsAssumption DEF IInv
<1>2. ASSUME Spawn, chargerManagerPid \notin controllers, watchdog' = "runs",
             charger' = charger, chargerConnected' \in BOOLEAN,
             UNCHANGED <<files, memory, chargerControllerEnabled, thread, led>>
      PROVE  IInv'
  <2> USE <1>2 DEF Spawn
  <2>1. controllers = {}
      BY <1>1 DEF Controllers
  <2>2. OptionsTypeOK'
      BY <2>1 DEF IInv, OptionsTypeOK
  <2>3. Functions' /\ RequestShape'
      BY DEF IInv, Functions, RequestShape
  <2>4. Controllers' /\ NotHeldByController'
      BY <2>1 DEF Controllers, NotHeldByController
  <2> QED BY <2>2, <2>3, <2>4 DEF IInv
<1>3. charger \in BOOLEAN /\ chargerConnected \in BOOLEAN
    BY DEF IInv, OptionsTypeOK
<1>4. CASE Collected
    BY <1>2, <1>3, <1>4 DEF Collected
<1>5. CASE ChargerChanged
  <2> USE <1>5 DEF ChargerChanged
  <2>1. CASE ~charger \/ memory["10-chargerController"] \in controllers
    <3> USE <2>1
    <3>1. OptionsTypeOK'
        BY DEF IInv, OptionsTypeOK
    <3>2. Functions' /\ RequestShape' /\ Controllers' /\ NotHeldByController'
        BY DEF IInv, Functions, RequestShape, Controllers, NotHeldByController
    <3> QED BY <3>1, <3>2 DEF IInv
  <2>2. CASE charger /\ memory["10-chargerController"] \notin controllers
             /\ chargerManagerPid # "0"
    <3> USE <2>2
    <3>1. OptionsTypeOK'
        BY DEF IInv, OptionsTypeOK
    <3>2. Functions' /\ RequestShape' /\ Controllers'
        BY DEF IInv, Functions, RequestShape, Controllers
    <3>3. NotHeldByController'
        BY DEF IInv, Controllers, NotHeldByController
    <3> QED BY <3>1, <3>2, <3>3 DEF IInv
  <2>3. CASE charger /\ memory["10-chargerController"] \notin controllers
             /\ chargerManagerPid = "0"
    <3>1. chargerManagerPid \notin controllers
        BY <1>1, <2>3 DEF IInv, OptionsTypeOK
    <3>2. Spawn /\ watchdog' = "runs" /\ chargerConnected' = charger /\ charger' = charger
        BY <2>3
    <3> QED BY <1>2, <1>3, <3>1, <3>2
  <2> QED BY <1>3, <2>1, <2>2, <2>3
<1> QED BY <1>4, <1>5

(* An edit of an option, and a new start of the daemon.                    *)
LEMMA FileStep ==
    ASSUME IInv, Edit \/ Reboot
    PROVE  IInv'
<1> USE DEF copies, thread, led, controller
<1>1. CASE Edit
  <2>1. PICK o \in Edited : \E v \in Values(o) \ {file[o]} :
            file' = [file EXCEPT ![o] = v] /\ dirty' = dirty \cup {o}
      BY <1>1 DEF Edit
  <2>2. PICK v \in Values(o) \ {file[o]} : file' = [file EXCEPT ![o] = v]
      BY <2>1
  <2>3. /\ o \in Option /\ o # "appsList" /\ file \in [Option -> Texts]
        /\ v \in Texts /\ v \in Values(o)
      BY <2>1, <2>2, OptionsAssumption, ValueRange DEF IInv, Functions
  <2>4. UNCHANGED <<model, updateConfig, copies, thread, led, controller>>
      BY <1>1 DEF Edit
  <2>5. OptionsTypeOK'
      BY <2>1, <2>2, <2>3, <2>4 DEF IInv, OptionsTypeOK
  <2>6. Functions'
      BY <2>2, <2>3, <2>4 DEF IInv, Functions
  <2>7. RequestShape'
      BY <2>2, <2>3, <2>4, OptionNames DEF IInv, RequestShape
  <2>8. Controllers' /\ NotHeldByController'
      BY <2>4 DEF IInv, Controllers, NotHeldByController
  <2> QED BY <2>5, <2>6, <2>7, <2>8 DEF IInv
<1>2. CASE Reboot
  <2> USE <1>2 DEF Reboot
  <2>1. memory' \in [Option -> Texts] /\ \A o \in Option : memory'[o] = Globals[o]
      BY ValueRange DEF Globals
  <2>2. /\ {updateConfig', chargerControllerEnabled', switched', watching', event', started',
            charger', chargerConnected'} \subseteq BOOLEAN
        /\ reader' = "read" /\ next' = 1 /\ occupyLed' = "nobody" /\ controllers' = {}
        /\ chargerManagerPid' = "0" /\ watchdog' = "runs" /\ dirty' = {}
      BY DEF IInv, OptionsTypeOK
  <2>3. OptionsTypeOK'
      BY <2>1, <2>2, OptionNames DEF IInv, OptionsTypeOK
  <2>4. Functions'
      BY <2>1 DEF IInv, Functions
  <2>5. RequestShape' /\ Controllers' /\ NotHeldByController'
      BY DEF IInv, RequestShape, Controllers, NotHeldByController
  <2> QED BY <2>3, <2>4, <2>5 DEF IInv
<1> QED BY <1>1, <1>2

LEMMA StepInv == IInv /\ [Next]_vars => IInv'
<1>1. ASSUME IInv, UNCHANGED vars PROVE IInv'
    BY <1>1 DEF vars, files, copies, thread, led, controller, IInv, OptionsTypeOK, Functions,
                Controllers, NotHeldByController, RequestShape
<1>2. IInv /\ Next => IInv'
    BY ReadStep, OtherStep, ControllerStep, FileStep DEF Next, Reader, Watchdog
<1> QED BY <1>1, <1>2

-----------------------------------------------------------------------------
(* What is read for an answer.                                             *)

LEMMA InitRead == DefaultsAgree /\ Init => Present /\ ReadSoFar
<1> SUFFICES ASSUME DefaultsAgree, Init PROVE Present /\ ReadSoFar
    OBVIOUS
<1>1. PICK chosen \in [Edited -> UNION {Values(o) : o \in Edited}], missing \in SUBSET Absent :
          /\ \A o \in Edited : chosen[o] \in Values(o)
          /\ file = [o \in Option |-> IF o \in missing THEN "absent"
                                      ELSE IF o \in Edited THEN chosen[o]
                                      ELSE FileDefault(o)]
    BY DEF Init
<1>2. \A o \in {"6-ledUsage", "7-idleSleep"} :
          o \in Option /\ o \notin missing /\ "absent" \notin Values(o)
              /\ FileDefault(o) # "absent"
    BY OptionNames, ValueRange DEF DefaultsAgree
<1>3. Present
    BY <1>1, <1>2 DEF Present
<1>4. ReadSoFar
    BY DEF Init, ReadSoFar
<1> QED BY <1>3, <1>4

(* Reading one option puts it in force and leaves the others as they are.  *)
LEMMA ReadKeeps ==
    ASSUME IInv, Present, ReadSoFar, ReadFile \/ ReadDefault
    PROVE  Present' /\ ReadSoFar'
<1>0. PICK o \in Option : o = Order[next]
    BY OptionNames DEF IInv, OptionsTypeOK
<1>1. /\ o \in Option /\ next \in 1 .. 11 /\ Len(Order) = 11
      /\ memory \in [Option -> Texts] /\ file \in [Option -> Texts]
    BY OptionNames DEF IInv, OptionsTypeOK, Functions
<1>2. reader = "read" /\ Advance /\ UNCHANGED <<watching, dirty>>
    BY DEF ReadFile, ReadDefault, files
<1>3. InForce(o)' /\ \A q \in Option \ {o} : InForce(q) => InForce(q)'
  <2>1. CASE ReadFile
    <3>1. memory' = [memory EXCEPT ![o] = file[o]] /\ file' = file
        BY <1>0, <2>1 DEF ReadFile, files
    <3> QED BY <1>1, <1>2, <3>1 DEF InForce
  <2>2. CASE ReadDefault
    <3>1. /\ memory' = MemoryDefault(o) /\ file' = [file EXCEPT ![o] = FileDefault(o)]
          /\ file[o] = "absent"
        BY <1>0, <2>2 DEF ReadDefault
    <3>2. o \notin {"6-ledUsage", "7-idleSleep"}
        BY <3>1 DEF Present
    <3>3. \A q \in Option \ {o} : memory'[q] = memory[q] /\ file'[q] = file[q]
        BY <1>1, <3>1, <3>2, DefaultRange
    <3>4. file'[o] = "absent" \/ memory'[o] = file'[o]
        BY <1>1, <3>1, <3>2, DefaultRange
    <3> QED BY <1>2, <3>3, <3>4 DEF InForce
  <2> QED BY <2>1, <2>2
<1>4. Present'
  <2>1. CASE ReadFile
      BY <2>1 DEF ReadFile, files, Present
  <2>2. CASE ReadDefault
      BY <1>0, <1>1, <2>2, ValueRange DEF ReadDefault, Present
  <2> QED BY <2>1, <2>2
<1>5. watching' \/ ~updateConfig' => watching \/ ~updateConfig
  <2>1. CASE ReadFile
      BY <2>1 DEF ReadFile, files
  <2>2. CASE ReadDefault
    <3>1. file[o] = "absent" /\ (updateConfig' <=> updateConfig /\ o # "appsList")
        BY <1>0, <2>2 DEF ReadDefault
    <3>2. updateConfig => o # "appsList"
        BY <3>1 DEF IInv, RequestShape
    <3> QED BY <1>2, <3>1, <3>2
  <2> QED BY <2>1, <2>2
<1>6. ASSUME watching' \/ ~updateConfig'
      PROVE  /\ reader' = "read" => \A j \in 1 .. next' - 1 : InForce(Order[j])'
             /\ reader' \in {"led", "lit", "watch", "answer"} => \A q \in Option : InForce(q)'
             /\ reader' # "idle"
  <2>1. \A j \in 1 .. next - 1 : InForce(Order[j])
      BY <1>2, <1>5, <1>6 DEF ReadSoFar
  <2>2. ASSUME NEW j \in 1 .. next
        PROVE  InForce(Order[j])'
    <3>1. j \in 1 .. 11 /\ Order[j] \in Option
        BY <1>1, OptionNames
    <3>2. CASE j = next
        BY <1>0, <1>3, <3>2
    <3>3. CASE j # next
      <4>1. InForce(Order[j])
          BY <1>1, <2>1, <3>3
      <4>2. CASE Order[j] = o
          BY <1>3, <4>2
      <4>3. CASE Order[j] # o
          BY <1>3, <3>1, <4>1, <4>3
      <4> QED BY <4>2, <4>3
    <3> QED BY <3>2, <3>3
  <2>3. CASE next < 11
    <3>1. next' = next + 1 /\ reader' = "read"
        BY <1>1, <1>2, <2>3 DEF Advance
    <3>2. \A j \in 1 .. next' - 1 : j \in 1 .. next
        BY <1>1, <3>1
    <3> QED BY <2>2, <3>1, <3>2
  <2>4. CASE next = 11
    <3>1. next' = 1 /\ reader' = "led"
        BY <1>1, <1>2, <2>4 DEF Advance
    <3>2. \A q \in Option : \E j \in 1 .. next : q = Order[j]
        BY <1>1, <2>4 DEF Option
    <3>3. ASSUME NEW q \in Option PROVE InForce(q)'
      <4>1. PICK j \in 1 .. next : q = Order[j]
          BY <3>2
      <4> QED BY <2>2, <4>1
    <3> QED BY <3>1, <3>3
  <2> QED BY <1>1, <2>3, <2>4
<1>7. ReadSoFar'
    BY <1>6 DEF ReadSoFar
<1> QED BY <1>4, <1>7

(* Whatever else happens leaves in force what is, unless it is edited.     *)
LEMMA OthersKeep ==
    ASSUME IInv, Present, ReadSoFar, [Next]_vars, ~ReadFile, ~ReadDefault
    PROVE  Present' /\ ReadSoFar'
<1> USE DEF files, copies, thread, led, controller, Present, ReadSoFar, InForce
<1>1. CASE TakeLed \/ GiveLed
    BY <1>1 DEF TakeLed, GiveLed
<1>2. CASE AddWatch \/ checkUpdateFile
    BY <1>2 DEF AddWatch, checkUpdateFile, IInv, RequestShape
<1>3. CASE Answer
    BY <1>3 DEF Answer, Notify, IInv, RequestShape
<1>4. CASE JobTakesLed \/ JobGivesLed \/ MainTakesLed \/ MainGivesLed
    BY <1>4 DEF JobTakesLed, JobGivesLed, MainTakesLed, MainGivesLed
<1>5. CASE ChargerChanged \/ Collected
    BY <1>5 DEF ChargerChanged, Collected
<1>6. CASE Request
    BY <1>6 DEF Request, Notify, IInv, RequestShape
<1>7. CASE PlugOrUnplug \/ ControllerEnds
    BY <1>7 DEF PlugOrUnplug, ControllerEnds
<1>8. CASE Edit
  <2>0. PICK e \in Edited : \E v \in Values(e) \ {file[e]} :
            file' = [file EXCEPT ![e] = v] /\ dirty' = dirty \cup {e}
      BY <1>8 DEF Edit
  <2>1. PICK v \in Values(e) \ {file[e]} :
            file' = [file EXCEPT ![e] = v] /\ dirty' = dirty \cup {e}
      BY <2>0
  <2>2. /\ e \in Option /\ file \in [Option -> Texts] /\ v # "absent"
      BY <2>1, OptionsAssumption, ValueRange DEF IInv, Functions
  <2>3. UNCHANGED <<updateConfig, memory, reader, next, watching>>
      BY <1>8 DEF Edit
  <2>4. \A q \in Option : InForce(q) => InForce(q)'
      BY <2>1, <2>2, <2>3
  <2>5. \A j \in 1 .. next - 1 : Order[j] \in Option
      BY OptionNames DEF IInv, OptionsTypeOK
  <2>6. Present'
      BY <2>1, <2>2
  <2>7. ReadSoFar'
      BY <2>3, <2>4, <2>5
  <2> QED BY <2>6, <2>7
<1>9. CASE Reboot
    BY <1>9 DEF Reboot
<1>10. CASE UNCHANGED vars
    BY <1>10 DEF vars
<1> QED BY <1>1, <1>2, <1>3, <1>4, <1>5, <1>6, <1>7, <1>8, <1>9, <1>10
        DEF Next, Reader, Watchdog

-----------------------------------------------------------------------------
(* The charger controller while the file of its option stays as it is.     *)

FileKept == file'["10-chargerController"] = file["10-chargerController"]

NobodyAwaited == watchdog = "waits" => chargerManagerPid \notin controllers

(* A controller that was started, or is to be, is the one that the file    *)
(* names; what is read anew at the start of the daemon replaces no other.  *)
Unchanged ==
    /\ chargerControllerEnabled
         => memory["10-chargerController"] = file["10-chargerController"]
    /\ controllers # {} \/ watchdog = "waits" => chargerControllerEnabled
    /\ switched => controllers = {}

LEMMA UnchangedStep ==
    ASSUME IInv, Unchanged, [Next]_vars, [FileKept]_vars
    PROVE  Unchanged'
<1> DEFINE c == "10-chargerController"
<1> DEFINE o == Order[next]
<1>1. /\ c \in Option /\ memory \in [Option -> Texts] /\ file \in [Option -> Texts]
      /\ next \in 1 .. 11
    BY OptionNames DEF IInv, OptionsTypeOK, Functions
<1>2. o \in Option
    BY <1>1, OptionNames
<1>3. memory[c] # "absent"
  <2>1. Values(c) = {"/a", "/b", "/missing"} /\ Globals[c] = ""
      BY <1>1 DEF Values, Globals
  <2> QED BY <1>1, <2>1 DEF IInv, OptionsTypeOK
<1>4. CASE UNCHANGED vars
    BY <1>4 DEF vars, files, copies, controller, Unchanged
<1>5. CASE ReadFile /\ FileKept
  <2>1. /\ memory' = [memory EXCEPT ![o] = file[o]]
        /\ chargerControllerEnabled' =
               (chargerControllerEnabled \/ (o = c /\ file[o] \in Targets))
        /\ switched' = (switched \/ (o = c /\ file[o] # memory[o]))
        /\ UNCHANGED <<controllers, watchdog>>
      BY <1>5 DEF ReadFile, controller
  <2>2. CASE o = c
      BY <1>1, <1>5, <2>1, <2>2 DEF FileKept, Unchanged
  <2>3. CASE o # c
      BY <1>1, <1>5, <2>1, <2>3 DEF FileKept, Unchanged
  <2> QED BY <2>2, <2>3
<1>6. CASE ReadDefault /\ FileKept
  <2>1. /\ memory' = MemoryDefault(o) /\ file[o] = "absent"
        /\ chargerControllerEnabled' = (chargerControllerEnabled /\ o # c)
        /\ UNCHANGED <<switched, controllers, watchdog>>
      BY <1>6 DEF ReadDefault, controller
  <2>2. memory'[c] = memory[c]
      BY <1>1, <1>2, <2>1, DefaultRange
  <2>3. chargerControllerEnabled => o # c
      BY <1>3, <2>1 DEF Unchanged
  <2> QED BY <1>6, <2>1, <2>2, <2>3 DEF FileKept, Unchanged
<1>7. CASE Watchdog /\ FileKept
  <2>1. chargerControllerEnabled /\ UNCHANGED <<memory, chargerControllerEnabled>>
      BY <1>7 DEF Watchdog, ChargerChanged, Collected, Unchanged
  <2>2. \/ switched' = FALSE
        \/ switched' = switched /\ controllers' = controllers
      BY <1>7 DEF Watchdog, ChargerChanged, Collected, Spawn
  <2>3. switched' => controllers' = {}
      BY <2>2 DEF Unchanged
  <2>4. chargerControllerEnabled' /\ memory'[c] = file'[c]
      BY <1>7, <2>1 DEF FileKept, Unchanged
  <2> QED BY <2>3, <2>4 DEF Unchanged
<1>8. CASE Reboot
    BY <1>8 DEF Reboot, Unchanged
<1>9. CASE Edit /\ FileKept
    BY <1>9 DEF Edit, copies, controller, FileKept, Unchanged
<1>10. CASE /\ FileKept
            /\ \/ TakeLed \/ GiveLed \/ AddWatch \/ checkUpdateFile \/ Answer
               \/ JobTakesLed \/ JobGivesLed \/ MainTakesLed \/ MainGivesLed
               \/ Request \/ PlugOrUnplug \/ ControllerEnds
  <2>1. /\ UNCHANGED <<memory, chargerControllerEnabled, switched, watchdog>>
        /\ controllers' \subseteq controllers
      BY <1>10 DEF TakeLed, GiveLed, AddWatch, checkUpdateFile, Answer, JobTakesLed,
                  JobGivesLed, MainTakesLed, MainGivesLed, Request, PlugOrUnplug,
                  ControllerEnds, copies, controller
  <2> QED BY <1>10, <2>1 DEF FileKept, Unchanged
<1> QED BY <1>4, <1>5, <1>6, <1>7, <1>8, <1>9, <1>10 DEF Next, Reader

-----------------------------------------------------------------------------
(* The inductive invariant of the options and the charger controller.      *)
THEOREM Invariance == Spec => []IInv
BY InitInv, StepInv, PTL DEF Spec

(* Options, positions and owners stay in their ranges.                     *)
THEOREM TypeCorrect == Spec => []OptionsTypeOK
BY Invariance, PTL DEF IInv

(* At most one charger controller runs, whatever the option is changed to. *)
THEOREM OneProgram == Spec => []OneController
<1>1. IInv => OneController
  <2>1. ASSUME IInv PROVE controllers = {} \/ controllers = {chargerManagerPid}
      BY <2>1 DEF IInv, Controllers
  <2>2. Cardinality({}) = 0 /\ Cardinality({chargerManagerPid}) = 1
      BY FS_EmptySet, FS_Singleton
  <2> QED BY <2>1, <2>2 DEF OneController
<1> QED BY <1>1, Invariance, PTL

(* When the watchdog waits, the program it waits for has ended, or the     *)
(* option has changed since that was started.                              *)
THEOREM NotHeld == Spec => []NotHeldByController
BY Invariance, PTL DEF IInv

(* As long as nobody changes the file of the option, whatever else is      *)
(* edited, read, plugged, ended or rebooted, the watchdog waits for no     *)
(* program that runs.                                                      *)
THEOREM HeldOnlyByChange == Spec /\ [][FileKept]_vars => []NobodyAwaited
<1>1. Init => Unchanged
    BY DEF Init, Unchanged
<1>2. IInv /\ Unchanged /\ [Next]_vars /\ [FileKept]_vars => Unchanged'
    BY UnchangedStep
<1>3. IInv /\ Unchanged => NobodyAwaited
    BY DEF IInv, NotHeldByController, Unchanged, NobodyAwaited
<1> QED BY <1>1, <1>2, <1>3, Invariance, PTL DEF Spec

(* Where the file of each option with a default of its own in memory is    *)
(* there, "false" in updateConfig means that the options are in force.     *)
THEOREM Answered == DefaultsAgree => (Spec => []AnsweredMeansRead)
<1>1. DefaultsAgree /\ Init => Present /\ ReadSoFar
    BY InitRead
<1>2. IInv /\ Present /\ ReadSoFar /\ [Next]_vars => Present' /\ ReadSoFar'
    BY ReadKeeps, OthersKeep
<1>3. IInv /\ ReadSoFar => AnsweredMeansRead
    BY DEF IInv, OptionsTypeOK, RequestShape, ReadSoFar, InForce, AnsweredMeansRead
<1> QED BY <1>1, <1>2, <1>3, Invariance, PTL DEF Spec

=============================================================================
