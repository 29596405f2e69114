------------------------------ MODULE Options -------------------------------
(***************************************************************************)
(* The options: their files, the daemon's copies in memory, and how an     *)
(* update gets from the one to the other.  The GUI edits the files, writes *)
(* "true" to updateConfig and waits for the "false" that the daemon        *)
(* answers with (docs.md); startMonitoringConfig() hears of it by inotify. *)
(* prepareVariables() reads option by option, while the GUI may edit on.   *)
(*                                                                         *)
(* With them, the one process that an option starts: the program of        *)
(* 10-chargerController, in the tail of the watchdog's loop.               *)
(***************************************************************************)
EXTENDS Integers, Sequences, FiniteSets

CONSTANTS
    Models,    \* the devices considered
    Edited,    \* the options that the GUI edits
    Absent,    \* the options whose files may be missing at the first boot
    Targets    \* the programs that exist

(* In the order of prepareVariables(), which leaves 9-deepSleep to the GUI *)
(* and reads others (dark mode, X) by the same forms.                      *)
Order == <<"12-lockscreen", "appsList", "1-cinematicBrightnessDelayMs", "2-cpuGovernor",
           "3-whenChargerSleep", "4-chargerWakeUp", "5-wifiReconnect", "6-ledUsage",
           "7-idleSleep", "8-customCase", "10-chargerController">>
Option == {Order[i] : i \in 1 .. Len(Order)}

Values(o) ==
    CASE o = "appsList"                     -> {"list"}
      [] o = "1-cinematicBrightnessDelayMs" -> {"50", "10"}
      [] o = "2-cpuGovernor"                -> {"ondemand", "performance"}
      [] o = "7-idleSleep"                  -> {"300", "60"}
      [] o = "10-chargerController"         -> {"/a", "/b", "/missing"}
      [] OTHER                              -> {"true", "false"}

ASSUME OptionsAssumption ==
    /\ Models \subseteq {"n905b", "n613", "n306"}
    /\ Edited \subseteq Option \ {"appsList"} /\ Absent \subseteq Option
    /\ Targets \subseteq {"/a", "/b"}

VARIABLES
    model,
    file,          \* the options' files; "absent" if there is none
    memory,        \* the daemon's copies
    chargerControllerEnabled,
    updateConfig,  \* the file holds "true"
    event,         \* inotify has a change of updateConfig to report
    watching,      \* inotify watches the directory
    reader,        \* where the thread that reads the options is
    next,          \* the option it reads next
    occupyLed,     \* who holds the LED
    started,       \* the threads run, and main has yet to set the LED
    charger,       \* plugged in
    chargerConnected, chargerManagerPid,
    controllers,   \* the programs running as charger controller
    watchdog,      \* runs on, or waits for the controller
    dirty,         \* history: options edited since the last request
    switched       \* history: 10-chargerController has changed under its program

files == <<model, file, updateConfig, dirty>>
copies == <<memory, chargerControllerEnabled, switched>>
thread == <<reader, next, watching, event>>
led == <<occupyLed, started>>
controller == <<charger, chargerConnected, chargerManagerPid, controllers, watchdog>>
vars == <<files, copies, thread, led, controller>>

-----------------------------------------------------------------------------
(* Reading.                                                                *)

(* What is written to a file that is not there; nothing for the last two.  *)
FileDefault(o) ==
    CASE o = "appsList"                     -> "list"
      [] o = "1-cinematicBrightnessDelayMs" -> "50"
      [] o = "2-cpuGovernor"                -> "ondemand"
      [] o = "3-whenChargerSleep"           -> IF model = "n306" THEN "true" ELSE "false"
      [] o = "5-wifiReconnect"              -> IF model = "n905b" THEN "false" ELSE "true"
      [] o = "7-idleSleep"                  -> "300"
      [] o \in {"4-chargerWakeUp", "6-ledUsage", "8-customCase"} -> "false"
      [] OTHER                              -> "absent"

(* What is then in memory: not always what is in the file.                 *)
MemoryDefault(o) ==
    CASE o = "6-ledUsage"           -> [memory EXCEPT !["5-wifiReconnect"] = "false"]
      [] o = "7-idleSleep"          -> [memory EXCEPT ![o] = "60"]
      [] o = "12-lockscreen"        -> [memory EXCEPT ![o] = "false"]
      [] o = "10-chargerController" -> memory
      [] OTHER                      -> [memory EXCEPT ![o] = FileDefault(o)]

(* The initial values of the globals.                                      *)
Globals ==
    [o \in Option |-> CASE o \in {"1-cinematicBrightnessDelayMs", "7-idleSleep"} -> "0"
                        [] o \in {"appsList", "2-cpuGovernor", "10-chargerController"} -> ""
                        [] OTHER -> "false"]

Init ==
    /\ model \in Models
    /\ \E chosen \in [Edited -> UNION {Values(o) : o \in Edited}], missing \in SUBSET Absent :
           /\ \A o \in Edited : chosen[o] \in Values(o)
           /\ file = [o \in Option |-> IF o \in missing THEN "absent"
                                       ELSE IF o \in Edited THEN chosen[o]
                                       ELSE FileDefault(o)]
    /\ updateConfig = FALSE /\ dirty = {}
    /\ memory = Globals /\ chargerControllerEnabled = FALSE /\ switched = FALSE
    /\ reader = "read" /\ next = 1 /\ watching = FALSE /\ event = FALSE
    /\ occupyLed = "nobody" /\ started = FALSE
    /\ charger \in BOOLEAN /\ chargerConnected = FALSE
    /\ chargerManagerPid = "0" /\ controllers = {} /\ watchdog = "runs"

-----------------------------------------------------------------------------
(* prepareVariables(), at the start of main() and for each update.         *)

Notify == event' = watching

(* Advances to the next option; after the last, the LED is set.            *)
Advance ==
    IF next < Len(Order) THEN next' = next + 1 /\ UNCHANGED reader
                         ELSE next' = 1 /\ reader' = "led"

(* An option whose file is there.  The controller is enabled if its        *)
(* program exists; if not, it stays as it was.                             *)
ReadFile ==
    /\ reader = "read" /\ file[Order[next]] # "absent"
    /\ LET o == Order[next]
       IN /\ memory' = [memory EXCEPT ![o] = file[o]]
          /\ chargerControllerEnabled' =
                 (chargerControllerEnabled \/ (o = "10-chargerController" /\ file[o] \in Targets))
          /\ switched' = (switched \/ (o = "10-chargerController" /\ file[o] # memory[o]))
    /\ Advance
    /\ UNCHANGED <<files, watching, event, led, controller>>

(* Faulty: only the file is written.                                       *)
FaultyReadDefault ==
    /\ reader = "read" /\ file[Order[next]] = "absent"
    /\ LET o == Order[next]
       IN /\ file' = [file EXCEPT ![o] = FileDefault(o)]
          /\ memory' = [memory EXCEPT ![o] = "absent"]
          /\ chargerControllerEnabled' =
                 (chargerControllerEnabled /\ o # "10-chargerController")
          /\ updateConfig' = (updateConfig /\ o # "appsList")
          /\ IF o = "appsList" THEN Notify ELSE UNCHANGED event
    /\ Advance
    /\ UNCHANGED <<model, dirty, switched, watching, led, controller>>

(* An option whose file is missing.  With the list of applications,        *)
(* updateConfig is written as well.                                        *)
ReadDefault ==
    /\ reader = "read" /\ file[Order[next]] = "absent"
    /\ LET o == Order[next]
       IN /\ file' = [file EXCEPT ![o] = FileDefault(o)]
          /\ memory' = MemoryDefault(o)
          /\ chargerControllerEnabled' =
                 (chargerControllerEnabled /\ o # "10-chargerController")
          /\ updateConfig' = (updateConfig /\ o # "appsList")
          /\ IF o = "appsList" THEN Notify ELSE UNCHANGED event
    /\ Advance
    /\ UNCHANGED <<model, dirty, switched, watching, led, controller>>

(* ledManagerAccurate(): the LED is taken only if it is used.              *)
TakeLed ==
    /\ reader = "led"
    /\ IF memory["6-ledUsage"] = "true"
       THEN occupyLed = "nobody" /\ occupyLed' = "reader" /\ reader' = "lit"
       ELSE UNCHANGED occupyLed /\ reader' = IF watching THEN "answer" ELSE "watch"
    /\ UNCHANGED <<files, copies, next, watching, event, started, controller>>

(* Faulty: the mutex is kept when the options are read for an update.      *)
FaultyGiveLed ==
    /\ reader = "lit"
    /\ occupyLed' = IF watching THEN occupyLed ELSE "nobody"
    /\ reader' = IF watching THEN "answer" ELSE "watch"
    /\ UNCHANGED <<files, copies, next, watching, event, started, controller>>

GiveLed ==
    /\ reader = "lit"
    /\ occupyLed' = "nobody"
    /\ reader' = IF watching THEN "answer" ELSE "watch"
    /\ UNCHANGED <<files, copies, next, watching, event, started, controller>>

(* main() starts the threads; this one adds its watches, and then only     *)
(* reads.                                                                  *)
AddWatch ==
    /\ reader = "watch" /\ reader' = "idle"
    /\ watching' = TRUE /\ started' = TRUE
    /\ UNCHANGED <<files, copies, next, event, occupyLed, controller>>

(* Faulty: answers before it reads.                                        *)
FaultycheckUpdateFile ==
    /\ reader = "idle" /\ event
    /\ reader' = IF updateConfig THEN "read" ELSE "idle"
    /\ updateConfig' = FALSE
    /\ event' = updateConfig
    /\ UNCHANGED <<model, file, dirty, copies, next, watching, led, controller>>

checkUpdateFile ==
    /\ reader = "idle" /\ event
    /\ reader' = IF updateConfig THEN "read" ELSE "idle"
    /\ event' = FALSE
    /\ UNCHANGED <<files, copies, next, watching, led, controller>>

(* The answer is itself a change of the file.                              *)
Answer ==
    /\ reader = "answer" /\ reader' = "idle"
    /\ updateConfig' = FALSE
    /\ Notify
    /\ UNCHANGED <<model, file, dirty, copies, next, watching, led, controller>>

Reader ==
    \/ ReadFile \/ ReadDefault \/ TakeLed \/ GiveLed \/ AddWatch \/ checkUpdateFile \/ Answer

-----------------------------------------------------------------------------
(* The other users of the LED.                                             *)

(* A sleep job holds it from its start to its end.                         *)
JobTakesLed ==
    /\ watching /\ occupyLed = "nobody" /\ occupyLed' = "job"
    /\ UNCHANGED <<files, copies, thread, started, controller>>

JobGivesLed ==
    /\ occupyLed = "job" /\ occupyLed' = "nobody"
    /\ UNCHANGED <<files, copies, thread, started, controller>>

(* main(), once, 30 seconds after the start.                               *)
MainTakesLed ==
    /\ started /\ started' = FALSE
    /\ IF memory["6-ledUsage"] = "true"
       THEN occupyLed = "nobody" /\ occupyLed' = "main"
       ELSE UNCHANGED occupyLed
    /\ UNCHANGED <<files, copies, thread, controller>>

MainGivesLed ==
    /\ occupyLed = "main" /\ occupyLed' = "nobody"
    /\ UNCHANGED <<files, copies, thread, started, controller>>

-----------------------------------------------------------------------------
(* The charger controller, in the tail of startWatchdog().                 *)

(* The program is found by the path that the option has now; to spawn one  *)
(* that does not exist fails.                                              *)
Spawn ==
    LET path == memory["10-chargerController"]
    IN /\ switched' = FALSE
       /\ IF path \in Targets
          THEN controllers' = controllers \cup {path} /\ chargerManagerPid' = path
          ELSE UNCHANGED controllers /\ chargerManagerPid' = "0"

(* Faulty: the program may be running already.                             *)
FaultyChargerChanged ==
    /\ watching /\ watchdog = "runs" /\ occupyLed # "job"
    /\ chargerControllerEnabled /\ chargerConnected # charger
    /\ chargerConnected' = charger
    /\ IF ~charger THEN UNCHANGED <<watchdog, controllers, chargerManagerPid, switched>>
       ELSE IF chargerManagerPid # "0"
       THEN watchdog' = "waits" /\ UNCHANGED <<controllers, chargerManagerPid, switched>>
       ELSE UNCHANGED watchdog /\ Spawn
    /\ UNCHANGED <<files, memory, chargerControllerEnabled, thread, led, charger>>

(* Looked at only while no sleep is under way.  killProcess() is given a   *)
(* text that no process is named by.                                       *)
ChargerChanged ==
    /\ watching /\ watchdog = "runs" /\ occupyLed # "job"
    /\ chargerControllerEnabled /\ chargerConnected # charger
    /\ chargerConnected' = charger
    /\ IF ~charger \/ memory["10-chargerController"] \in controllers
       THEN UNCHANGED <<watchdog, controllers, chargerManagerPid, switched>>
       ELSE IF chargerManagerPid # "0"
       THEN watchdog' = "waits" /\ UNCHANGED <<controllers, chargerManagerPid, switched>>
       ELSE UNCHANGED watchdog /\ Spawn
    /\ UNCHANGED <<files, memory, chargerControllerEnabled, thread, led, charger>>

(* Faulty: the zombie is left.                                             *)
FaultyCollected ==
    /\ watchdog = "waits" /\ watchdog' = "runs"
    /\ Spawn
    /\ UNCHANGED <<files, memory, chargerControllerEnabled, thread, led, charger,
                   chargerConnected>>

(* waitpid() returns when the earlier program has ended.                   *)
Collected ==
    /\ watchdog = "waits" /\ watchdog' = "runs"
    /\ chargerManagerPid \notin controllers
    /\ Spawn
    /\ UNCHANGED <<files, memory, chargerControllerEnabled, thread, led, charger,
                   chargerConnected>>

Watchdog == ChargerChanged \/ Collected

-----------------------------------------------------------------------------
(* The GUI, the user and the device.                                       *)

(* The directory of the options is made with the list of applications.     *)
Edit ==
    /\ file["appsList"] # "absent"
    /\ \E o \in Edited : \E v \in Values(o) \ {file[o]} :
           file' = [file EXCEPT ![o] = v] /\ dirty' = dirty \cup {o}
    /\ UNCHANGED <<model, updateConfig, copies, thread, led, controller>>

(* The GUI has waited for the answer to its last request.                  *)
Request ==
    /\ file["appsList"] # "absent"
    /\ ~updateConfig /\ updateConfig' = TRUE
    /\ dirty' = {}
    /\ Notify
    /\ UNCHANGED <<model, file, copies, reader, next, watching, led, controller>>

PlugOrUnplug ==
    /\ charger' = ~charger
    /\ UNCHANGED <<files, copies, thread, led, chargerConnected, chargerManagerPid,
                   controllers, watchdog>>

ControllerEnds ==
    /\ \E c \in controllers : controllers' = controllers \ {c}
    /\ UNCHANGED <<files, copies, thread, led, charger, chargerConnected, chargerManagerPid,
                   watchdog>>

(* Only the files survive, a request that was never answered among them.   *)
Reboot ==
    /\ memory' = Globals /\ chargerControllerEnabled' = FALSE /\ switched' = FALSE
    /\ reader' = "read" /\ next' = 1 /\ watching' = FALSE /\ event' = FALSE
    /\ occupyLed' = "nobody" /\ started' = FALSE
    /\ chargerConnected' = FALSE /\ chargerManagerPid' = "0" /\ controllers' = {}
    /\ watchdog' = "runs" /\ dirty' = {}
    /\ UNCHANGED <<model, file, updateConfig, charger>>

Next ==
    \/ Reader \/ Watchdog
    \/ JobTakesLed \/ JobGivesLed \/ MainTakesLed \/ MainGivesLed
    \/ Edit \/ Request \/ PlugOrUnplug \/ ControllerEnds \/ Reboot

(* The threads run; a job ends some day or lends the LED, for which an     *)
(* afterSleep at the lock screen needs the user or a press; and the mutex  *)
(* of the LED is not given to the others for ever while the reader waits.  *)
Spec ==
    /\ Init /\ [][Next]_vars
    /\ WF_vars(Reader) /\ SF_vars(TakeLed) /\ WF_vars(JobGivesLed) /\ WF_vars(MainGivesLed)

-----------------------------------------------------------------------------
(* Properties.                                                             *)

(* No option takes a value that it does not have.                          *)
OptionsTypeOK ==
    /\ \A o \in Option : /\ file[o] \in Values(o) \cup {"absent"}
                         /\ memory[o] \in Values(o) \cup {Globals[o]}
    /\ {updateConfig, chargerControllerEnabled, switched, watching, event, started, charger,
        chargerConnected} \subseteq BOOLEAN
    /\ reader \in {"read", "led", "lit", "watch", "idle", "answer"} /\ next \in 1 .. Len(Order)
    /\ occupyLed \in {"nobody", "reader", "job", "main"}
    /\ controllers \subseteq Targets /\ chargerManagerPid \in Targets \cup {"0"}
    /\ watchdog \in {"runs", "waits"} /\ dirty \subseteq Edited

(* docs.md, updateConfig: "the daemon will update all its variables        *)
(* on-the-fly, then write `false`".  Whenever the GUI finds "false" there, *)
(* every option it has not edited since its last request is in force.      *)
AnsweredMeansRead ==
    watching /\ ~updateConfig
        => \A o \in Option \ dirty : file[o] # "absent" => memory[o] = file[o]

(* A request that inotify has seen is answered, sleep jobs or not.         *)
UpdateAnswered == event /\ updateConfig ~> ~updateConfig \/ ~watching

(* Two charger controllers never run at the same time.                     *)
OneController == Cardinality(controllers) <= 1

(* The watchdog waits only for a program that has ended, unless the option *)
(* has changed since it was started: then it may run on, for killProcess() *)
(* hits nobody, and the wait lasts as long as it runs.                     *)
NotHeldByController ==
    watchdog = "waits" /\ chargerManagerPid \in controllers => switched

=============================================================================
