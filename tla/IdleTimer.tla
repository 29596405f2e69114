----------------------------- MODULE IdleTimer ------------------------------
(***************************************************************************)
(* The idle timer: the loop of startIdleSleep(), which counts the seconds  *)
(* without a touch in countIdle and asks for a sleep when the count equals *)
(* idleSleepTime.  Other threads write both variables without a lock: an   *)
(* option update sets idleSleepTime, afterSleep clears countIdle.  The     *)
(* touchscreen may vanish under the loop, as its module is unloaded for a  *)
(* sleep.                                                                  *)
(*                                                                         *)
(* What happens once the count is reached is one step here; SleepControl   *)
(* has its details.                                                        *)
(***************************************************************************)
EXTENDS Integers

CONSTANTS
    Times,        \* the values 7-idleSleep may take
    UsbmsDelay,   \* what USB mass storage sets the count back by
    Cap           \* where the model stops counting

(* A count above every option value is never met again, however long it    *)
(* runs: nothing is lost at Cap.                                           *)
ASSUME TimesAssumption ==
    /\ Times \subseteq Nat /\ UsbmsDelay \in Nat /\ Cap \in Nat
    /\ \A t \in Times : t < Cap

VARIABLES
    idleSleepTime,  \* 7-idleSleep as last read
    countIdle,
    idle,           \* the position of the thread
    loaded,         \* countIdle as the increment read it
    pending,        \* touch events wait in the device's queue
    device,         \* the touchscreen: open, gone, or there but not opened
    in_usbms,       \* the file /kobo/tmp/in_usbms
    busy,           \* a sleep is ordered, asked for or running
    resetDue,       \* an afterSleep has reported and will clear countIdle
    watchdogStartJob,
    calm            \* history: the loop's seconds since the last touch

vars == <<idleSleepTime, countIdle, idle, loaded, pending, device, in_usbms, busy,
          resetDue, watchdogStartJob, calm>>

Second(n) == IF n < Cap THEN n + 1 ELSE Cap

Init ==
    /\ idleSleepTime \in Times /\ countIdle = 0
    /\ idle = "start"          /\ loaded = 0
    /\ pending = FALSE         /\ device = "new"
    /\ in_usbms = FALSE        /\ busy = FALSE
    /\ resetDue = FALSE        /\ watchdogStartJob = FALSE
    /\ calm = 0

-----------------------------------------------------------------------------
(* The thread.                                                             *)

Goto(from, to) == idle = from /\ idle' = to

world == <<idleSleepTime, device, in_usbms, busy, resetDue>>

(* inkbox-bin has started, or 90 seconds have passed.                      *)
Start ==
    /\ Goto("start", "reopen")
    /\ UNCHANGED <<countIdle, loaded, pending, watchdogStartJob, calm, world>>

(* "Open until it's fine...", then count from zero.                        *)
Open ==
    /\ Goto("reopen", "look")
    /\ device # "gone"
    /\ device' = "open"
    /\ pending' = FALSE
    /\ countIdle' = 0
    /\ UNCHANGED <<idleSleepTime, in_usbms, busy, resetDue, loaded, watchdogStartJob, calm>>

(* The count begins again even if nothing is asked for.                    *)
Look ==
    /\ idle = "look"
    /\ IF idleSleepTime # 0 /\ idleSleepTime = countIdle
       THEN countIdle' = 0 /\ idle' = "ask"
       ELSE UNCHANGED countIdle /\ idle' = "drain"
    /\ UNCHANGED <<loaded, pending, watchdogStartJob, calm, world>>

(* With something under way nothing is asked for; an ssh session makes the *)
(* turn end at its condition, without the second's sleep.                  *)
Ask ==
    /\ idle = "ask"
    /\ \/ busy  /\ idle' = "drain" /\ UNCHANGED watchdogStartJob
       \/ ~busy /\ idle' = "drain" /\ watchdogStartJob' = TRUE
       \/ ~busy /\ idle' = "ssh"   /\ UNCHANGED watchdogStartJob
    /\ UNCHANGED <<countIdle, loaded, pending, calm, world>>

(* Faulty: events are read, but the count goes on.                         *)
FaultyDrain ==
    /\ idle = "drain"
    /\ IF pending \/ device # "open"
       THEN idle' = IF device = "gone" THEN "died" ELSE "read"
       ELSE idle' = "sleep"
    /\ UNCHANGED <<countIdle, loaded, pending, watchdogStartJob, calm, world>>

(* A device that is not there any more counts as readable; when its file   *)
(* has gone too, the thread leaves its loop.                               *)
Drain ==
    /\ idle = "drain"
    /\ IF pending \/ device # "open"
       THEN /\ countIdle' = 0
            /\ idle' = IF device = "gone" THEN "died" ELSE "read"
       ELSE UNCHANGED countIdle /\ idle' = "sleep"
    /\ UNCHANGED <<loaded, pending, watchdogStartJob, calm, world>>

(* Reads until nothing waits: never, if the device is not the one opened.  *)
Read ==
    /\ idle = "read"
    /\ IF device = "open" THEN pending' = FALSE /\ idle' = "sleep"
                          ELSE UNCHANGED <<pending, idle>>
    /\ UNCHANGED <<countIdle, loaded, watchdogStartJob, calm, world>>

Sleep ==
    /\ Goto("sleep", "store")
    /\ loaded' = countIdle
    /\ calm' = Second(calm)
    /\ UNCHANGED <<countIdle, pending, watchdogStartJob, world>>

Store ==
    /\ Goto("store", "usbms")
    /\ countIdle' = Second(loaded)
    /\ loaded' = 0
    /\ UNCHANGED <<pending, watchdogStartJob, calm, world>>

(* Faulty: the delay adds up while the session lasts.                      *)
FaultyUsbms ==
    /\ idle = "usbms"
    /\ IF in_usbms THEN countIdle' = countIdle - UsbmsDelay /\ UNCHANGED idle
                   ELSE UNCHANGED countIdle /\ idle' = "look"
    /\ UNCHANGED <<loaded, pending, watchdogStartJob, calm, world>>

Usbms ==
    /\ idle = "usbms"
    /\ IF in_usbms THEN countIdle' = -UsbmsDelay /\ UNCHANGED idle
                   ELSE UNCHANGED countIdle /\ idle' = "look"
    /\ UNCHANGED <<loaded, pending, watchdogStartJob, calm, world>>

(* The loop's condition holds: the descriptor is never closed under it.    *)
SshTurn ==
    /\ Goto("ssh", "look")
    /\ UNCHANGED <<countIdle, loaded, pending, watchdogStartJob, calm, world>>

(* Faulty: the thread stays dead.                                          *)
FaultyRestart == idle = "died" /\ UNCHANGED vars

(* startIdleSleep() calls itself.                                          *)
Restart ==
    /\ Goto("died", "start")
    /\ UNCHANGED <<countIdle, loaded, pending, watchdogStartJob, calm, world>>

IdleSleep ==
    \/ Start \/ Open \/ Look \/ Ask \/ Drain \/ Read \/ Sleep \/ Store \/ Usbms
    \/ SshTurn \/ Restart

-----------------------------------------------------------------------------
(* Everybody else.                                                         *)

thread == <<idle, loaded>>

Touch ==
    /\ device # "gone"
    /\ pending' = (pending \/ device = "open")
    /\ calm' = 0
    /\ UNCHANGED <<thread, countIdle, watchdogStartJob, world>>

UpdateOption ==
    /\ idleSleepTime' \in Times
    /\ UNCHANGED <<thread, countIdle, pending, device, in_usbms, busy, resetDue,
                   watchdogStartJob, calm>>

UsbMassStorage ==
    /\ in_usbms' = ~in_usbms
    /\ UNCHANGED <<thread, countIdle, idleSleepTime, pending, device, busy, resetDue,
                   watchdogStartJob, calm>>

(* A request, this thread's or another's, is taken.                        *)
SleepBegins ==
    /\ ~busy /\ busy' = TRUE
    /\ watchdogStartJob' = FALSE
    /\ UNCHANGED <<thread, countIdle, idleSleepTime, pending, device, in_usbms, resetDue,
                   calm>>

(* The request is voided: by a USB session, or by a charger.               *)
RequestVoided ==
    /\ watchdogStartJob /\ watchdogStartJob' = FALSE
    /\ UNCHANGED <<thread, countIdle, pending, calm, world>>

SleepEnds ==
    /\ busy /\ busy' = FALSE
    /\ resetDue' = TRUE
    /\ UNCHANGED <<thread, countIdle, idleSleepTime, pending, device, in_usbms,
                   watchdogStartJob, calm>>

(* The last act of afterSleep, whatever the thread is doing.               *)
AfterSleepResets ==
    /\ resetDue /\ resetDue' = FALSE
    /\ countIdle' = 0
    /\ UNCHANGED <<thread, idleSleepTime, pending, device, in_usbms, busy,
                   watchdogStartJob, calm>>

(* The module is unloaded and loaded again.                                *)
TouchscreenGoes ==
    /\ device = "open" /\ device' = "gone"
    /\ UNCHANGED <<thread, countIdle, idleSleepTime, pending, in_usbms, busy, resetDue,
                   watchdogStartJob, calm>>

TouchscreenReturns ==
    /\ device = "gone" /\ device' = "new"
    /\ UNCHANGED <<thread, countIdle, idleSleepTime, pending, in_usbms, busy, resetDue,
                   watchdogStartJob, calm>>

World ==
    \/ Touch \/ UpdateOption \/ UsbMassStorage \/ SleepBegins \/ RequestVoided \/ SleepEnds
    \/ AfterSleepResets \/ TouchscreenGoes \/ TouchscreenReturns

Next == IdleSleep \/ World

(* The thread runs on; nobody else owes it anything.                       *)
Spec == Init /\ [][Next]_vars /\ WF_vars(IdleSleep)

-----------------------------------------------------------------------------
(* Properties.                                                             *)

(* The count stays between the delay of a USB session and the cap.         *)
TimerTypeOK ==
    /\ idleSleepTime \in Times
    /\ countIdle \in -UsbmsDelay .. Cap /\ loaded \in -UsbmsDelay .. Cap
    /\ idle \in {"start", "reopen", "look", "ask", "drain", "read", "sleep", "store",
                 "usbms", "ssh", "died"}
    /\ device \in {"open", "gone", "new"}
    /\ {pending, in_usbms, busy, resetDue, watchdogStartJob} \subseteq BOOLEAN
    /\ calm \in 0 .. Cap

(* docs.md, 7-idleSleep: the device is sent to sleep "when no touch input  *)
(* is received" for so many seconds.  The thread gives up waiting only     *)
(* after that many of its turns without a touch, whatever the other        *)
(* threads write to the count; except that a touch in the very last second *)
(* still waits in the queue, and one on a device that the thread has not   *)
(* opened is not seen.                                                     *)
IdleNotEarly ==
    [][idle = "look" /\ idle' = "ask" /\ device = "open" /\ ~pending
         => calm >= idleSleepTime]_vars

(* Nothing goes on that defers idle sleep for option value t; if there is  *)
(* a new touchscreen, then the thread has noticed the loss of the old one. *)
Undisturbed(t) ==
    /\ idleSleepTime = t
    /\ device = "open" \/ (device = "new" /\ idle \in {"died", "start", "reopen"})
    /\ ~pending /\ ~in_usbms /\ ~busy /\ ~resetDue

(* An undisturbed device goes to sleep, whatever has become of the count   *)
(* and of the touchscreen before, if the count is still below the option   *)
(* (an option lowered to it or below is missed: the two are compared for   *)
(* equality).                                                              *)
IdleSleepComes ==
    \A t \in Times \ {0} :
        Undisturbed(t) /\ countIdle < t /\ loaded < t
          ~> watchdogStartJob \/ idle = "ssh" \/ ~Undisturbed(t)

=============================================================================
