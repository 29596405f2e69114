---------------------------- MODULE Applications ----------------------------
(***************************************************************************)
(* The processes the daemon stops, continues and kills around a sleep:     *)
(* appsFreeze.cpp, with the calls that prepareSleep and afterSleep make to *)
(* it, and the lock screen between them.  Processes are found by a text in *)
(* their command line, in the order of /proc, while they come and go.      *)
(*                                                                         *)
(* The jobs are the daemon's sleep threads.  SleepControl shows that at    *)
(* most one runs; which one, and whether it has been cut short before,     *)
(* depends on the presses: here either may follow either, and a job may    *)
(* give up at each of its checks.                                          *)
(***************************************************************************)
EXTENDS Integers, FiniteSets, FiniteSetsExt

CONSTANTS
    MaxPid,    \* process numbers go up to it
    Programs   \* the commands that others than the daemon may start

(* What the search terms find of each command: a text and its parts.       *)
Contains ==
    [none     |-> {},
     init     |-> {},
     gui      |-> {"inkbox-bin"},
     guiScript  |-> {"inkbox.sh"},
     lockScript |-> {"launch_lockscreen.sh", "lockscreen"},
     lock     |-> {"lockscreen-bin", "lockscreen"},
     app      |-> {"app"},
     appBin   |-> {"app", "app.bin"},
     mount    |-> {"app", "squashfuse"},
     library  |-> {"/system-lib"},
     client   |-> {"X_program"},
     damage   |-> {"fbink_xdamage"}]

Commands == DOMAIN Contains
Pids == 1 .. MaxPid

ASSUME ApplicationsAssumption ==
    MaxPid \in Nat /\ MaxPid > 3 /\ Programs \subseteq Commands \ {"none", "init", "lock"}

VARIABLES
    cmdline,       \* what runs as each process
    stopped,       \* the processes that SIGSTOP has stopped
    userApp,       \* /kobo/tmp/currentlyRunningUserApplication names the application
    xProgram,      \* /tmp/X_program names the X client
    xorgRunning,   \* the X flag
    lockscreen,    \* the option 12-lockscreen
    appsPids,      \* as a set; -1 stands for a process that was not found
    lockscreenPid,
    pidVector,     \* the numbers freezeApps found for the list
    found,         \* the lock screen that afterSleep found
    job,           \* where the running job is; between jobs, what the last one was
    launching,     \* scripts that have not started their lock screen yet
    due,           \* history: what this freezeApps has to stop
    shown          \* history: the lock screen was up in this afterSleep

files == <<userApp, xProgram, xorgRunning, lockscreen>>
daemon == <<appsPids, lockscreenPid, pidVector, found, job, shown>>
vars == <<cmdline, stopped, launching, due, files, daemon>>

-----------------------------------------------------------------------------
(* Searching.                                                              *)

Matching(term) == {p \in Pids : term \in Contains[cmdline[p]]}
Mounts == Matching("squashfuse")

(* Faulty: "not found" is a number that a list of processes may hold.      *)
FaultygetPidByName(term) ==
    LET all == Matching(term) IN IF all = {} \/ Min(all) \in Mounts THEN 0 ELSE Min(all)

(* The first one in /proc; none, if that is a mounted image.               *)
getPidByName(term) ==
    LET all == Matching(term)
    IN IF all = {} \/ Min(all) \in Mounts THEN -1 ELSE Min(all)

(* Faulty: stops at the first.                                             *)
FaultygetPidsByNameAll(term) == {getPidByName(term)} \ {-1}

getPidsByNameAll(term) == Matching(term) \ Mounts

getBuiltInAppsList == {"inkbox-bin", "lockscreen-bin"}

(* The .bin comes first; the name itself is entered even if not found.     *)
getRunningUserApp ==
    ({getPidByName("app.bin")} \ {-1}) \cup {getPidByName("app")}
        \cup getPidsByNameAll("/system-lib")

(* Only what is found.                                                     *)
getRunningXorgPrograms ==
    IF xorgRunning /\ xProgram
    THEN getPidsByNameAll("X_program") \cup ({getPidByName("fbink_xdamage")} \ {-1})
    ELSE {}

-----------------------------------------------------------------------------
(* Signals.  kill() takes -1 for everybody but init.                       *)

Running == {p \in Pids : cmdline[p] # "none"}
kill(p) == IF p = -1 THEN Running \ {1} ELSE {p} \cap Running

(* Faulty: passes everything on to kill().                                 *)
FaultykillLogger(S) == UNION {kill(p) : p \in S}

(* Who is hit by SIGSTOP to each of S.                                     *)
killLogger(S) == UNION {kill(p) : p \in {q \in S : q > 1}}

(* The command lines once a process named by each term in turn has been    *)
(* killed; several terms may find the same process only one after another. *)
KilledOne(c, term) ==
    LET all == {p \in Pids : term \in Contains[c[p]]}
    IN IF all = {} \/ Min(all) \in Mounts THEN c ELSE [c EXCEPT ![Min(all)] = "none"]

killProcesses(first, second, third) ==
    /\ cmdline' = KilledOne(KilledOne(KilledOne(cmdline, first), second), third)
    /\ LET gone == {p \in Pids : cmdline'[p] = "none"}
       IN stopped' = stopped \ gone /\ launching' = launching \ gone /\ due' = due \ gone

Init ==
    /\ \E boot \in SUBSET {"lockScript", "lock"} :
           cmdline = [p \in Pids |-> CASE p = 1 -> "init"
                                       [] p = 2 /\ "lockScript" \in boot -> "lockScript"
                                       [] p = 3 /\ "lock" \in boot -> "lock"
                                       [] OTHER -> "none"]
    /\ stopped = {} /\ appsPids = {} /\ pidVector = {} /\ launching = {} /\ due = {}
    /\ userApp \in BOOLEAN /\ xProgram \in BOOLEAN
    /\ xorgRunning \in BOOLEAN /\ lockscreen \in BOOLEAN
    /\ lockscreenPid = 0 /\ found = -1 /\ job = "after" /\ shown = FALSE

-----------------------------------------------------------------------------
(* prepareSleep.                                                           *)

Goto(from, to) == job = from /\ job' = to

BeginPrepare ==
    /\ job \in {"prepare", "after"}
    /\ job' = IF lockscreenPid # 0 THEN "collect" ELSE "noLock"
    /\ UNCHANGED <<cmdline, stopped, launching, due, files, appsPids, lockscreenPid,
                   pidVector, found, shown>>

(* Faulty: the children are left.                                          *)
FaultyCollect ==
    /\ Goto("collect", "wait")
    /\ killProcesses("", "", "launch_lockscreen.sh")
    /\ UNCHANGED <<files, appsPids, lockscreenPid, pidVector, found, shown>>

(* "Kill children too."                                                    *)
Collect ==
    /\ Goto("collect", "wait")
    /\ killProcesses("lockscreen-bin", "lockscreen", "launch_lockscreen.sh")
    /\ UNCHANGED <<files, appsPids, lockscreenPid, pidVector, found, shown>>

(* waitpid() returns once the script is dead.                              *)
Collected ==
    /\ Goto("wait", "noLock")
    /\ cmdline[lockscreenPid] = "none"
    /\ lockscreenPid' = 0
    /\ UNCHANGED <<cmdline, stopped, launching, due, files, appsPids, pidVector, found,
                   shown>>

(* Without the GUI's script the lock screen has nobody to come back to.    *)
NoLock ==
    /\ Goto("noLock", "builtIn")
    /\ IF getPidByName("inkbox.sh") = -1
       THEN killProcesses("launch_lockscreen.sh", "lockscreen-bin", "lockscreen")
       ELSE UNCHANGED <<cmdline, stopped, launching, due>>
    /\ UNCHANGED <<files, appsPids, lockscreenPid, pidVector, found, shown>>

(* What a sleep has to stop, as the files name it.                         *)
UserClass == {"appBin", "library"}
XorgClass == {"client", "damage"}

Wanted ==
    {p \in Pids : \/ cmdline[p] \in {"gui", "lock"}
                  \/ userApp /\ cmdline[p] \in UserClass
                  \/ xorgRunning /\ xProgram /\ cmdline[p] \in XorgClass}

(* freezeApps(): the list, the user's application, X, and then the stop.   *)
FreezeBuiltIn ==
    /\ Goto("builtIn", "user")
    /\ pidVector' = {getPidByName(t) : t \in getBuiltInAppsList} \ {-1}
    /\ due' = Wanted
    /\ UNCHANGED <<cmdline, stopped, launching, files, appsPids, lockscreenPid, found, shown>>

FreezeUserApp ==
    /\ Goto("user", "xorg")
    /\ appsPids' = IF userApp THEN appsPids \cup getRunningUserApp ELSE appsPids
    /\ UNCHANGED <<cmdline, stopped, launching, due, files, lockscreenPid, pidVector, found,
                   shown>>

(* Faulty: the list is replaced.                                           *)
FaultyFreezeXorg ==
    /\ Goto("xorg", "stop")
    /\ appsPids' = getRunningXorgPrograms \cup pidVector
    /\ pidVector' = {}
    /\ UNCHANGED <<cmdline, stopped, launching, due, files, lockscreenPid, found, shown>>

(* "Here append because of fast clicking something could get not           *)
(* unfreezed."                                                             *)
FreezeXorg ==
    /\ Goto("xorg", "stop")
    /\ appsPids' = appsPids \cup getRunningXorgPrograms \cup pidVector
    /\ pidVector' = {}
    /\ UNCHANGED <<cmdline, stopped, launching, due, files, lockscreenPid, found, shown>>

FreezeStop ==
    /\ Goto("stop", "prepare")
    /\ stopped' = stopped \cup killLogger(appsPids)
    /\ due' = {}
    /\ UNCHANGED <<cmdline, launching, files, appsPids, lockscreenPid, pidVector, found,
                   shown>>

-----------------------------------------------------------------------------
(* afterSleep.                                                             *)

Free == {p \in Pids : cmdline[p] = "none"} \ (appsPids \cup pidVector \cup {lockscreenPid, found})

BeginAfter ==
    /\ job \in {"prepare", "after"}
    /\ job' = IF lockscreen THEN "lock" ELSE "thaw"
    /\ shown' = FALSE
    /\ UNCHANGED <<cmdline, stopped, launching, due, files, appsPids, lockscreenPid,
                   pidVector, found>>

(* Faulty: a script that was launched before is taken to run still.        *)
FaultyLock ==
    /\ job = "lock"
    /\ found' = getPidByName("lockscreen-bin")
    /\ job' = IF found' # -1 THEN "show" ELSE "launch"
    /\ shown' = (found' # -1)
    /\ UNCHANGED <<cmdline, stopped, launching, due, files, appsPids, lockscreenPid,
                   pidVector>>

(* The lock screen is launched, unless one is there.                       *)
Lock ==
    /\ job = "lock"
    /\ found' = getPidByName("lockscreen-bin")
    /\ IF found' # -1
       THEN /\ job' = "show"
            /\ UNCHANGED <<cmdline, launching, lockscreenPid>>
       ELSE /\ job' = "launch"
            /\ Cardinality(Free) > 1
            /\ \E p \in Free : /\ cmdline' = [cmdline EXCEPT ![p] = "lockScript"]
                               /\ lockscreenPid' = p
                               /\ launching' = launching \cup {p}
    /\ UNCHANGED <<stopped, due, files, appsPids, pidVector, shown>>

(* Faulty: does not wait.                                                  *)
FaultyLaunched ==
    /\ Goto("launch", "locked")
    /\ shown' = (getPidByName("lockscreen-bin") # -1)
    /\ UNCHANGED <<cmdline, stopped, launching, due, files, appsPids, lockscreenPid,
                   pidVector, found>>

(* It is waited for without a check and without a bound.                   *)
Launched ==
    /\ Goto("launch", "locked")
    /\ getPidByName("lockscreen-bin") # -1
    /\ shown' = TRUE
    /\ UNCHANGED <<cmdline, stopped, launching, due, files, appsPids, lockscreenPid,
                   pidVector, found>>

(* "Unfreeze it because it's in the list."                                 *)
unfreezeApp ==
    /\ Goto("show", "locked")
    /\ stopped' = stopped \ kill(found)
    /\ found' = -1
    /\ shown' = TRUE
    /\ UNCHANGED <<cmdline, launching, due, files, appsPids, lockscreenPid, pidVector>>

Unlocked ==
    /\ Goto("locked", "thaw")
    /\ getPidByName("lockscreen-bin") = -1
    /\ UNCHANGED <<cmdline, stopped, launching, due, files, appsPids, lockscreenPid,
                   pidVector, found, shown>>

(* -1 is passed on: everybody is continued.                                *)
unfreezeApps ==
    /\ Goto("thaw", "after")
    /\ stopped' = stopped \ UNION {kill(p) : p \in appsPids}
    /\ appsPids' = {}
    /\ UNCHANGED <<cmdline, launching, due, files, lockscreenPid, pidVector, found, shown>>

(* A job told to die does so at its next check.                            *)
Die ==
    /\ job \in {"noLock", "lock", "locked", "thaw"}
    /\ job' = IF job = "noLock" THEN "prepare" ELSE "after"
    /\ UNCHANGED <<cmdline, stopped, launching, due, files, appsPids, lockscreenPid,
                   pidVector, found, shown>>

Jobs ==
    \/ BeginPrepare \/ Collect \/ Collected \/ NoLock
    \/ FreezeBuiltIn \/ FreezeUserApp \/ FreezeXorg \/ FreezeStop
    \/ BeginAfter \/ Lock \/ Launched \/ unfreezeApp \/ Unlocked \/ unfreezeApps \/ Die

-----------------------------------------------------------------------------
(* The rest of the system.                                                 *)

(* One instance of each, except of libraries' users and of X clients.  A   *)
(* number is given again once nobody remembers it; two are kept for the    *)
(* lock screen.                                                            *)
Start ==
    /\ Cardinality(Free) > IF lockscreen THEN 2 ELSE 0
    /\ \E p \in Free, c \in Programs :
           /\ c \in {"library", "client"} \/ \A q \in Pids : cmdline[q] # c
           /\ cmdline' = [cmdline EXCEPT ![p] = c]
    /\ UNCHANGED <<stopped, launching, due, files, daemon>>

(* launch_lockscreen.sh does its work.                                     *)
LockStarts ==
    /\ launching # {} /\ launching' = {}
    /\ \E p \in Free : cmdline' = [cmdline EXCEPT ![p] = "lock"]
    /\ UNCHANGED <<stopped, due, files, daemon>>

(* A process exits, or is killed.  The lock screen is not launched in vain,*)
(* and does not go again while afterSleep is waiting for it to come.       *)
Exit ==
    /\ \E p \in Running \ (launching \cup {1}) :
           /\ ~(job = "launch" /\ cmdline[p] = "lock")
           /\ cmdline' = [cmdline EXCEPT ![p] = "none"]
           /\ stopped' = stopped \ {p} /\ due' = due \ {p}
    /\ UNCHANGED <<launching, files, daemon>>

(* The files follow what the user starts and ends.                         *)
UserAppChanges ==
    /\ userApp' = ~userApp
    /\ due' = {p \in due : cmdline[p] \notin UserClass}
    /\ UNCHANGED <<cmdline, stopped, launching, xProgram, xorgRunning, lockscreen, daemon>>

XProgramChanges ==
    /\ xProgram' = ~xProgram
    /\ due' = {p \in due : cmdline[p] \notin XorgClass}
    /\ UNCHANGED <<cmdline, stopped, launching, userApp, xorgRunning, lockscreen, daemon>>

World == Start \/ LockStarts \/ Exit \/ UserAppChanges \/ XProgramChanges

Next == Jobs \/ World

(* A job runs on, and a lock screen that is launched comes up.             *)
Spec == Init /\ [][Next]_vars /\ WF_vars(Launched) /\ WF_vars(LockStarts)

-----------------------------------------------------------------------------
(* Properties.                                                             *)

AppsTypeOK ==
    /\ cmdline \in [Pids -> Commands]
    /\ {stopped, launching, due} \subseteq SUBSET Running /\ pidVector \subseteq Pids
    /\ appsPids \subseteq Pids \cup {-1}
    /\ lockscreenPid \in Pids \cup {0} /\ found \in Pids \cup {-1}
    /\ job \in {"prepare", "after", "collect", "wait", "noLock", "builtIn", "user", "xorg", "stop",
                "lock", "launch", "show", "locked", "thaw"}
    /\ {userApp, xProgram, xorgRunning, lockscreen, shown} \subseteq BOOLEAN

(* Whatever the daemon has stopped and not continued is on its list, so    *)
(* that the next afterSleep to get that far continues it: over aborted     *)
(* sleeps, and sleeps taken back before the applications were continued.   *)
StoppedAreListed == stopped \subseteq appsPids

(* Nothing is stopped but what sleeps, that is the GUI, the lock screen,   *)
(* the user's application and X clients: not the file system that an       *)
(* application runs from, which would block whoever reads from it, not     *)
(* init, and not the scripts that wait for the lock screen and the GUI.    *)
(* SIGSTOP goes to numbers found earlier, some of them in an earlier sleep *)
(* and one of them perhaps -1.  (The kernel is taken not to give a number  *)
(* again that the daemon still holds: Free.)                               *)
OnlyAppsStopped ==
    \A p \in stopped : cmdline[p] \in {"gui", "lock", "app"} \cup UserClass \cup XorgClass

(* What was running and wanted when freezeApps() began, and still is, is   *)
(* stopped when it ends.                                                   *)
FreezeReaches == [][job = "stop" /\ job' = "prepare" => due \subseteq stopped']_vars

(* With the option on, nothing is continued behind a lock screen that has  *)
(* not been up and running since the device woke.                          *)
LockedFirst == job = "thaw" /\ lockscreen => shown

(* prepareSleep does not wait for a lock screen that only the user could   *)
(* end: the kills go by name, and there may be several scripts of that     *)
(* name, but the one that is waited for has been killed, or its lock       *)
(* screen has, after which it exits (functions.cpp:545).                   *)
WaitsForTheDying ==
    job = "wait" => \/ cmdline[lockscreenPid] = "none"
                    \/ launching = {} /\ Matching("lockscreen-bin") = {}

(* If launching works, afterSleep does not wait for ever.                  *)
LockScreenComes == job = "launch" ~> job = "locked"

-----------------------------------------------------------------------------
(* Searches by name in a changing /proc, lists that outlive aborted jobs   *)
(* and a -1 that means everybody keep the promise of HeldApps all the      *)
(* same: whatever is stopped, except the lock screen, which afterSleep     *)
(* continues on its own, is let go all at once, and after the lock screen. *)
Promise == INSTANCE HeldApps WITH
    alive  <- Running,
    held   <- {p \in stopped : cmdline[p] # "lock"},
    up     <- Matching("lockscreen-bin") # {},
    locked <- lockscreen,
    waking <- CASE lockscreen /\ job \in {"show", "locked"} -> "shown"
                [] lockscreen /\ job = "thaw" -> "left"
                [] OTHER -> "away"

ImplementsHeldApps == Promise!Spec

=============================================================================
