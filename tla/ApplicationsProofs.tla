------------------------- MODULE ApplicationsProofs -------------------------
(***************************************************************************)
(* Theorems about Applications, for any number of processes and whatever   *)
(* the others may start.                                                   *)
(***************************************************************************)
EXTENDS Applications, FiniteSetTheorems, TLAPS

(* What a sleep may stop, and what has exited since it was listed.         *)
Sleepers == {"none", "gui", "lock", "app", "appBin", "library", "client", "damage"}

(* init stays the first process.                                           *)
InitStays == cmdline[1] = "init"

(* There is one process of each of these commands.                         *)
Unique ==
    \A p, q \in Pids :
        cmdline[p] = cmdline[q] /\ cmdline[p] \in {"gui", "lock", "appBin", "damage"} => p = q

(* A lock screen is awaited only if there is none.                         *)
NoneWhileLaunching == launching # {} => \A p \in Pids : cmdline[p] # "lock"

(* What lockscreenPid is good for, and that nobody starts a lock screen    *)
(* but for the job that waits for one.                                     *)
ScriptShape ==
    /\ lockscreenPid # 0 => cmdline[lockscreenPid] \in {"none", "lockScript"}
    /\ job \in {"collect", "wait"} => lockscreenPid # 0
    /\ launching # {} => job = "launch"
    /\ job = "wait" => \A p \in Pids : cmdline[p] # "lock"

(* Nothing but what sleeps gets on the lists.                              *)
Stoppable == \A p \in Pids : p \in appsPids \cup pidVector => cmdline[p] \in Sleepers

(* LockedFirst holds from the moment the lock screen has been seen.        *)
LockSeen == job \in {"locked", "thaw"} /\ lockscreen => shown

(* How far freezeApps() has come with what it has to stop.                 *)
FreezeShape ==
    \A p \in due :
        /\ cmdline[p] \in {"gui", "lock"} \cup UserClass \cup XorgClass
        /\ job \in {"user", "xorg"} /\ cmdline[p] \in {"gui", "lock"} => p \in pidVector
        /\ cmdline[p] \in UserClass
             => userApp /\ (job \in {"xorg", "stop"} => p \in appsPids)
        /\ cmdline[p] \in XorgClass => xorgRunning /\ xProgram
        /\ job = "stop" => p \in appsPids

IInv ==
    /\ AppsTypeOK /\ InitStays /\ Unique /\ NoneWhileLaunching
    /\ ScriptShape /\ Stoppable /\ StoppedAreListed /\ LockSeen /\ FreezeShape

-----------------------------------------------------------------------------
(* The least of some numbers is one of them: of the initial segments that  *)
(* end with one of them, one includes no smaller one.                      *)
LEMMA MinIn ==
    ASSUME NEW S \in SUBSET Nat, S # {}
    PROVE  Min(S) \in S
<1> DEFINE Below == {0 .. n : n \in S}
<1>1. Below \subseteq FiniteSubsetsOf(Nat) /\ Below # {}
  <2>1. ASSUME NEW n \in S PROVE IsFiniteSet(0 .. n) /\ 0 .. n \in SUBSET Nat
    <3>1. n \in Int /\ 0 \in Int
        OBVIOUS
    <3> QED BY <3>1, FS_Interval
  <2> QED BY <2>1 DEF FiniteSubsetsOf
<1>2. PICK B \in Below : \A C \in Below : <<C, B>> \notin StrictSubsetOrdering(Nat)
    BY <1>1, FS_StrictSubsetOrderingWellFounded, WFMin
<1>3. PICK x \in S : B = 0 .. x
    OBVIOUS
<1>4. ASSUME NEW y \in S, y < x PROVE FALSE
  <2>1. /\ 0 .. y \subseteq 0 .. x /\ 0 .. y # 0 .. x
        /\ 0 .. y \in SUBSET Nat /\ 0 .. x \in SUBSET Nat
    <3>1. x \in 0 .. x /\ x \notin 0 .. y
        BY <1>4
    <3> QED BY <1>4, <3>1
  <2>2. <<0 .. y, 0 .. x>> \in StrictSubsetOrdering(Nat)
      BY <2>1 DEF StrictSubsetOrdering
  <2>3. 0 .. y \in Below
      OBVIOUS
  <2> QED BY <2>2, <2>3, <1>2, <1>3
<1>5. \A y \in S : x <= y
    BY <1>4
<1> QED BY <1>5 DEF Min

(* The commands, and which of them each search term finds.                 *)
LEMMA Terms ==
    /\ Commands = {"none", "init", "gui", "guiScript", "lockScript", "lock", "app", "appBin",
                   "mount", "library", "client", "damage"}
    /\ \A c \in Commands :
           /\ "inkbox-bin" \in Contains[c] <=> c = "gui"
           /\ "lockscreen-bin" \in Contains[c] <=> c = "lock"
           /\ "lockscreen" \in Contains[c] <=> c \in {"lock", "lockScript"}
           /\ "launch_lockscreen.sh" \in Contains[c] <=> c = "lockScript"
           /\ "app" \in Contains[c] <=> c \in {"app", "appBin", "mount"}
           /\ "app.bin" \in Contains[c] <=> c = "appBin"
           /\ "squashfuse" \in Contains[c] <=> c = "mount"
           /\ "/system-lib" \in Contains[c] <=> c = "library"
           /\ "X_program" \in Contains[c] <=> c = "client"
           /\ "fbink_xdamage" \in Contains[c] <=> c = "damage"
<1>1. Commands = {"none", "init", "gui", "guiScript", "lockScript", "lock", "app", "appBin",
                  "mount", "library", "client", "damage"}
    BY DEF Commands, Contains
<1>2. ASSUME NEW c \in Commands
      PROVE  /\ "inkbox-bin" \in Contains[c] <=> c = "gui"
             /\ "lockscreen-bin" \in Contains[c] <=> c = "lock"
             /\ "lockscreen" \in Contains[c] <=> c \in {"lock", "lockScript"}
             /\ "launch_lockscreen.sh" \in Contains[c] <=> c = "lockScript"
             /\ "app" \in Contains[c] <=> c \in {"app", "appBin", "mount"}
             /\ "app.bin" \in Contains[c] <=> c = "appBin"
             /\ "squashfuse" \in Contains[c] <=> c = "mount"
             /\ "/system-lib" \in Contains[c] <=> c = "library"
             /\ "X_program" \in Contains[c] <=> c = "client"
             /\ "fbink_xdamage" \in Contains[c] <=> c = "damage"
    BY <1>1 DEF Contains
<1> QED BY <1>1, <1>2

(* A search gives a process that matches and is no mounted image, or -1.   *)
LEMMA Found ==
    ASSUME NEW term
    PROVE  /\ getPidByName(term) \in (Matching(term) \ Mounts) \cup {-1}
           /\ \A p \in Matching(term) \ Mounts :
                  (\A q \in Matching(term) : q = p) => getPidByName(term) = p
<1>1. Matching(term) \in SUBSET Nat
    BY ApplicationsAssumption DEF Matching, Pids
<1>2. Matching(term) # {} => Min(Matching(term)) \in Matching(term)
    BY <1>1, MinIn
<1> QED BY <1>2 DEF getPidByName

(* What each search of freezeApps() may give.                              *)
LEMMA Listed ==
    ASSUME AppsTypeOK
    PROVE  /\ \A t \in getBuiltInAppsList : \A p \in Pids :
                  p = getPidByName(t) => cmdline[p] \in {"gui", "lock"}
           /\ \A p \in Pids : p \in getRunningUserApp
                                => cmdline[p] \in {"app", "appBin", "library"}
           /\ \A p \in Pids : p \in getRunningXorgPrograms
                                => cmdline[p] \in {"client", "damage"}
           /\ getRunningUserApp \subseteq Pids \cup {-1}
           /\ getRunningXorgPrograms \subseteq Pids
           /\ \A t : getPidByName(t) \in Pids \cup {-1}
<1>1. \A p \in Pids : cmdline[p] \in Commands /\ p # -1
    BY ApplicationsAssumption DEF AppsTypeOK, Pids
<1>2. \A t : getPidByName(t) \in (Matching(t) \ Mounts) \cup {-1}
    BY Found
<1>3. \A t \in getBuiltInAppsList : \A p \in Pids :
          p = getPidByName(t) => cmdline[p] \in {"gui", "lock"}
    BY <1>1, <1>2, Terms DEF getBuiltInAppsList, Matching
<1>4. \A p \in Pids : p \in getRunningUserApp => cmdline[p] \in {"app", "appBin", "library"}
    BY <1>1, <1>2, Terms DEF getRunningUserApp, getPidsByNameAll, Matching, Mounts
<1>5. \A p \in Pids : p \in getRunningXorgPrograms => cmdline[p] \in {"client", "damage"}
    BY <1>1, <1>2, Terms DEF getRunningXorgPrograms, getPidsByNameAll, Matching
<1>6. \A t : getPidByName(t) \in Pids \cup {-1} /\ getPidsByNameAll(t) \subseteq Pids
    BY <1>2 DEF Matching, getPidsByNameAll
<1>7. getRunningUserApp \subseteq Pids \cup {-1} /\ getRunningXorgPrograms \subseteq Pids
    BY <1>6 DEF getRunningUserApp, getRunningXorgPrograms
<1> QED BY <1>3, <1>4, <1>5, <1>6, <1>7

-----------------------------------------------------------------------------
(* Killing by name ends processes and does nothing else to the commands.   *)
LEMMA Killed ==
    ASSUME NEW c \in [Pids -> Commands], NEW term
    PROVE  /\ KilledOne(c, term) \in [Pids -> Commands]
           /\ \A p \in Pids : KilledOne(c, term)[p] \in {c[p], "none"}
           /\ \A p \in Pids : term \notin Contains[c[p]] => KilledOne(c, term)[p] = c[p]
           /\ \A p \in Pids :
                  /\ term \in Contains[c[p]] /\ p \notin Mounts
                  /\ \A q \in Pids : term \in Contains[c[q]] => q = p
                  => KilledOne(c, term)[p] = "none"
<1> DEFINE all == {p \in Pids : term \in Contains[c[p]]}
<1>1. all \in SUBSET Nat
    BY DEF Pids
<1>2. all # {} => Min(all) \in all
    BY <1>1, MinIn
<1>3. "none" \in Commands
    BY Terms
<1>4. KilledOne(c, term) \in {c, [c EXCEPT ![Min(all)] = "none"]}
    BY DEF KilledOne
<1>5. KilledOne(c, term) # c => all # {}
    BY DEF KilledOne
<1>6. KilledOne(c, term) \in [Pids -> Commands]
    BY <1>3, <1>4
<1>7. \A p \in Pids : KilledOne(c, term)[p] \in {c[p], "none"}
    BY <1>4
<1>8. ASSUME NEW p \in Pids, term \notin Contains[c[p]]
      PROVE  KilledOne(c, term)[p] = c[p]
  <2>1. CASE KilledOne(c, term) = c
      BY <2>1
  <2>2. CASE KilledOne(c, term) # c
    <3>1. Min(all) # p
        BY <1>2, <1>5, <1>8, <2>2
    <3> QED BY <3>1, <1>4
  <2> QED BY <2>1, <2>2
<1>9. ASSUME NEW p \in Pids, term \in Contains[c[p]], p \notin Mounts,
             \A q \in Pids : term \in Contains[c[q]] => q = p
      PROVE  KilledOne(c, term)[p] = "none"
  <2>1. p \in all /\ Min(all) = p
      BY <1>2, <1>9
  <2>2. KilledOne(c, term) = [c EXCEPT ![p] = "none"]
      BY <2>1, <1>9 DEF KilledOne
  <2> QED BY <2>2
<1> QED BY <1>6, <1>7, <1>8, <1>9

(* What three kills in turn leave of the invariant.                        *)
LEMMA KilledThree ==
    ASSUME IInv, NEW first, NEW second, NEW third, killProcesses(first, second, third)
    PROVE  /\ cmdline' \in [Pids -> Commands]
           /\ \A p \in Pids : cmdline'[p] \in {cmdline[p], "none"}
           /\ InitStays'
           /\ stopped' = stopped \cap Running' /\ due' = due \cap Running'
           /\ launching' = launching \cap Running'
<1>1. cmdline \in [Pids -> Commands] /\ 1 \in Pids
    BY ApplicationsAssumption DEF IInv, AppsTypeOK, Pids
<1> DEFINE c1 == KilledOne(cmdline, first)
           c2 == KilledOne(c1, second)
<1>2. c1 \in [Pids -> Commands] /\ \A p \in Pids : c1[p] \in {cmdline[p], "none"}
    BY <1>1, Killed
<1>3. c2 \in [Pids -> Commands] /\ \A p \in Pids : c2[p] \in {c1[p], "none"}
    BY <1>2, Killed
<1>4. cmdline' = KilledOne(c2, third)
    BY DEF killProcesses
<1>5. cmdline' \in [Pids -> Commands] /\ \A p \in Pids : cmdline'[p] \in {c2[p], "none"}
    BY <1>3, <1>4, Killed
<1>6. \A p \in Pids : cmdline'[p] \in {cmdline[p], "none"}
    BY <1>2, <1>3, <1>5
<1>7. Contains["init"] = {}
    BY DEF Contains
<1>8. InitStays'
  <2>1. cmdline[1] = "init"
      BY DEF IInv, InitStays
  <2>2. c1[1] = "init"
      BY <1>1, <1>7, <2>1, Killed
  <2>3. c2[1] = "init"
      BY <1>1, <1>2, <1>7, <2>2, Killed
  <2>4. cmdline'[1] = "init"
      BY <1>1, <1>3, <1>4, <1>7, <2>3, Killed
  <2> QED BY <2>4 DEF InitStays
<1>9. /\ stopped \subseteq Pids /\ due \subseteq Pids /\ launching \subseteq Pids
    BY DEF IInv, AppsTypeOK, Running
<1>10. /\ stopped' = stopped \cap Running' /\ due' = due \cap Running'
       /\ launching' = launching \cap Running'
    BY <1>9 DEF killProcesses, Running
<1> QED BY <1>5, <1>6, <1>8, <1>10

-----------------------------------------------------------------------------
(* Steps.                                                                  *)

LEMMA InitInv == Init => IInv
<1> SUFFICES ASSUME Init PROVE IInv
    OBVIOUS
<1>1. /\ \A p \in Pids : cmdline[p] \in {"init", "lockScript", "lock", "none"}
      /\ \A p \in Pids : cmdline[p] = "lockScript" => p = 2
      /\ \A p \in Pids : cmdline[p] = "lock" => p = 3
      /\ cmdline[1] = "init" /\ cmdline = [p \in Pids |-> cmdline[p]]
    BY ApplicationsAssumption DEF Init, Pids
<1>2. cmdline \in [Pids -> Commands]
    BY <1>1, Terms
<1>3. AppsTypeOK
    BY <1>2 DEF Init, AppsTypeOK
<1>4. InitStays /\ Unique /\ NoneWhileLaunching
    BY <1>1 DEF Init, InitStays, Unique, NoneWhileLaunching
<1>5. ScriptShape /\ Stoppable /\ StoppedAreListed /\ LockSeen /\ FreezeShape
    BY DEF Init, ScriptShape, Stoppable, StoppedAreListed, LockSeen, FreezeShape
<1> QED BY <1>3, <1>4, <1>5 DEF IInv

(* Steps at which no process comes or goes.                                *)
LEMMA Quiet ==
    ASSUME IInv, UNCHANGED <<cmdline, launching, lockscreenPid>>
    PROVE  InitStays' /\ Unique' /\ NoneWhileLaunching'
BY DEF IInv, InitStays, Unique, NoneWhileLaunching

(* Steps at which processes end and nothing else comes of it.              *)
LEMMA Ended ==
    ASSUME IInv, cmdline' \in [Pids -> Commands],
           \A p \in Pids : cmdline'[p] \in {cmdline[p], "none"},
           launching' \subseteq launching, UNCHANGED lockscreenPid
    PROVE  Unique' /\ NoneWhileLaunching'
<1>1. Unique'
    BY DEF IInv, Unique
<1>2. NoneWhileLaunching'
    BY DEF IInv, NoneWhileLaunching
<1> QED BY <1>1, <1>2

(* Whatever a sleep has to stop is found.                                  *)
LEMMA Reached ==
    ASSUME IInv, NEW p \in Pids
    PROVE  /\ cmdline[p] \in {"gui", "lock"} => \E t \in getBuiltInAppsList : p = getPidByName(t)
           /\ cmdline[p] \in UserClass => p \in getRunningUserApp
           /\ cmdline[p] \in XorgClass /\ xorgRunning /\ xProgram => p \in getRunningXorgPrograms
<1>1. \A q \in Pids : cmdline[q] \in Commands
    BY DEF IInv, AppsTypeOK
<1>2. Unique /\ p # -1
    BY ApplicationsAssumption DEF IInv, Pids
<1>3. cmdline[p] # "mount" => p \notin Mounts
    BY <1>1, Terms DEF Mounts, Matching
<1>4. cmdline[p] = "gui" => getPidByName("inkbox-bin") = p
    BY <1>1, <1>2, <1>3, Terms, Found DEF Unique, Matching
<1>5. cmdline[p] = "lock" => getPidByName("lockscreen-bin") = p
    BY <1>1, <1>2, <1>3, Terms, Found DEF Unique, Matching
<1>6. cmdline[p] = "appBin" => getPidByName("app.bin") = p
    BY <1>1, <1>2, <1>3, Terms, Found DEF Unique, Matching
<1>7. cmdline[p] = "damage" => getPidByName("fbink_xdamage") = p
    BY <1>1, <1>2, <1>3, Terms, Found DEF Unique, Matching
<1>8. /\ cmdline[p] = "library" => p \in getPidsByNameAll("/system-lib")
      /\ cmdline[p] = "client" => p \in getPidsByNameAll("X_program")
    BY <1>1, <1>3, Terms DEF getPidsByNameAll, Matching
<1>9. cmdline[p] \in {"gui", "lock"} => \E t \in getBuiltInAppsList : p = getPidByName(t)
    BY <1>4, <1>5 DEF getBuiltInAppsList
<1>10. cmdline[p] \in UserClass => p \in getRunningUserApp
    BY <1>2, <1>6, <1>8 DEF getRunningUserApp, UserClass
<1>11. cmdline[p] \in XorgClass /\ xorgRunning /\ xProgram => p \in getRunningXorgPrograms
    BY <1>2, <1>7, <1>8 DEF getRunningXorgPrograms, XorgClass
<1> QED BY <1>9, <1>10, <1>11

(* SIGSTOP to a list reaches the listed, except init, and nobody else.     *)
LEMMA StopsListed ==
    ASSUME IInv
    PROVE  killLogger(appsPids) = {p \in Running : p \in appsPids /\ p # 1}
<1>1. Running \subseteq Pids /\ \A p \in Pids : p \in Nat /\ p > 0
    BY DEF Running, Pids
<1>2. appsPids \subseteq Pids \cup {-1}
    BY DEF IInv, AppsTypeOK
<1>3. {q \in appsPids : q > 1} = {q \in appsPids : q \in Pids /\ q # 1}
    BY <1>1, <1>2
<1>4. \A p \in Pids : kill(p) = {p} \cap Running
    BY <1>1 DEF kill
<1> QED BY <1>1, <1>3, <1>4 DEF killLogger

(* SIGCONT to a list reaches all that is stopped, if all that is on it.    *)
LEMMA ContinuesListed ==
    ASSUME IInv
    PROVE  stopped \subseteq UNION {kill(p) : p \in appsPids}
<1>1. stopped \subseteq Running /\ stopped \subseteq appsPids
    BY DEF IInv, AppsTypeOK, StoppedAreListed
<1>2. \A p \in Running : kill(p) = {p}
    BY DEF kill, Running, Pids
<1> QED BY <1>1, <1>2

(* A step of a job at which no process comes or goes.                      *)
LEMMA QuietStep ==
    ASSUME IInv,
           \/ BeginPrepare \/ FreezeBuiltIn \/ FreezeUserApp \/ FreezeXorg \/ FreezeStop
           \/ BeginAfter \/ Launched \/ unfreezeApp \/ Unlocked \/ unfreezeApps \/ Die
    PROVE  IInv'
<1>1. CASE BeginPrepare
  <2> USE <1>1 DEF BeginPrepare, Goto, files
  <2>1. AppsTypeOK'
      BY DEF IInv, AppsTypeOK, Running
  <2>2. InitStays' /\ Unique' /\ NoneWhileLaunching'
      BY Quiet
  <2>3. ScriptShape' /\ LockSeen'
      BY DEF IInv, ScriptShape, LockSeen
  <2>4. Stoppable' /\ StoppedAreListed'
      BY DEF IInv, Stoppable, StoppedAreListed
  <2>5. FreezeShape'
      BY DEF IInv, FreezeShape
  <2> QED BY <2>1, <2>2, <2>3, <2>4, <2>5 DEF IInv
<1>2. CASE FreezeBuiltIn
  <2> USE <1>2 DEF FreezeBuiltIn, Goto, files
  <2>1. AppsTypeOK'
    <3>1. pidVector' \subseteq Pids
        BY Listed DEF IInv
    <3>2. Wanted \subseteq Running
        BY DEF Wanted, Running, UserClass, XorgClass
    <3> QED BY <3>1, <3>2 DEF IInv, AppsTypeOK, Running
  <2>2. InitStays' /\ Unique' /\ NoneWhileLaunching'
      BY Quiet
  <2>3. ScriptShape' /\ LockSeen'
      BY DEF IInv, ScriptShape, LockSeen
  <2>4. Stoppable' /\ StoppedAreListed'
    <3>1. \A p \in Pids : p \in pidVector' => cmdline[p] \in {"gui", "lock"}
        BY Listed DEF IInv
    <3> QED BY <3>1 DEF IInv, Stoppable, StoppedAreListed, Sleepers
  <2>5. FreezeShape'
    <3>1. \A p \in Pids : cmdline[p] \in {"gui", "lock"} => p \in pidVector'
        BY Reached, ApplicationsAssumption DEF Pids
    <3> QED BY <3>1 DEF FreezeShape, Wanted, UserClass, XorgClass
  <2> QED BY <2>1, <2>2, <2>3, <2>4, <2>5 DEF IInv
<1>3. CASE FreezeUserApp
  <2> USE <1>3 DEF FreezeUserApp, Goto, files
  <2>1. AppsTypeOK'
      BY Listed DEF IInv, AppsTypeOK, Running
  <2>2. InitStays' /\ Unique' /\ NoneWhileLaunching'
      BY Quiet
  <2>3. ScriptShape' /\ LockSeen'
      BY DEF IInv, ScriptShape, LockSeen
  <2>4. Stoppable' /\ StoppedAreListed'
    <3>1. \A p \in Pids : p \in getRunningUserApp => cmdline[p] \in Sleepers
        BY Listed DEF IInv, Sleepers
    <3> QED BY <3>1 DEF IInv, Stoppable, StoppedAreListed
  <2>5. FreezeShape'
    <3>1. \A p \in due : cmdline[p] \in UserClass => p \in appsPids'
        BY Reached DEF IInv, FreezeShape, AppsTypeOK, Running
    <3> QED BY <3>1 DEF IInv, FreezeShape
  <2> QED BY <2>1, <2>2, <2>3, <2>4, <2>5 DEF IInv
<1>4. CASE FreezeXorg
  <2> USE <1>4 DEF FreezeXorg, Goto, files
  <2>1. AppsTypeOK'
      BY Listed DEF IInv, AppsTypeOK, Running
  <2>2. InitStays' /\ Unique' /\ NoneWhileLaunching'
      BY Quiet
  <2>3. ScriptShape' /\ LockSeen'
      BY DEF IInv, ScriptShape, LockSeen
  <2>4. Stoppable' /\ StoppedAreListed'
    <3>1. \A p \in Pids : p \in getRunningXorgPrograms => cmdline[p] \in Sleepers
        BY Listed DEF IInv, Sleepers
    <3> QED BY <3>1 DEF IInv, Stoppable, StoppedAreListed
  <2>5. FreezeShape'
    <3>1. due \subseteq appsPids'
        BY Reached DEF IInv, FreezeShape, AppsTypeOK, Running
    <3> QED BY <3>1 DEF IInv, FreezeShape
  <2> QED BY <2>1, <2>2, <2>3, <2>4, <2>5 DEF IInv
<1>5. CASE FreezeStop
  <2> USE <1>5 DEF FreezeStop, Goto, files
  <2>1. AppsTypeOK'
      BY StopsListed DEF IInv, AppsTypeOK, Running
  <2>2. InitStays' /\ Unique' /\ NoneWhileLaunching'
      BY Quiet
  <2>3. ScriptShape' /\ LockSeen'
      BY DEF IInv, ScriptShape, LockSeen
  <2>4. Stoppable' /\ StoppedAreListed'
      BY StopsListed DEF IInv, Stoppable, StoppedAreListed
  <2>5. FreezeShape'
      BY DEF FreezeShape
  <2> QED BY <2>1, <2>2, <2>3, <2>4, <2>5 DEF IInv
<1>6. CASE BeginAfter
  <2> USE <1>6 DEF BeginAfter, Goto, files
  <2>1. AppsTypeOK'
      BY DEF IInv, AppsTypeOK, Running
  <2>2. InitStays' /\ Unique' /\ NoneWhileLaunching'
      BY Quiet
  <2>3. ScriptShape' /\ LockSeen'
      BY DEF IInv, ScriptShape, LockSeen
  <2>4. Stoppable' /\ StoppedAreListed'
      BY DEF IInv, Stoppable, StoppedAreListed
  <2>5. FreezeShape'
      BY DEF IInv, FreezeShape
  <2> QED BY <2>1, <2>2, <2>3, <2>4, <2>5 DEF IInv
<1>7. CASE Launched
  <2> USE <1>7 DEF Launched, Goto, files
  <2>1. AppsTypeOK'
      BY DEF IInv, AppsTypeOK, Running
  <2>2. InitStays' /\ Unique' /\ NoneWhileLaunching'
      BY Quiet
  <2>3. launching = {}
    <3>1. \E p \in Pids : "lockscreen-bin" \in Contains[cmdline[p]]
        BY Found DEF Matching
    <3>2. \A p \in Pids : cmdline[p] \in Commands
        BY DEF IInv, AppsTypeOK
    <3>3. \E p \in Pids : cmdline[p] = "lock"
        BY <3>1, <3>2, Terms
    <3> QED BY <3>3 DEF IInv, NoneWhileLaunching
  <2>6. ScriptShape' /\ LockSeen'
      BY <2>3 DEF IInv, ScriptShape, LockSeen
  <2>4. Stoppable' /\ StoppedAreListed'
      BY DEF IInv, Stoppable, StoppedAreListed
  <2>5. FreezeShape'
      BY DEF IInv, FreezeShape
  <2> QED BY <2>1, <2>2, <2>4, <2>5, <2>6 DEF IInv
<1>8. CASE unfreezeApp
  <2> USE <1>8 DEF unfreezeApp, Goto, files
  <2>1. AppsTypeOK'
      BY DEF IInv, AppsTypeOK, Running
  <2>2. InitStays' /\ Unique' /\ NoneWhileLaunching'
      BY Quiet
  <2>3. ScriptShape' /\ LockSeen'
      BY DEF IInv, ScriptShape, LockSeen
  <2>4. Stoppable' /\ StoppedAreListed'
      BY DEF IInv, Stoppable, StoppedAreListed
  <2>5. FreezeShape'
      BY DEF IInv, FreezeShape
  <2> QED BY <2>1, <2>2, <2>3, <2>4, <2>5 DEF IInv
<1>9. CASE Unlocked
  <2> USE <1>9 DEF Unlocked, Goto, files
  <2>1. AppsTypeOK'
      BY DEF IInv, AppsTypeOK, Running
  <2>2. InitStays' /\ Unique' /\ NoneWhileLaunching'
      BY Quiet
  <2>3. ScriptShape' /\ LockSeen'
      BY DEF IInv, ScriptShape, LockSeen
  <2>4. Stoppable' /\ StoppedAreListed'
      BY DEF IInv, Stoppable, StoppedAreListed
  <2>5. FreezeShape'
      BY DEF IInv, FreezeShape
  <2> QED BY <2>1, <2>2, <2>3, <2>4, <2>5 DEF IInv
<1>10. CASE unfreezeApps
  <2> USE <1>10 DEF unfreezeApps, Goto, files
  <2>1. AppsTypeOK'
      BY DEF IInv, AppsTypeOK, Running
  <2>2. InitStays' /\ Unique' /\ NoneWhileLaunching'
      BY Quiet
  <2>3. ScriptShape' /\ LockSeen'
      BY DEF IInv, ScriptShape, LockSeen
  <2>4. Stoppable' /\ StoppedAreListed'
      BY ContinuesListed DEF IInv, Stoppable, StoppedAreListed
  <2>5. FreezeShape'
      BY DEF IInv, FreezeShape
  <2> QED BY <2>1, <2>2, <2>3, <2>4, <2>5 DEF IInv
<1>11. CASE Die
  <2> USE <1>11 DEF Die, Goto, files
  <2>1. AppsTypeOK'
      BY DEF IInv, AppsTypeOK, Running
  <2>2. InitStays' /\ Unique' /\ NoneWhileLaunching'
      BY Quiet
  <2>3. ScriptShape' /\ LockSeen'
      BY DEF IInv, ScriptShape, LockSeen
  <2>4. Stoppable' /\ StoppedAreListed'
      BY DEF IInv, Stoppable, StoppedAreListed
  <2>5. FreezeShape'
      BY DEF IInv, FreezeShape
  <2> QED BY <2>1, <2>2, <2>3, <2>4, <2>5 DEF IInv
<1> QED BY <1>1, <1>2, <1>3, <1>4, <1>5, <1>6, <1>7, <1>8, <1>9, <1>10, <1>11

(* What has been killed is on no account any more, and nothing is added.   *)
LEMMA KilledShape ==
    ASSUME IInv, cmdline' \in [Pids -> Commands],
           \A p \in Pids : cmdline'[p] \in {cmdline[p], "none"},
           stopped' = stopped \cap Running', due' = due \cap Running',
           launching' = launching \cap Running',
           UNCHANGED <<files, appsPids, lockscreenPid, pidVector, found, shown>>
    PROVE  /\ {stopped', due', launching'} \subseteq SUBSET Running'
           /\ Unique' /\ NoneWhileLaunching'
           /\ Stoppable' /\ StoppedAreListed'
           /\ \A p \in due' : p \in due /\ cmdline'[p] = cmdline[p]
           /\ lockscreenPid # 0 => cmdline'[lockscreenPid] \in {"none", "lockScript"}
<1>1. launching' \subseteq launching
    OBVIOUS
<1>2. Unique' /\ NoneWhileLaunching'
    BY <1>1, Ended
<1>3. Stoppable' /\ StoppedAreListed'
    BY DEF IInv, Stoppable, StoppedAreListed, Sleepers
<1>4. \A p \in due' : p \in due /\ cmdline'[p] = cmdline[p]
    BY DEF Running
<1>5. lockscreenPid # 0 => cmdline'[lockscreenPid] \in {"none", "lockScript"}
    BY DEF IInv, AppsTypeOK, ScriptShape
<1> QED BY <1>2, <1>3, <1>4, <1>5

(* The first of the three kills of prepareSleep ends the lock screen.      *)
LEMMA LockKilled ==
    ASSUME IInv, killProcesses("lockscreen-bin", "lockscreen", "launch_lockscreen.sh")
    PROVE  \A p \in Pids : cmdline'[p] # "lock"
<1> DEFINE c1 == KilledOne(cmdline, "lockscreen-bin")
           c2 == KilledOne(c1, "lockscreen")
<1>1. cmdline \in [Pids -> Commands]
    BY DEF IInv, AppsTypeOK
<1>2. c1 \in [Pids -> Commands] /\ \A p \in Pids : c1[p] \in {cmdline[p], "none"}
    BY <1>1, Killed
<1>3. c2 \in [Pids -> Commands] /\ \A p \in Pids : c2[p] \in {c1[p], "none"}
    BY <1>2, Killed
<1>4. cmdline' = KilledOne(c2, "launch_lockscreen.sh")
    BY DEF killProcesses
<1>5. \A p \in Pids : cmdline'[p] \in {c1[p], "none"}
    BY <1>3, <1>4, Killed
<1>6. ASSUME NEW p \in Pids, cmdline'[p] = "lock" PROVE FALSE
  <2>1. c1[p] = "lock" /\ cmdline[p] = "lock"
      BY <1>2, <1>5, <1>6
  <2>2. /\ "lockscreen-bin" \in Contains[cmdline[p]] /\ p \notin Mounts
        /\ \A q \in Pids : "lockscreen-bin" \in Contains[cmdline[q]] => q = p
      BY <1>1, <2>1, Terms DEF IInv, Unique, Mounts, Matching
  <2>3. c1[p] = "none"
      BY <1>1, <2>2, Killed
  <2> QED BY <2>1, <2>3
<1> QED BY <1>6

(* A step of a job at which processes come or go.                          *)
LEMMA KillStep ==
    ASSUME IInv, Collect \/ Collected \/ NoLock \/ Lock
    PROVE  IInv'
<1>1. CASE Collect
  <2> USE <1>1 DEF Collect, Goto
  <2>1. killProcesses("lockscreen-bin", "lockscreen", "launch_lockscreen.sh")
      OBVIOUS
  <2>2. /\ cmdline' \in [Pids -> Commands] /\ InitStays'
        /\ \A p \in Pids : cmdline'[p] \in {cmdline[p], "none"}
        /\ stopped' = stopped \cap Running' /\ due' = due \cap Running'
        /\ launching' = launching \cap Running'
      BY <2>1, KilledThree
  <2>3. /\ {stopped', due', launching'} \subseteq SUBSET Running'
        /\ Unique' /\ NoneWhileLaunching' /\ Stoppable' /\ StoppedAreListed'
        /\ \A p \in due' : p \in due /\ cmdline'[p] = cmdline[p]
        /\ lockscreenPid # 0 => cmdline'[lockscreenPid] \in {"none", "lockScript"}
      BY <2>2, KilledShape
  <2>4. AppsTypeOK'
      BY <2>2, <2>3 DEF IInv, AppsTypeOK, files
  <2>5. lockscreenPid # 0
      BY DEF IInv, ScriptShape
  <2>6. \A p \in Pids : cmdline'[p] # "lock"
      BY <2>1, LockKilled
  <2>7. ScriptShape' /\ LockSeen'
    <3>1. launching' = {}
        BY <2>2 DEF IInv, ScriptShape
    <3> QED BY <2>3, <2>5, <2>6, <3>1 DEF ScriptShape, LockSeen
  <2>8. FreezeShape'
      BY <2>3 DEF IInv, FreezeShape, files
  <2> QED BY <2>2, <2>3, <2>4, <2>7, <2>8 DEF IInv
<1>2. CASE Collected
  <2> USE <1>2 DEF Collected, Goto, files
  <2>1. AppsTypeOK'
      BY DEF IInv, AppsTypeOK, Running
  <2>2. InitStays' /\ Unique' /\ NoneWhileLaunching'
      BY DEF IInv, InitStays, Unique, NoneWhileLaunching
  <2>4. ScriptShape' /\ LockSeen' /\ Stoppable' /\ StoppedAreListed'
      BY DEF IInv, ScriptShape, LockSeen, Stoppable, StoppedAreListed
  <2>5. FreezeShape'
      BY DEF IInv, FreezeShape
  <2> QED BY <2>1, <2>2, <2>4, <2>5 DEF IInv
<1>3. CASE NoLock
  <2> USE <1>3 DEF NoLock, Goto
  <2>1. /\ cmdline' \in [Pids -> Commands] /\ InitStays'
        /\ \A p \in Pids : cmdline'[p] \in {cmdline[p], "none"}
        /\ stopped' = stopped \cap Running' /\ due' = due \cap Running'
        /\ launching' = launching \cap Running'
    <3>1. CASE getPidByName("inkbox.sh") = -1
        BY <3>1, KilledThree
    <3>2. CASE getPidByName("inkbox.sh") # -1
        BY <3>2 DEF IInv, AppsTypeOK, InitStays, Running
    <3> QED BY <3>1, <3>2
  <2>2. /\ {stopped', due', launching'} \subseteq SUBSET Running'
        /\ Unique' /\ NoneWhileLaunching' /\ Stoppable' /\ StoppedAreListed'
        /\ \A p \in due' : p \in due /\ cmdline'[p] = cmdline[p]
        /\ lockscreenPid # 0 => cmdline'[lockscreenPid] \in {"none", "lockScript"}
      BY <2>1, KilledShape
  <2>3. AppsTypeOK'
      BY <2>1, <2>2 DEF IInv, AppsTypeOK, files
  <2>4. ScriptShape' /\ LockSeen'
    <3>1. launching' = {}
        BY <2>1 DEF IInv, ScriptShape
    <3> QED BY <2>2, <3>1 DEF files, ScriptShape, LockSeen
  <2>5. FreezeShape'
      BY <2>2 DEF IInv, FreezeShape, files
  <2> QED BY <2>1, <2>2, <2>3, <2>4, <2>5 DEF IInv
<1>4. CASE Lock
  <2> USE DEF files
  <2>1. CASE getPidByName("lockscreen-bin") # -1
    <3> USE <1>4, <2>1 DEF Lock
    <3>1. AppsTypeOK'
        BY Listed DEF IInv, AppsTypeOK, Running
    <3>2. InitStays' /\ Unique' /\ NoneWhileLaunching'
        BY Quiet
    <3>3. ScriptShape' /\ LockSeen' /\ Stoppable' /\ StoppedAreListed' /\ FreezeShape'
        BY DEF IInv, ScriptShape, LockSeen, Stoppable, StoppedAreListed, FreezeShape
    <3> QED BY <3>1, <3>2, <3>3 DEF IInv
  <2>2. CASE getPidByName("lockscreen-bin") = -1
    <3>1. PICK new \in Free : /\ cmdline' = [cmdline EXCEPT ![new] = "lockScript"]
                              /\ lockscreenPid' = new
                              /\ launching' = launching \cup {new}
        BY <1>4, <2>2 DEF Lock
    <3>2. /\ job = "lock" /\ job' = "launch" /\ found' \in Pids \cup {-1}
          /\ UNCHANGED <<stopped, due, files, appsPids, pidVector, shown>>
        BY <1>4, <2>2, Listed DEF Lock, IInv
    <3>3. /\ new \in Pids /\ cmdline[new] = "none" /\ new \notin appsPids \cup pidVector
          /\ cmdline \in [Pids -> Commands] /\ new # 0 /\ new # 1
        BY <3>1, <3>2 DEF Free, IInv, AppsTypeOK, Pids, InitStays
    <3>4. /\ cmdline' \in [Pids -> Commands] /\ cmdline'[new] = "lockScript"
          /\ \A p \in Pids \ {new} : cmdline'[p] = cmdline[p]
          /\ \A p \in Pids : cmdline[p] # "lock"
      <4>1. "lockScript" \in Commands
          BY Terms
      <4>2. ASSUME NEW p \in Pids, cmdline[p] = "lock" PROVE FALSE
        <5>1. \A t \in getBuiltInAppsList : p = getPidByName(t) => t = "lockscreen-bin"
            BY <4>2, Found, Terms, <3>3, ApplicationsAssumption
               DEF getBuiltInAppsList, Matching, Pids
        <5>2. getPidByName("lockscreen-bin") = p
            BY <4>2, <5>1, Reached
        <5> QED BY <2>2, <5>2 DEF Pids
      <4> QED BY <3>1, <3>3, <4>1, <4>2
    <3>5. AppsTypeOK'
        BY <3>1, <3>2, <3>3, <3>4 DEF IInv, AppsTypeOK, Running
    <3>6. InitStays' /\ Unique' /\ NoneWhileLaunching'
        BY <3>3, <3>4, ApplicationsAssumption
           DEF IInv, InitStays, Unique, NoneWhileLaunching, Pids
    <3>8. ScriptShape' /\ LockSeen'
        BY <3>1, <3>2, <3>4 DEF ScriptShape, LockSeen
    <3>9. Stoppable' /\ StoppedAreListed'
        BY <3>2, <3>3, <3>4 DEF IInv, Stoppable, StoppedAreListed
    <3>10. \A p \in due : p \in Pids \ {new}
        BY <3>3 DEF IInv, AppsTypeOK, Running
    <3>11. FreezeShape'
        BY <3>2, <3>4, <3>10 DEF IInv, FreezeShape
    <3> QED BY <3>5, <3>6, <3>8, <3>9, <3>11 DEF IInv
  <2> QED BY <2>1, <2>2
<1> QED BY <1>1, <1>2, <1>3, <1>4

(* A step of anybody else.                                                 *)
LEMMA WorldStep ==
    ASSUME IInv, World
    PROVE  IInv'
<1> USE DEF files, daemon
<1>1. CASE Start
  <2>1. PICK new \in Free, c \in Programs :
            /\ c \in {"library", "client"} \/ \A q \in Pids : cmdline[q] # c
            /\ cmdline' = [cmdline EXCEPT ![new] = c]
      BY <1>1 DEF Start
  <2>2. UNCHANGED <<stopped, launching, due, files, daemon>>
      BY <1>1 DEF Start
  <2>3. /\ new \in Pids /\ cmdline[new] = "none" /\ new \notin appsPids \cup pidVector
        /\ cmdline \in [Pids -> Commands] /\ new # lockscreenPid /\ new # 1
        /\ c \in Commands \ {"none", "init", "lock"}
      BY <2>1, ApplicationsAssumption DEF Free, IInv, AppsTypeOK, InitStays
  <2>4. /\ cmdline' \in [Pids -> Commands] /\ cmdline'[new] = c
        /\ \A p \in Pids \ {new} : cmdline'[p] = cmdline[p]
      BY <2>1, <2>3
  <2>5. AppsTypeOK'
      BY <2>2, <2>3, <2>4 DEF IInv, AppsTypeOK, Running
  <2>6. InitStays' /\ NoneWhileLaunching'
      BY <2>2, <2>3, <2>4, ApplicationsAssumption DEF IInv, InitStays, NoneWhileLaunching, Pids
  <2>7. Unique'
      BY <2>1, <2>3, <2>4 DEF IInv, Unique
  <2>9. ScriptShape' /\ LockSeen'
      BY <2>2, <2>3, <2>4 DEF IInv, ScriptShape, LockSeen, AppsTypeOK
  <2>10. Stoppable' /\ StoppedAreListed'
      BY <2>2, <2>3, <2>4 DEF IInv, Stoppable, StoppedAreListed
  <2>11. \A p \in due : p \in Pids \ {new}
      BY <2>3 DEF IInv, AppsTypeOK, Running
  <2>12. FreezeShape'
      BY <2>2, <2>4, <2>11 DEF IInv, FreezeShape
  <2> QED BY <2>5, <2>6, <2>7, <2>9, <2>10, <2>12 DEF IInv
<1>2. CASE LockStarts
  <2>1. PICK new \in Free : cmdline' = [cmdline EXCEPT ![new] = "lock"]
      BY <1>2 DEF LockStarts
  <2>2. launching # {} /\ launching' = {} /\ UNCHANGED <<stopped, due, files, daemon>>
      BY <1>2 DEF LockStarts
  <2>3. /\ new \in Pids /\ cmdline[new] = "none" /\ new \notin appsPids \cup pidVector
        /\ cmdline \in [Pids -> Commands] /\ new # lockscreenPid /\ new # 1
      BY <2>1 DEF Free, IInv, AppsTypeOK, InitStays
  <2>4. /\ cmdline' \in [Pids -> Commands] /\ cmdline'[new] = "lock"
        /\ \A p \in Pids \ {new} : cmdline'[p] = cmdline[p]
      BY <2>1, <2>3, Terms
  <2>5. AppsTypeOK'
      BY <2>2, <2>3, <2>4 DEF IInv, AppsTypeOK, Running
  <2>6. InitStays' /\ NoneWhileLaunching'
      BY <2>2, <2>3, <2>4, ApplicationsAssumption DEF IInv, InitStays, NoneWhileLaunching, Pids
  <2>7. Unique'
      BY <2>2, <2>4 DEF IInv, Unique, NoneWhileLaunching
  <2>9. ScriptShape' /\ LockSeen'
      BY <2>2, <2>3, <2>4 DEF IInv, ScriptShape, LockSeen, AppsTypeOK
  <2>10. Stoppable' /\ StoppedAreListed'
      BY <2>2, <2>3, <2>4 DEF IInv, Stoppable, StoppedAreListed
  <2>11. \A p \in due : p \in Pids \ {new}
      BY <2>3 DEF IInv, AppsTypeOK, Running
  <2>12. FreezeShape'
      BY <2>2, <2>4, <2>11 DEF IInv, FreezeShape
  <2> QED BY <2>5, <2>6, <2>7, <2>9, <2>10, <2>12 DEF IInv
<1>3. CASE Exit
  <2>1. PICK p \in Running \ (launching \cup {1}) :
            /\ cmdline' = [cmdline EXCEPT ![p] = "none"]
            /\ stopped' = stopped \ {p} /\ due' = due \ {p}
      BY <1>3 DEF Exit
  <2>2. UNCHANGED <<launching, files, daemon>>
      BY <1>3 DEF Exit
  <2>3. /\ p \in Pids /\ p # 1 /\ p \notin launching
        /\ cmdline \in [Pids -> Commands] /\ "none" \in Commands
      BY <2>1, Terms DEF Running, IInv, AppsTypeOK
  <2>4. /\ cmdline' \in [Pids -> Commands] /\ cmdline'[p] = "none"
        /\ \A q \in Pids \ {p} : cmdline'[q] = cmdline[q]
      BY <2>1, <2>3
  <2>5. /\ stopped' = stopped \cap Running' /\ due' = due \cap Running'
        /\ launching' = launching \cap Running'
      BY <2>1, <2>2, <2>3, <2>4 DEF IInv, AppsTypeOK, Running
  <2>6. \A q \in Pids : cmdline'[q] \in {cmdline[q], "none"}
      BY <2>4
  <2>7. /\ {stopped', due', launching'} \subseteq SUBSET Running'
        /\ Unique' /\ NoneWhileLaunching' /\ Stoppable' /\ StoppedAreListed'
        /\ \A q \in due' : q \in due /\ cmdline'[q] = cmdline[q]
        /\ lockscreenPid # 0 => cmdline'[lockscreenPid] \in {"none", "lockScript"}
      BY <2>2, <2>4, <2>5, <2>6, KilledShape
  <2>8. AppsTypeOK'
      BY <2>2, <2>4, <2>7 DEF IInv, AppsTypeOK
  <2>9. InitStays'
      BY <2>3, <2>4, ApplicationsAssumption DEF IInv, InitStays, Pids
  <2>10. ScriptShape' /\ LockSeen'
      BY <2>2, <2>6, <2>7 DEF IInv, ScriptShape, LockSeen, AppsTypeOK
  <2>11. FreezeShape'
      BY <2>2, <2>7 DEF IInv, FreezeShape
  <2> QED BY <2>7, <2>8, <2>9, <2>10, <2>11 DEF IInv
<1>4. CASE UserAppChanges
  <2> USE <1>4 DEF UserAppChanges
  <2>1. userApp' \in BOOLEAN /\ due' \subseteq due
      OBVIOUS
  <2>2. AppsTypeOK'
      BY <2>1 DEF IInv, AppsTypeOK, Running
  <2>3. InitStays' /\ Unique' /\ NoneWhileLaunching'
      BY Quiet
  <2>4. ScriptShape' /\ LockSeen' /\ Stoppable' /\ StoppedAreListed'
      BY DEF IInv, ScriptShape, LockSeen, Stoppable, StoppedAreListed
  <2>5. FreezeShape'
      BY DEF IInv, FreezeShape
  <2> QED BY <2>2, <2>3, <2>4, <2>5 DEF IInv
<1>5. CASE XProgramChanges
  <2> USE <1>5 DEF XProgramChanges
  <2>1. xProgram' \in BOOLEAN /\ due' \subseteq due
      OBVIOUS
  <2>2. AppsTypeOK'
      BY <2>1 DEF IInv, AppsTypeOK, Running
  <2>3. InitStays' /\ Unique' /\ NoneWhileLaunching'
      BY Quiet
  <2>4. ScriptShape' /\ LockSeen' /\ Stoppable' /\ StoppedAreListed'
      BY DEF IInv, ScriptShape, LockSeen, Stoppable, StoppedAreListed
  <2>5. FreezeShape'
      BY DEF IInv, FreezeShape
  <2> QED BY <2>2, <2>3, <2>4, <2>5 DEF IInv
<1> QED BY <1>1, <1>2, <1>3, <1>4, <1>5 DEF World

LEMMA StepInv == IInv /\ [Next]_vars => IInv'
<1>1. ASSUME IInv, UNCHANGED vars PROVE IInv'
  <2> USE <1>1 DEF vars, files, daemon
  <2>1. AppsTypeOK'
      BY DEF IInv, AppsTypeOK, Running
  <2>2. InitStays' /\ Unique' /\ NoneWhileLaunching'
      BY Quiet
  <2>3. ScriptShape' /\ LockSeen' /\ Stoppable' /\ StoppedAreListed' /\ FreezeShape'
      BY DEF IInv, ScriptShape, LockSeen, Stoppable, StoppedAreListed, FreezeShape
  <2> QED BY <2>1, <2>2, <2>3 DEF IInv
<1>2. IInv /\ Jobs => IInv'
    BY QuietStep, KillStep DEF Jobs
<1> QED BY <1>1, <1>2, WorldStep DEF Next

-----------------------------------------------------------------------------
(* The inductive invariant of appsFreeze and its callers.                  *)
THEOREM Invariance == Spec => []IInv
BY InitInv, StepInv, PTL DEF Spec

(* Process numbers, lists and positions stay in their ranges.              *)
THEOREM TypeCorrect == Spec => []AppsTypeOK
BY Invariance, PTL DEF IInv

(* No process is stopped and forgotten, for any number of processes that   *)
(* come and go.                                                            *)
THEOREM NoneForgotten == Spec => []StoppedAreListed
BY Invariance, PTL DEF IInv

(* Nothing is stopped but the GUI, the lock screen, applications and X     *)
(* clients, if the kernel gives no number again that the daemon holds: for *)
(* any number of processes, not init, no mounted file system, no script.   *)
THEOREM AppsOnly == Spec => []OnlyAppsStopped
<1>1. IInv => OnlyAppsStopped
    BY DEF IInv, OnlyAppsStopped, StoppedAreListed, Stoppable, Sleepers, AppsTypeOK, Running,
           UserClass, XorgClass
<1> QED BY <1>1, Invariance, PTL

(* Nothing is continued before the lock screen has been up.                *)
THEOREM LockComesFirst == Spec => []LockedFirst
<1>1. IInv => LockedFirst
    BY DEF IInv, LockSeen, LockedFirst
<1> QED BY <1>1, Invariance, PTL

(* waitpid() in prepareSleep waits for a script that is dead or about to   *)
(* exit, however many scripts and aborted sleeps there were before.        *)
THEOREM WaitIsShort == Spec => []WaitsForTheDying
<1>1. ASSUME IInv PROVE WaitsForTheDying
  <2>1. \A p \in Pids : cmdline[p] \in Commands
      BY <1>1 DEF IInv, AppsTypeOK
  <2>2. job = "wait" => launching = {} /\ \A p \in Pids : cmdline[p] # "lock"
      BY <1>1 DEF IInv, ScriptShape
  <2> QED BY <2>1, <2>2, Terms DEF WaitsForTheDying, Matching
<1> QED BY <1>1, Invariance, PTL

(* freezeApps() reaches what it has to stop, whatever starts and exits     *)
(* between its searches and its signals.                                   *)
THEOREM AllReached == Spec => FreezeReaches
<1>1. ASSUME IInv, Next, job = "stop", job' = "prepare"
      PROVE  due \subseteq stopped'
  <2>1. FreezeStop
      BY <1>1 DEF Next, Jobs, World, Goto, daemon, BeginPrepare, Collect, Collected, NoLock,
             FreezeBuiltIn, FreezeUserApp, FreezeXorg, FreezeStop, BeginAfter, Lock, Launched,
             unfreezeApp, Unlocked, unfreezeApps, Die, Start, LockStarts, Exit, UserAppChanges,
             XProgramChanges
  <2>2. due \subseteq Running /\ due \subseteq appsPids
      BY <1>1 DEF IInv, AppsTypeOK, FreezeShape
  <2>3. 1 \notin due
      BY <1>1 DEF IInv, InitStays, FreezeShape, UserClass, XorgClass
  <2> QED BY <1>1, <2>1, <2>2, <2>3, StopsListed DEF FreezeStop
<1>2. IInv /\ [Next]_vars => [job = "stop" /\ job' = "prepare" => due \subseteq stopped']_vars
    BY <1>1
<1> QED BY Invariance, <1>2, PTL DEF Spec, FreezeReaches

-----------------------------------------------------------------------------
(* The promise of HeldApps.                                                *)

HeldPids == {p \in stopped : cmdline[p] # "lock"}
LockUp == Matching("lockscreen-bin") # {}
WakingNow ==
    CASE lockscreen /\ job \in {"show", "locked"} -> "shown"
      [] lockscreen /\ job = "thaw" -> "left"
      [] OTHER -> "away"
promised == <<Running, HeldPids, LockUp, lockscreen, WakingNow>>

(* What afterSleep continues on its own is the lock screen, or nobody by   *)
(* now: no other process has its number, and it is not the -1 for all.     *)
FoundIsLock ==
    job = "show" => found \in Pids /\ cmdline[found] \in {"lock", "none"}

(* The search for the lock screen finds it if it runs.                     *)
LEMMA LockFound ==
    ASSUME IInv
    PROVE  /\ getPidByName("lockscreen-bin") # -1 <=> LockUp
           /\ getPidByName("lockscreen-bin") # -1 =>
                  /\ getPidByName("lockscreen-bin") \in Pids
                  /\ cmdline[getPidByName("lockscreen-bin")] = "lock"
<1>1. \A q \in Pids : cmdline[q] \in Commands /\ q # -1
    BY ApplicationsAssumption DEF IInv, AppsTypeOK, Pids
<1>2. Matching("lockscreen-bin") = {q \in Pids : cmdline[q] = "lock"}
    BY <1>1, Terms DEF Matching
<1>3. Matching("lockscreen-bin") \cap Mounts = {}
    BY <1>1, <1>2, Terms DEF Mounts, Matching
<1>4. \A p \in Matching("lockscreen-bin") : \A q \in Matching("lockscreen-bin") : q = p
    BY <1>2 DEF IInv, Unique
<1>5. LockUp => getPidByName("lockscreen-bin") \in Matching("lockscreen-bin")
    BY <1>3, <1>4, Found DEF LockUp
<1>6. getPidByName("lockscreen-bin") \in Matching("lockscreen-bin") \cup {-1}
    BY Found
<1> QED BY <1>1, <1>2, <1>5, <1>6 DEF LockUp

LEMMA FoundStep ==
    ASSUME IInv, FoundIsLock, [Next]_vars
    PROVE  FoundIsLock'
<1> SUFFICES ASSUME job' = "show" PROVE found' \in Pids /\ cmdline'[found'] \in {"lock", "none"}
    BY DEF FoundIsLock
<1>1. CASE Lock
    BY <1>1, LockFound DEF Lock
<1>2. CASE ~Lock
  <2>1. job = "show" /\ (World \/ UNCHANGED vars)
      BY <1>2 DEF Next, Jobs, World, Goto, vars, daemon, BeginPrepare, Collect, Collected,
             NoLock, FreezeBuiltIn, FreezeUserApp, FreezeXorg, FreezeStop, BeginAfter, Launched,
             unfreezeApp, Unlocked, unfreezeApps, Die, Start, LockStarts, Exit,
             UserAppChanges, XProgramChanges
  <2>2. found' = found
      BY <2>1 DEF World, vars, daemon, Start, LockStarts, Exit, UserAppChanges,
             XProgramChanges
  <2>3. cmdline'[found] \in {cmdline[found], "none"}
    <3>1. cmdline \in [Pids -> Commands] /\ found \in Pids
        BY <2>1 DEF IInv, AppsTypeOK, FoundIsLock
    <3>2. CASE Start
        BY <3>1, <3>2 DEF Start, Free
    <3>3. CASE LockStarts
        BY <3>1, <3>3 DEF LockStarts, Free
    <3>4. CASE Exit
        BY <3>1, <3>4 DEF Exit
    <3>5. CASE UserAppChanges \/ XProgramChanges \/ UNCHANGED vars
        BY <3>5 DEF UserAppChanges, XProgramChanges, vars
    <3> QED BY <2>1, <3>2, <3>3, <3>4, <3>5 DEF World
  <2> QED BY <2>1, <2>2, <2>3 DEF FoundIsLock
<1> QED BY <1>1, <1>2

(* When processes only end, what is stopped of them is what is left.       *)
LEMMA EndedOnPromise ==
    ASSUME IInv, \A p \in Pids : cmdline'[p] \in {cmdline[p], "none"},
           stopped' = stopped \cap Running'
    PROVE  HeldPids' = HeldPids \cap Running'
<1>1. stopped \subseteq Pids /\ \A p \in Running' : p \in Pids /\ cmdline'[p] # "none"
    BY DEF IInv, AppsTypeOK, Running
<1> QED BY <1>1 DEF HeldPids

(* When one starts, under a number that is free, nothing is stopped of it. *)
LEMMA StartedOnPromise ==
    ASSUME IInv, NEW p \in Free, NEW c, c # "none", cmdline' = [cmdline EXCEPT ![p] = c],
           stopped' = stopped
    PROVE  HeldPids' = HeldPids \cap Running'
<1>1. cmdline \in [Pids -> Commands] /\ stopped \subseteq Running /\ p \in Pids
      /\ cmdline[p] = "none"
    BY DEF IInv, AppsTypeOK, Free
<1>2. p \notin stopped /\ stopped \subseteq Running'
    BY <1>1 DEF Running
<1> QED BY <1>1, <1>2 DEF HeldPids

(* prepareSleep, to HeldApps: processes end, some are held, or nothing.    *)
LEMMA PrepareOnPromise ==
    ASSUME IInv, BeginPrepare \/ Collect \/ Collected \/ NoLock \/ FreezeBuiltIn
                     \/ FreezeUserApp \/ FreezeXorg \/ FreezeStop
    PROVE  Promise!Hold \/ Promise!ComeAndGo \/ UNCHANGED promised
<1>1. CASE BeginPrepare \/ Collected \/ FreezeBuiltIn \/ FreezeUserApp \/ FreezeXorg
  <2>1. UNCHANGED <<cmdline, stopped, lockscreen>> /\ WakingNow' = WakingNow
      BY <1>1 DEF BeginPrepare, Collected, FreezeBuiltIn, FreezeUserApp, FreezeXorg, Goto,
             files, WakingNow
  <2> QED BY <2>1 DEF promised, HeldPids, LockUp, Running, Matching, Pids
<1>2. ASSUME NEW first, NEW second, NEW third, killProcesses(first, second, third),
             Collect \/ NoLock
      PROVE  Promise!ComeAndGo
  <2>1. HeldPids' = HeldPids \cap Running'
      BY <1>2, KilledThree, EndedOnPromise
  <2>2. WakingNow' = WakingNow
      BY <1>2 DEF Collect, NoLock, Goto, files, WakingNow
  <2> QED BY <2>1, <2>2 DEF Promise!ComeAndGo, HeldPids, WakingNow
<1>3. CASE NoLock /\ UNCHANGED <<cmdline, stopped, launching, due>>
  <2>1. UNCHANGED <<cmdline, stopped, lockscreen>> /\ WakingNow' = WakingNow
      BY <1>3 DEF NoLock, Goto, files, WakingNow
  <2> QED BY <2>1 DEF promised, HeldPids, LockUp, Running, Matching, Pids
<1>4. CASE FreezeStop
  <2>1. /\ WakingNow = "away" /\ WakingNow' = "away" /\ Running' = Running
        /\ stopped' = stopped \cup killLogger(appsPids) /\ cmdline' = cmdline
      BY <1>4 DEF FreezeStop, Goto, files, WakingNow, Running
  <2>2. stopped' \subseteq Running
      BY <2>1, StopsListed DEF IInv, AppsTypeOK
  <2>3. HeldPids \subseteq HeldPids' /\ HeldPids' \subseteq Running
      BY <2>1, <2>2 DEF HeldPids
  <2> QED BY <2>1, <2>3 DEF Promise!Hold, HeldPids, WakingNow
<1> QED BY <1>1, <1>2, <1>3, <1>4 DEF Collect, NoLock

(* afterSleep: the lock screen is shown and left, and all are let go.      *)
LEMMA AfterOnPromise ==
    ASSUME IInv, FoundIsLock, BeginAfter \/ Lock \/ Launched \/ unfreezeApp \/ Unlocked
                     \/ unfreezeApps \/ Die
    PROVE  \/ Promise!Show \/ Promise!Leave \/ Promise!LetGo \/ Promise!GiveUp
           \/ Promise!ComeAndGo \/ UNCHANGED promised
<1> DEFINE quiet == UNCHANGED <<Running, HeldPids, LockUp, lockscreen>>
<1>1. UNCHANGED <<cmdline, stopped, lockscreen>> => quiet
    BY DEF HeldPids, LockUp, Running, Matching, Pids
<1>2. CASE BeginAfter
  <2>1. quiet /\ WakingNow' = WakingNow
      BY <1>1, <1>2 DEF BeginAfter, files, WakingNow
  <2> QED BY <2>1 DEF promised
<1>3. CASE Lock /\ found' # -1
  <2>1. quiet /\ LockUp
      BY <1>1, <1>3, LockFound DEF Lock, files
  <2>2. IF lockscreen THEN WakingNow = "away" /\ WakingNow' = "shown"
                      ELSE WakingNow' = WakingNow
      BY <1>3 DEF Lock, files, WakingNow
  <2> QED BY <2>1, <2>2 DEF promised, Promise!Show, HeldPids, LockUp, WakingNow
<1>4. CASE Lock /\ found' = -1
  <2>1. PICK p \in Free : cmdline' = [cmdline EXCEPT ![p] = "lockScript"]
      BY <1>4 DEF Lock
  <2>2. HeldPids' = HeldPids \cap Running'
      BY <1>4, <2>1, StartedOnPromise DEF Lock
  <2>3. WakingNow' = WakingNow
      BY <1>4 DEF Lock, files, WakingNow
  <2> QED BY <2>2, <2>3 DEF Promise!ComeAndGo, HeldPids, WakingNow
<1>5. CASE Launched
  <2>1. quiet /\ LockUp
      BY <1>1, <1>5, LockFound DEF Launched, files
  <2>2. IF lockscreen THEN WakingNow = "away" /\ WakingNow' = "shown"
                      ELSE WakingNow' = WakingNow
      BY <1>5 DEF Launched, Goto, files, WakingNow
  <2> QED BY <2>1, <2>2 DEF promised, Promise!Show, HeldPids, LockUp, WakingNow
<1>6. CASE unfreezeApp
  <2>1. found \in Pids /\ cmdline[found] \in {"lock", "none"} /\ found # -1
      BY <1>6, ApplicationsAssumption DEF unfreezeApp, Goto, FoundIsLock, Pids
  <2>2. stopped' = stopped \ ({found} \cap Running) /\ UNCHANGED <<cmdline, lockscreen>>
      BY <1>6, <2>1 DEF unfreezeApp, kill, files
  <2>3. quiet
      BY <2>1, <2>2 DEF HeldPids, LockUp, Running, Matching, Pids
  <2>4. WakingNow' = WakingNow
      BY <1>6 DEF unfreezeApp, Goto, files, WakingNow
  <2> QED BY <2>3, <2>4 DEF promised
<1>7. CASE Unlocked
  <2>1. quiet /\ ~LockUp
      BY <1>1, <1>7, LockFound DEF Unlocked, files
  <2>2. IF lockscreen THEN WakingNow = "shown" /\ WakingNow' = "left"
                      ELSE WakingNow' = WakingNow
      BY <1>7 DEF Unlocked, Goto, files, WakingNow
  <2> QED BY <2>1, <2>2 DEF promised, Promise!Leave, HeldPids, LockUp, WakingNow
<1>8. CASE unfreezeApps
  <2>1. HeldPids' = {} /\ Running' = Running
      BY <1>8, ContinuesListed DEF unfreezeApps, HeldPids, Running
  <2>2. (lockscreen => WakingNow = "left") /\ WakingNow' = "away"
      BY <1>8 DEF unfreezeApps, Goto, files, WakingNow
  <2> QED BY <2>1, <2>2 DEF Promise!LetGo, HeldPids, WakingNow
<1>9. CASE Die
  <2>1. quiet /\ WakingNow' = "away"
      BY <1>1, <1>9 DEF Die, files, WakingNow
  <2> QED BY <2>1 DEF Promise!GiveUp, HeldPids, WakingNow
<1> QED BY <1>2, <1>3, <1>4, <1>5, <1>6, <1>7, <1>8, <1>9

(* The world: processes start and end, and the files change.               *)
LEMMA WorldOnPromise ==
    ASSUME IInv, World
    PROVE  (Promise!ComeAndGo \/ UNCHANGED promised) /\ UNCHANGED lockscreen
<1>1. UNCHANGED lockscreen /\ WakingNow' = WakingNow
    BY DEF World, Start, LockStarts, Exit, UserAppChanges, XProgramChanges, files, daemon,
           WakingNow
<1>2. CASE Start
  <2>1. PICK p \in Free, c \in Programs : cmdline' = [cmdline EXCEPT ![p] = c]
      BY <1>2 DEF Start
  <2>2. HeldPids' = HeldPids \cap Running'
      BY <1>2, <2>1, StartedOnPromise, ApplicationsAssumption DEF Start
  <2> QED BY <1>1, <2>2 DEF Promise!ComeAndGo, HeldPids, WakingNow
<1>3. CASE LockStarts
  <2>1. PICK p \in Free : cmdline' = [cmdline EXCEPT ![p] = "lock"]
      BY <1>3 DEF LockStarts
  <2>2. HeldPids' = HeldPids \cap Running'
      BY <1>3, <2>1, StartedOnPromise DEF LockStarts
  <2> QED BY <1>1, <2>2 DEF Promise!ComeAndGo, HeldPids, WakingNow
<1>4. CASE Exit
  <2>1. PICK p \in Running :
            cmdline' = [cmdline EXCEPT ![p] = "none"] /\ stopped' = stopped \ {p}
      BY <1>4 DEF Exit
  <2>2. cmdline \in [Pids -> Commands] /\ stopped \subseteq Running /\ p \in Pids
      BY DEF IInv, AppsTypeOK, Running
  <2>3. /\ \A q \in Pids : cmdline'[q] \in {cmdline[q], "none"}
        /\ stopped' = stopped \cap Running'
      BY <2>1, <2>2 DEF Running
  <2>4. HeldPids' = HeldPids \cap Running'
      BY <2>3, EndedOnPromise
  <2> QED BY <1>1, <2>4 DEF Promise!ComeAndGo, HeldPids, WakingNow
<1>5. CASE UserAppChanges \/ XProgramChanges
  <2>1. UNCHANGED <<cmdline, stopped>>
      BY <1>5 DEF UserAppChanges, XProgramChanges
  <2> QED BY <1>1, <2>1 DEF promised, HeldPids, LockUp, Running, Matching, Pids
<1> QED BY <1>2, <1>3, <1>4, <1>5 DEF World

(* Searches by name, lists and signals, in a /proc that changes at every   *)
(* step, keep the promise of HeldApps, for any number of processes.        *)
THEOREM PromiseKept == Spec => ImplementsHeldApps
<1>1. Init => FoundIsLock /\ Promise!Init
    BY DEF Init, FoundIsLock, Promise!Init
<1>2. IInv /\ FoundIsLock /\ [Next]_vars => FoundIsLock'
    BY FoundStep
<1>3. IInv /\ FoundIsLock /\ [Next]_vars => [Promise!Next]_promised
  <2> SUFFICES ASSUME IInv, FoundIsLock, [Next]_vars PROVE [Promise!Next]_promised
      OBVIOUS
  <2>1. CASE Jobs
    <3>1. UNCHANGED lockscreen
        BY <2>1 DEF Jobs, BeginPrepare, Collect, Collected, NoLock, FreezeBuiltIn,
               FreezeUserApp, FreezeXorg, FreezeStop, BeginAfter, Lock, Launched, unfreezeApp,
               Unlocked, unfreezeApps, Die, files
    <3> QED BY <2>1, <3>1, PrepareOnPromise, AfterOnPromise DEF Jobs, Promise!Next
  <2>2. CASE World
      BY <2>2, WorldOnPromise DEF Promise!Next
  <2>3. CASE UNCHANGED vars
      BY <2>3 DEF vars, files, daemon, promised, HeldPids, LockUp, WakingNow, Running,
             Matching, Pids
  <2> QED BY <2>1, <2>2, <2>3 DEF Next
<1> QED BY <1>1, <1>2, <1>3, Invariance, PTL
       DEF Spec, ImplementsHeldApps, Promise!Spec, promised, HeldPids, LockUp, WakingNow

=============================================================================
