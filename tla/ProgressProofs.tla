--------------------------- MODULE ProgressProofs ---------------------------
(***************************************************************************)
(* What keeps SleepControl going, short of fairness: no circle of waits,   *)
(* and no way back for a job that is to end.                               *)
(***************************************************************************)
EXTENDS JobBlockProofs

-----------------------------------------------------------------------------
(* Whoever holds something is where it will be given back.                 *)

MutexesHeld ==
    /\ sleep_mtx = "watchdog" => watchdog.pc \in {"settle", "claim"}
    /\ currentActiveThread_mtx = "watchdog" => watchdog.pc = "peek"
    /\ currentActiveThread_mtx = "idle" => idle = "ssh"

LedHeld ==
    /\ occupyLed = "config" => config = "ledHeld"
    /\ \A t \in Thread : occupyLed = t => InLed(t)

SlotHeld ==
    currentActiveThread # "Nothing" => watchdog.pc = "launch" \/ \E t \in Thread : Live(t)

(* The sections of sleep_mtx and currentActiveThread_mtx are left by       *)
(* unlocking, sleepCall's unlock or not.                                   *)
LEMMA MutexesHeldStep ==
    ASSUME TypeOK, MutexesHeld, [Next]_vars
    PROVE  MutexesHeld'
<1> USE DEF MutexesHeld
<1>1. CASE Watchdog
  BY <1>1 DEF TypeOK, Watchdog, TakeRequest, Decide, Settle, Claim, Peek, Poll, Mark, Launch,
              ReadNextStep, ResetOrder, ChooseNextStep, Assign, ConsumeNextStep, WatchdogAt,
              WatchdogTo, Launching, mutexes, raisers
<1>2. ASSUME NEW t \in Thread, Job(t)
      PROVE  MutexesHeld'
  BY <1>2 DEF Job, JobStart, CheckOrder, Act, Release, Report, GoSleep, Forget, Mute, CEG,
              Extend, SuspendLoop, Retake, Suspend, Judge, Unmute, AskForAfter, raisers,
              mutexes
<1>3. CASE IdleExpires \/ IdleStep
  BY <1>3 DEF IdleExpires, IdleStep, IdleReadsNextStep, IdleReadsThread, IdleLooksForSsh,
              IdleNotes, IdleRaises, IdleUnchanged
<1>4. CASE ConfigStep \/ SleepCall \/ UpdateConfig
  BY <1>4 DEF ConfigStep, CallSetsDeepSleep, CallForbidsAnother, CallRaises, CallNotes,
              UpdateTakesLed, UpdateGivesLed, SleepCall, UpdateConfig, ConfigUnchanged
<1>5. CASE PowerButton \/ HallSensor \/ MonitorNote \/ LeaveLockscreen \/ Wake
  BY <1>5 DEF PowerButton, HallSensor, MonitorNote, LeaveLockscreen, Wake, raisers, mutexes
<1>6. CASE UNCHANGED vars
  BY <1>6 DEF vars, raisers, mutexes
<1>7. QED
  BY <1>1, <1>2, <1>3, <1>4, <1>5, <1>6 DEF Next, Request

(* A job gives the LED back on every way out of its body.                  *)
LEMMA LedHeldStep ==
    ASSUME IInv, LedHeld, [Next]_vars
    PROVE  LedHeld'
<1> USE ConstantsAssumption
<1>1. CASE Launch
  <2>1. PICK t \in Thread :
          /\ job[t] = NoJob
          /\ job' = [job EXCEPT ![t] = [kind |-> watchdog.want, pc |-> "start", at |-> 0]]
    BY <1>1 DEF Launch
  <2>2. \A u \in Thread : InLed(u) => InLed(u)'
    BY <2>1 DEF InLed, NoJob, IInv, TypeOK
  <2>3. UNCHANGED <<occupyLed, config>>
    BY <1>1 DEF Launch, mutexes, raisers, kernel
  <2>4. QED
    BY <2>2, <2>3 DEF LedHeld
<1>2. ASSUME NEW t \in Thread, Job(t)
      PROVE  LedHeld'
  <2>1. /\ config' = config /\ \A u \in Thread \ {t} : job'[u] = job[u]
        /\ job' \in [Thread -> JobRecord]
    BY <1>2, JobEffect, JobMoves DEF IInv
  <2>2. t # "free" /\ t # "config"
    OBVIOUS
  <2>3. CASE UNCHANGED occupyLed /\ (InLed(t) => InLed(t)')
    BY <2>1, <2>3 DEF LedHeld, InLed
  <2>4. CASE occupyLed' = "free"
    BY <2>4 DEF LedHeld
  <2>5. CASE occupyLed' = t /\ InLed(t)'
    BY <2>2, <2>5 DEF LedHeld
  <2>6. CASE JobStart(t)
    <3>1. occupyLed' = t /\ job'[t].pc \in {"forget", "release", "act", "check"}
      BY <2>6, ArriveType DEF JobStart, IInv, TypeOK
    <3>2. QED
      BY <2>5, <3>1 DEF InLed
  <2>7. CASE CheckOrder(t) \/ Act(t)
    <3> DEFINE next == Arrive(job[t].kind, job[t].at + 1)
    <3>1. next.pc \in {"release", "act", "check"}
      BY ArriveType DEF IInv, TypeOK
    <3>2. job' = [job EXCEPT ![t] = next] \/ Goto(t, "act") \/ Goto(t, "check")
      BY <2>7 DEF CheckOrder, Act
    <3>3. job'[t].pc \in {"release", "act", "check"} /\ UNCHANGED occupyLed
      BY <2>7, <3>1, <3>2 DEF CheckOrder, Act, Goto, IInv, TypeOK, mutexes
    <3>4. QED
      BY <2>3, <3>3 DEF InLed
  <2>8. CASE Release(t)
    BY <2>4, <2>8 DEF Release
  <2>9. CASE Report(t)
    BY <2>3, <2>9 DEF Report, JobAt, InLed, mutexes
  <2>10. CASE SuspendLoop(t)
    BY <2>3, <2>4, <2>10 DEF SuspendLoop, Goto, InLed, IInv, TypeOK
  <2>11. CASE Retake(t)
    BY <2>5, <2>11 DEF Retake, GoStep, Goto, InLed, IInv, TypeOK
  <2>12. CASE Forget(t) \/ Mute(t) \/ CEG(t) \/ Extend(t) \/ Suspend(t) \/ Judge(t) \/ Unmute(t)
    <3>1. UNCHANGED occupyLed /\ InLed(t)'
      BY <2>12 DEF Forget, Mute, CEG, AfterCEG, Extend, Suspend, Judge, Unmute, GoStep, Goto,
                   InLed, IInv, TypeOK, mutexes
    <3>2. QED
      BY <2>3, <3>1
  <2>13. CASE AskForAfter(t)
    BY <2>3, <2>13 DEF AskForAfter, GoStep, JobAt, InLed, mutexes
  <2>14. QED
    BY <1>2, <2>6, <2>7, <2>8, <2>9, <2>10, <2>11, <2>12, <2>13 DEF Job, GoSleep
<1>3. CASE UpdateTakesLed \/ UpdateGivesLed
  BY <1>3 DEF UpdateTakesLed, UpdateGivesLed, LedHeld
<1>4. CASE UNCHANGED <<job, occupyLed>> /\ (config = "ledHeld" => config' = "ledHeld")
  BY <1>4 DEF LedHeld, InLed
<1>5. CASE Request \/ MonitorNote \/ IdleStep \/ ConfigStep \/ LeaveLockscreen \/ Wake
  <2>1. CASE ~UpdateTakesLed /\ ~UpdateGivesLed
    <3>1. UNCHANGED occupyLed /\ (config = "ledHeld" => config' = "ledHeld")
      BY <1>5, <2>1
         DEF Request, PowerButton, HallSensor, IdleExpires, SleepCall, UpdateConfig,
             MonitorNote, IdleStep, IdleReadsNextStep, IdleReadsThread, IdleLooksForSsh,
             IdleNotes, IdleRaises, ConfigStep, CallSetsDeepSleep, CallForbidsAnother,
             CallRaises, CallNotes, LeaveLockscreen, Wake, IdleUnchanged, ConfigUnchanged,
             mutexes, raisers, kernel
    <3>2. QED
      BY <1>4, <1>5, <3>1, OtherEffect
  <2>2. QED
    BY <1>3, <2>1
<1>6. QED
  BY <1>1, <1>2, <1>4, <1>5, WatchdogEffect DEF Next, vars, jobs, mutexes, raisers, kernel

(* currentActiveThread is not left behind by a job.                        *)
LEMMA SlotHeldStep ==
    ASSUME IInv, SlotHeld, [Next]_vars
    PROVE  SlotHeld'
<1>1. CASE Launch
  <2>1. PICK t \in Thread :
          job' = [job EXCEPT ![t] = [kind |-> watchdog.want, pc |-> "start", at |-> 0]]
    BY <1>1 DEF Launch
  <2>2. Live(t)'
    BY <2>1 DEF Live, NoJob, IInv, TypeOK
  <2>3. QED
    BY <2>2 DEF SlotHeld
<1>2. CASE Watchdog /\ ~Launch
  <2>1. UNCHANGED job
    BY <1>2, WatchdogEffect
  <2>2. \/ UNCHANGED currentActiveThread /\ watchdog.pc # "launch"
        \/ watchdog'.pc = "launch"
    BY <1>2 DEF Watchdog, TakeRequest, Decide, Settle, Claim, Peek, Poll, Mark, ReadNextStep,
                ResetOrder, ChooseNextStep, Assign, ConsumeNextStep, WatchdogAt, WatchdogTo,
                orders, IInv, TypeOK
  <2>3. QED
    BY <2>1, <2>2 DEF SlotHeld, Live
<1>3. ASSUME NEW t \in Thread, Job(t)
      PROVE  SlotHeld'
  <2>1. CASE Report(t)
    BY <2>1 DEF Report, SlotHeld
  <2>2. CASE ~Report(t)
    <3>1. job'[t].pc # "none"
      BY <1>3, <2>2, JobEffect DEF IInv
    <3>2. Live(t)'
      BY <3>1 DEF Live, NoJob
    <3>3. QED
      BY <3>2 DEF SlotHeld
  <2>3. QED
    BY <2>1, <2>2
<1>4. CASE UNCHANGED <<job, watchdog, currentActiveThread>>
  BY <1>4 DEF SlotHeld, Live
<1>5. QED
  BY <1>1, <1>2, <1>3, <1>4, OtherEffect DEF Next, vars, jobs, orders

Held == MutexesHeld /\ LedHeld /\ SlotHeld

(* Nothing is left locked or taken by a thread that has gone on.           *)
THEOREM GivenBack == Spec => []Held
<1>1. Init => Held
  <2> SUFFICES ASSUME Init PROVE Held
    OBVIOUS
  <2>1. MutexesHeld /\ SlotHeld
    BY DEF Init, MutexesHeld, SlotHeld
  <2>2. LedHeld
    BY ConstantsAssumption DEF Init, LedHeld
  <2>3. QED
    BY <2>1, <2>2 DEF Held
<1>2. IInv /\ Held /\ [Next]_vars => Held'
  BY MutexesHeldStep, LedHeldStep, SlotHeldStep DEF Held, IInv
<1>3. QED
  BY <1>1, <1>2, Invariance, PTL DEF Spec

-----------------------------------------------------------------------------
(* No circle of waits.                                                     *)

(* Whoever waits is not inside the section that others wait for, and what  *)
(* is waited for has somebody inside.                                      *)
LEMMA Waits ==
    ASSUME IInv, Held, NEW S \in SUBSET Actors, Stuck(S)
    PROVE  S = {}
<1> USE ConstantsAssumption
<1>1. /\ sleep_mtx \in {"free", "watchdog"}
      /\ currentActiveThread_mtx \in {"free", "watchdog", "idle"}
      /\ occupyLed \in Thread \cup {"free", "config"}
  BY DEF IInv, TypeOK
<1>2. /\ "watchdog" \notin Thread /\ "idle" \notin Thread /\ "config" \notin Thread
      /\ {"watchdog", "idle", "config"} \subseteq Actors /\ Thread \subseteq Actors
  BY DEF Actors
<1>3. ASSUME NEW a \in S, Awaits(a, "sleep_mtx"), {b \in Actors : CanEnd(b, "sleep_mtx")} \subseteq S
      PROVE  "watchdog" \in S /\ watchdog.pc \in {"settle", "claim"}
  <2>1. watchdog.pc \in {"settle", "claim"}
    BY <1>1, <1>3 DEF Awaits, Held, MutexesHeld
  <2>2. QED
    BY <1>2, <1>3, <2>1 DEF CanEnd
<1>4. ASSUME NEW a \in S, Awaits(a, "currentActiveThread_mtx"),
             {b \in Actors : CanEnd(b, "currentActiveThread_mtx")} \subseteq S
      PROVE  \/ "watchdog" \in S /\ watchdog.pc = "peek"
             \/ "idle" \in S /\ idle = "ssh"
  <2>1. watchdog.pc = "peek" \/ idle = "ssh"
    BY <1>1, <1>4 DEF Awaits, Held, MutexesHeld
  <2>2. QED
    BY <1>2, <1>4, <2>1 DEF CanEnd
<1>5. ASSUME NEW a \in S, Awaits(a, "occupyLed"), {b \in Actors : CanEnd(b, "occupyLed")} \subseteq S
      PROVE  \/ "config" \in S /\ config = "ledHeld"
             \/ \E t \in Thread : t \in S /\ InLed(t) /\ occupyLed = t
  <2>1. config = "ledHeld" \/ \E t \in Thread : InLed(t) /\ occupyLed = t
    BY <1>1, <1>5 DEF Awaits, Held, LedHeld
  <2>2. QED
    BY <1>2, <1>5, <2>1 DEF CanEnd
<1>6. ASSUME NEW a \in S, Awaits(a, "job"), {b \in Actors : CanEnd(b, "job")} \subseteq S
      PROVE  watchdog.pc = "poll" /\ \E t \in Thread : t \in S /\ Live(t)
  <2>1. watchdog.pc = "poll" /\ currentActiveThread # "Nothing"
    BY <1>6 DEF Awaits
  <2>2. PICK t \in Thread : Live(t)
    BY <2>1 DEF Held, SlotHeld
  <2>3. t \in S
    BY <1>2, <1>6, <2>2 DEF CanEnd
  <2>4. QED
    BY <2>1, <2>2, <2>3
<1> DEFINE Caught(a, what) ==
        Awaits(a, what) /\ {b \in Actors : CanEnd(b, what)} \subseteq S
<1>7. \A a \in S : \/ Caught(a, "sleep_mtx") \/ Caught(a, "currentActiveThread_mtx")
                    \/ Caught(a, "occupyLed") \/ Caught(a, "job")
  BY DEF Stuck
<1>8. ~("watchdog" \in S /\ watchdog.pc \in {"settle", "peek"})
  BY <1>2, <1>7 DEF Awaits
<1>9. ~("idle" \in S /\ idle = "ssh")
  BY <1>2, <1>7 DEF Awaits
<1>10. ~("config" \in S /\ config = "ledHeld")
  BY <1>2, <1>7 DEF Awaits
<1>11. \A a \in S : ~Caught(a, "currentActiveThread_mtx")
  BY <1>4, <1>8, <1>9
<1>12. ~("watchdog" \in S /\ watchdog.pc = "claim")
  <2>1. SUFFICES ASSUME "watchdog" \in S, watchdog.pc = "claim" PROVE FALSE
    OBVIOUS
  <2>2. ~Awaits("watchdog", "sleep_mtx") /\ ~Awaits("watchdog", "job")
    BY <1>2, <2>1 DEF Awaits
  <2>3. ~Awaits("watchdog", "occupyLed")
    BY <1>2 DEF Awaits
  <2>4. QED
    BY <1>7, <1>11, <2>1, <2>2, <2>3
<1>13. \A a \in S : ~Caught(a, "sleep_mtx")
  BY <1>3, <1>8, <1>12
<1>14. \A t \in Thread : t \notin S
  <2>1. SUFFICES ASSUME NEW t \in Thread, t \in S PROVE FALSE
    OBVIOUS
  <2>2. ~Awaits(t, "job")
    BY <1>2 DEF Awaits
  <2>3. Caught(t, "occupyLed")
    BY <1>7, <1>11, <1>13, <2>1, <2>2
  <2>4. job[t].pc \in {"start", "retake"}
    BY <1>2, <2>3 DEF Awaits
  <2>5. PICK u \in Thread : u \in S /\ InLed(u)
    BY <1>5, <1>10, <2>1, <2>3
  <2>6. Live(t) /\ Live(u)
    BY <2>4, <2>5 DEF Live, NoJob, InLed
  <2>7. u = t
    BY <2>6 DEF IInv, AtMostOneJob
  <2>8. QED
    BY <2>4, <2>5, <2>7 DEF InLed
<1>15. \A a \in S : ~Caught(a, "job") /\ ~Caught(a, "occupyLed")
  BY <1>5, <1>6, <1>10, <1>14
<1>16. QED
  BY <1>7, <1>11, <1>13, <1>15

(* Never a circle of waits among the watchdog, idleSleep, configUpdate and *)
(* any number of jobs, sleepCall's stray unlock included.                  *)
THEOREM NoneStuck == Spec => []NobodyStuck
<1>1. IInv /\ Held => NobodyStuck
  BY Waits DEF NobodyStuck
<1>2. QED
  BY <1>1, Invariance, GivenBack, PTL

-----------------------------------------------------------------------------
(* No way back.                                                            *)

(* The distance at each place, read off its definition.                    *)
ToGo(t) == 4 * (Len(Steps[job[t].kind]) + 1 - job[t].at)
Last(t) == IF job[t].kind = "Prepare" THEN "act" ELSE "check"

LEMMA Distance ==
    ASSUME NEW t \in Thread
    PROVE  /\ job[t].pc = "start" => Remaining(t) = 100
           /\ job[t].pc \in {"check", "act"} =>
                Remaining(t) = IF job[t].pc = Last(t) THEN ToGo(t) ELSE ToGo(t) + 1
           /\ job[t].pc = "loop"  => Remaining(t) = IF die[job[t].kind] THEN 5 ELSE 10
           /\ job[t].pc = "judge" => Remaining(t) = IF die[job[t].kind] THEN 6 ELSE 11
           /\ job[t].pc \in DOMAIN Rank => Remaining(t) = Rank[job[t].pc]
<1>1. job[t].pc = "start" => Remaining(t) = 100
  BY DEF Remaining
<1>2. job[t].pc \in {"check", "act"} =>
        Remaining(t) = IF job[t].pc = Last(t) THEN ToGo(t) ELSE ToGo(t) + 1
  BY DEF Remaining, ToGo, Last
<1>3. /\ job[t].pc = "loop"  => Remaining(t) = IF die[job[t].kind] THEN 5 ELSE 10
      /\ job[t].pc = "judge" => Remaining(t) = IF die[job[t].kind] THEN 6 ELSE 11
  BY DEF Remaining
<1>4. job[t].pc \in DOMAIN Rank => Remaining(t) = Rank[job[t].pc]
  BY DEF Remaining, Rank
<1>5. QED
  BY <1>1, <1>2, <1>3, <1>4

(* The same in the next state.                                             *)
LEMMA NextDistance ==
    ASSUME NEW t \in Thread
    PROVE  /\ job'[t].pc \in {"check", "act"} =>
                Remaining(t)' = IF job'[t].pc = Last(t)' THEN ToGo(t)' ELSE ToGo(t)' + 1
           /\ job'[t].pc = "loop"  => Remaining(t)' = IF die'[job'[t].kind] THEN 5 ELSE 10
           /\ job'[t].pc = "judge" => Remaining(t)' = IF die'[job'[t].kind] THEN 6 ELSE 11
           /\ job'[t].pc \in DOMAIN Rank => Remaining(t)' = Rank[job'[t].pc]
<1>1. job'[t].pc \in {"check", "act"} =>
        Remaining(t)' = IF job'[t].pc = Last(t)' THEN ToGo(t)' ELSE ToGo(t)' + 1
  BY DEF Remaining, ToGo, Last
<1>2. /\ job'[t].pc = "loop"  => Remaining(t)' = IF die'[job'[t].kind] THEN 5 ELSE 10
      /\ job'[t].pc = "judge" => Remaining(t)' = IF die'[job'[t].kind] THEN 6 ELSE 11
  BY DEF Remaining
<1>3. job'[t].pc \in DOMAIN Rank => Remaining(t)' = Rank[job'[t].pc]
  BY DEF Remaining, Rank
<1>4. QED
  BY <1>1, <1>2, <1>3

LEMMA ListLength ==
    ASSUME NEW k \in BlockJob
    PROVE  Len(Steps[k]) \in Nat /\ Len(Steps[k]) < 15
<1>1. CASE k = "Prepare"
  BY <1>1, PrepareSteps
<1>2. CASE k = "After"
  BY <1>2, AfterSteps
<1>3. QED
  BY <1>1, <1>2 DEF BlockJob

(* From a block on, the distance is at most that of the block.             *)
LEMMA ArriveNearer ==
    ASSUME NEW t \in Thread, NEW k \in BlockJob, NEW i \in 1 .. Len(Steps[k]) + 1,
           job'[t] = Arrive(k, i)
    PROVE  /\ Remaining(t)' \in Nat
           /\ Remaining(t)' <= 4 * (Len(Steps[k]) + 1 - i) + 3
           /\ job'[t].kind = k
<1>1. Len(Steps[k]) \in Nat
  BY PrepareSteps, AfterSteps DEF BlockJob
<1>2. job'[t].kind = k /\ job'[t].at = i /\ ToGo(t)' = 4 * (Len(Steps[k]) + 1 - i)
  BY DEF Arrive, ToGo
<1>3. CASE i = Len(Steps[k]) + 1
  <2>1. job'[t].pc = "release"
    BY <1>1, <1>3 DEF Arrive
  <2>2. Remaining(t)' = 3
    BY <2>1, NextDistance DEF Rank
  <2>3. QED
    BY <1>1, <1>2, <1>3, <2>2
<1>4. CASE i # Len(Steps[k]) + 1
  <2>1. job'[t].pc \in {"check", "act"}
    BY <1>1, <1>4 DEF Arrive
  <2>2. Remaining(t)' = ToGo(t)' \/ Remaining(t)' = ToGo(t)' + 1
    BY <2>1, NextDistance
  <2>3. QED
    BY <1>1, <1>2, <2>2
<1>5. QED
  BY <1>3, <1>4

(* prepareSleep, and an afterSleep that has lost its order, go on to their *)
(* ends.                                                                   *)
LEMMA BlocksAdvance ==
    ASSUME IInv, Positions, NEW t \in Thread, Job(t), ~Report(t), job[t].kind \in BlockJob,
           Ending(t)
    PROVE  Remaining(t)' < Remaining(t)
<1> DEFINE k == job[t].kind
           n == Len(Steps[k])
<1>1. /\ job[t] \in JobRecord /\ job \in [Thread -> JobRecord] /\ n \in Nat /\ n < 15
      /\ die \in [JobKind -> BOOLEAN] /\ k \in JobKind /\ k # "GoingSleep"
  <2>1. /\ job[t] \in JobRecord /\ job \in [Thread -> JobRecord]
        /\ die \in [JobKind -> BOOLEAN]
    BY DEF IInv, TypeOK, JobRecord
  <2>2. n \in Nat /\ n < 15
    BY ListLength
  <2>3. k \in JobKind /\ k # "GoingSleep"
    BY DEF BlockJob, JobKind
  <2>4. QED
    BY <2>1, <2>2, <2>3
<1>2. CASE JobStart(t)
  <2>1. job[t].pc = "start" /\ job'[t] = Arrive(k, 1)
    BY <1>1, <1>2 DEF JobStart, JobAt
  <2>2. 1 \in 1 .. n + 1
    BY <1>1
  <2>3. Remaining(t)' \in Nat /\ Remaining(t)' <= 4 * (n + 1 - 1) + 3
    BY <2>1, <2>2, ArriveNearer
  <2>4. Remaining(t) = 100
    BY <2>1, Distance
  <2>5. QED
    BY <1>1, <2>3, <2>4
<1>3. CASE CheckOrder(t) \/ Act(t)
  <2>1. job[t].pc \in {"check", "act"} /\ job[t].at \in 1 .. n
    BY <1>3 DEF CheckOrder, Act, JobAt, Positions
  <2>2. ToGo(t) = 4 * (n + 1 - job[t].at) /\ ToGo(t) \in Nat
    BY <1>1, <2>1 DEF ToGo
  <2>3. Remaining(t) \in {ToGo(t), ToGo(t) + 1}
    BY <2>1, Distance
  <2>4. CASE job'[t] = Arrive(k, job[t].at + 1)
    <3>1. job[t].at + 1 \in 1 .. n + 1
      BY <1>1, <2>1
    <3>2. Remaining(t)' \in Nat /\ Remaining(t)' <= 4 * (n + 1 - (job[t].at + 1)) + 3
      BY <2>4, <3>1, ArriveNearer
    <3>3. ASSUME NEW m \in Nat, NEW i \in Nat, NEW r \in Nat, r <= 4 * (m + 1 - (i + 1)) + 3
          PROVE  r < 4 * (m + 1 - i)
      BY <3>3
    <3>4. Remaining(t)' < 4 * (n + 1 - job[t].at)
      <4>1. job[t].at \in Nat
        BY <1>1, <2>1
      <4>2. QED
        BY <1>1, <4>1, <3>2, <3>3
    <3>5. QED
      BY <2>2, <2>3, <3>2, <3>4
  <2>5. CASE CheckOrder(t) /\ ~die'[k]
    <3>1. sleepJob = k
      BY <1>1, <2>5 DEF CheckOrder
    <3>2. job'[t] = [job[t] EXCEPT !.pc = "act"] /\ job[t].pc = "check" /\ k = "Prepare"
      BY <1>1, <2>5, <3>1 DEF CheckOrder, Goto, JobAt, Ending, InMuted
    <3>3. /\ job'[t].kind = k /\ job'[t].at = job[t].at /\ job'[t].pc = "act"
          /\ ToGo(t)' = ToGo(t)
      BY <1>1, <3>2 DEF ToGo, JobRecord
    <3>4. Remaining(t)' = ToGo(t) /\ Remaining(t) = ToGo(t) + 1
      BY <3>2, <3>3, Distance, NextDistance DEF Last
    <3>5. QED
      BY <2>2, <3>4
  <2>6. CASE Act(t) /\ StepName(t) = "lockWait" /\ lockscreenUp
    <3>1. k = "After"
      BY <2>1, <2>6, BlocksOf DEF StepName
    <3>2. job'[t] = [job[t] EXCEPT !.pc = "check"] /\ job[t].pc = "act"
      BY <1>1, <2>6 DEF Act, Goto, JobAt
    <3>3. /\ job'[t].kind = k /\ job'[t].at = job[t].at /\ job'[t].pc = "check"
          /\ ToGo(t)' = ToGo(t)
      BY <1>1, <3>2 DEF ToGo, JobRecord
    <3>4. Remaining(t)' = ToGo(t) /\ Remaining(t) = ToGo(t) + 1
      BY <3>1, <3>2, <3>3, Distance, NextDistance DEF Last
    <3>5. QED
      BY <2>2, <3>4
  <2>7. QED
    BY <1>1, <1>3, <2>4, <2>5, <2>6 DEF CheckOrder, Act
<1>4. CASE Release(t)
  <2>1. job[t].pc = "release" /\ job'[t].pc = "report"
    BY <1>1, <1>4 DEF Release, JobAt, Goto
  <2>2. QED
    BY <2>1, Distance, NextDistance DEF Rank
<1>5. ~GoSleep(t)
  BY <1>1 DEF GoSleep, Forget, Mute, CEG, AfterCEG, Extend, SuspendLoop, Retake, Suspend,
              Judge, Unmute, AskForAfter, GoStep, JobAt, IInv, JobShape, GoSleepPc
<1>6. QED
  BY <1>2, <1>3, <1>4, <1>5 DEF Job

(* goSleep, once its order or a note is against it, does not enter its     *)
(* loop again.                                                             *)
LEMMA GoSleepAdvances ==
    ASSUME IInv, Positions, NEW t \in Thread, Job(t), ~Report(t),
           job[t].kind = "GoingSleep", Ending(t)
    PROVE  Remaining(t)' < Remaining(t)
<1>1. /\ job[t] \in JobRecord /\ job \in [Thread -> JobRecord]
      /\ die \in [JobKind -> BOOLEAN]
  BY DEF IInv, TypeOK, JobRecord
<1>2. job'[t].kind = "GoingSleep"
  BY JobEffect DEF IInv
<1>3. CASE JobStart(t)
  <2>1. job[t].pc = "start" /\ job'[t].pc = "forget"
    BY <1>1, <1>3 DEF JobStart, JobAt, JobRecord
  <2>2. QED
    BY <2>1, Distance, NextDistance DEF Rank
<1>4. CASE CEG(t)
  <2>1. job[t].pc \in DOMAIN AfterCEG /\ job'[t].pc = AfterCEG[job[t].pc]
    BY <1>1, <1>4 DEF CEG, Goto
  <2>2. die'["GoingSleep"]
    BY <1>1, <1>4, <2>1 DEF CEG, AfterCEG, Ending, JobKind
  <2>3. \/ job[t].pc = "entered" /\ job'[t].pc = "extend"
        \/ job[t].pc \in {"waited", "failed"} /\ job'[t].pc = "loop"
        \/ job[t].pc = "woken" /\ job'[t].pc = "judge"
    BY <2>1 DEF AfterCEG
  <2>4. QED
    BY <1>2, <2>2, <2>3, Distance, NextDistance DEF Rank
<1>5. CASE SuspendLoop(t)
  <2>1. /\ job[t].pc = "loop"
        /\ job'[t].pc = IF die["GoingSleep"] THEN "unmute" ELSE "retake"
    BY <1>1, <1>5 DEF SuspendLoop, JobAt, Goto, JobRecord
  <2>2. QED
    BY <2>1, Distance, NextDistance DEF Rank
<1>6. CASE Judge(t)
  <2>1. job[t].pc = "judge" /\ job'[t].pc \in {"unmute", "loop"} /\ UNCHANGED die
    BY <1>1, <1>6 DEF Judge, JobAt, Goto
  <2>2. QED
    BY <1>2, <2>1, Distance, NextDistance DEF Rank
<1>7. CASE Release(t)
  <2>1. job[t].pc = "release" /\ job'[t].pc = "ask"
    BY <1>1, <1>7 DEF Release, JobAt, Goto
  <2>2. QED
    BY <2>1, Distance, NextDistance DEF Rank
<1>8. CASE Forget(t) \/ Mute(t) \/ Extend(t) \/ Retake(t) \/ Suspend(t) \/ Unmute(t)
           \/ AskForAfter(t)
  <2>1. \/ job[t].pc = "forget" /\ job'[t].pc = "mute"
        \/ job[t].pc = "mute"   /\ job'[t].pc = "entered"
        \/ job[t].pc = "extend" /\ job'[t].pc = "waited"
        \/ job[t].pc = "retake" /\ job'[t].pc = "mem"
        \/ job[t].pc = "mem"    /\ job'[t].pc \in {"failed", "woken"}
        \/ job[t].pc = "unmute" /\ job'[t].pc = "release"
        \/ job[t].pc = "ask"    /\ job'[t].pc = "report"
    BY <1>1, <1>8 DEF Forget, Mute, Extend, Retake, Suspend, Unmute, AskForAfter, GoStep,
                      JobAt, Goto, JobRecord
  <2>2. QED
    BY <2>1, Distance, NextDistance DEF Rank
<1>9. ~CheckOrder(t) /\ ~Act(t)
  BY DEF CheckOrder, Act, JobAt, Positions, BlockJob
<1>10. QED
  BY <1>3, <1>4, <1>5, <1>6, <1>7, <1>8, <1>9 DEF Job, GoSleep

(* A job that has not reported is somewhere else after each of its steps.  *)
LEMMA JobMovesOn ==
    ASSUME IInv, Positions, NEW t \in Thread, Job(t)
    PROVE  job'[t] # job[t]
<1>1. job[t] \in JobRecord /\ job \in [Thread -> JobRecord]
  BY DEF IInv, TypeOK, JobRecord
<1>2. CASE JobStart(t) \/ CheckOrder(t) \/ Act(t)
  <2>1. \/ job[t].pc = "start" /\ job'[t].pc # "start"
        \/ job[t].pc = "check" /\ job'[t].pc = "act"
        \/ job[t].pc = "act" /\ job'[t].pc = "check"
        \/ job'[t].at = job[t].at + 1
    BY <1>1, <1>2 DEF JobStart, CheckOrder, Act, JobAt, Goto, Arrive, JobRecord
  <2>2. QED
    BY <1>1, <2>1 DEF JobRecord
<1>3. CASE Release(t) \/ Report(t) \/ GoSleep(t)
  BY <1>1, <1>3
     DEF Release, Report, GoSleep, Forget, Mute, CEG, AfterCEG, Extend, SuspendLoop, Retake,
         Suspend, Judge, Unmute, AskForAfter, GoStep, Goto, JobAt, JobRecord, NoJob
<1>4. QED
  BY <1>2, <1>3 DEF Job

(* A job that is to end still is, whatever step it takes.                  *)
LEMMA StaysEnding ==
    ASSUME IInv, NEW t \in Thread, Job(t), ~Report(t), Ending(t)
    PROVE  Ending(t)'
<1>1. /\ job[t] \in JobRecord /\ job \in [Thread -> JobRecord]
      /\ job[t].kind \in JobKind
  BY JobEffect DEF IInv, TypeOK, JobRecord, JobShape, Live, NoJob
<1>2. job'[t].pc # "none" /\ job'[t].kind = job[t].kind /\ Live(t)'
  BY JobEffect DEF IInv, Live, NoJob
<1>3. CASE job[t].kind = "Prepare"
  BY <1>2, <1>3 DEF Ending
<1>4. CASE sleepJob # job[t].kind
  <2>1. sleepJob' # job[t].kind
    BY <1>1, <1>4, JobEffect DEF IInv, JobKind
  <2>2. QED
    BY <1>2, <2>1 DEF Ending
<1>5. CASE InMuted(t) /\ newSleepCondition # "None" /\ job[t].pc # "unmute"
  <2>1. job[t].kind = "GoingSleep"
    BY <1>5 DEF InMuted, IInv, JobShape, GoSleepPc
  <2>2. newSleepCondition' = newSleepCondition /\ InMuted(t)'
    BY <1>1, <1>5
       DEF InMuted, Job, JobStart, CheckOrder, Act, Release, Report, GoSleep, Forget, Mute,
           CEG, AfterCEG, Extend, SuspendLoop, Retake, Suspend, Judge, Unmute, AskForAfter,
           GoStep, Goto, JobAt, JobRecord, requests
  <2>3. QED
    BY <1>2, <1>5, <2>2 DEF Ending
<1>6. CASE job[t].pc \in {"unmute", "release", "ask"}
  <2>1. job'[t].pc \in {"release", "ask", "report"}
    BY <1>1, <1>6
       DEF Job, JobStart, CheckOrder, Act, Release, Report, GoSleep, Forget, Mute,
           CEG, AfterCEG, Extend, SuspendLoop, Retake, Suspend, Judge, Unmute, AskForAfter,
           GoStep, Goto, JobAt, JobRecord
  <2>2. QED
    BY <1>2, <2>1 DEF Ending
<1>7. job[t].pc # "report"
  BY <1>1 DEF Job, JobStart, CheckOrder, Act, Report, Release, GoSleep, Forget, Mute, CEG,
              AfterCEG, Extend, SuspendLoop, Retake, Suspend, Judge, Unmute, AskForAfter,
              GoStep, JobAt
<1>8. QED
  BY <1>3, <1>4, <1>5, <1>6, <1>7 DEF Ending

(* Nobody else gives a running job its order back or takes the note away:  *)
(* the watchdog orders again what runs only if that is a prepareSleep.     *)
LEMMA OthersLetEnd ==
    ASSUME IInv, [Next]_vars, NEW t \in Thread, Ending(t), UNCHANGED die, job'[t] = job[t],
           \A u \in Thread \ {t} : ~Job(u), ~Job(t)
    PROVE  Ending(t)'
<1>1. Live(t) /\ Live(t)' /\ InMuted(t)' = InMuted(t)
  BY DEF Ending, Live, InMuted
<1>2. CASE job[t].kind # "Prepare" /\ sleepJob # job[t].kind
  <2>1. CASE Watchdog
    <3>1. CASE Claim
      BY <1>1, <1>2, <3>1 DEF Claim, WatchdogAt, IInv, OrderShape, Ending
    <3>2. CASE Assign
      BY <1>1, <1>2, <3>2 DEF Assign, WatchdogAt, IInv, SlotShape, AtMostOneJob, Live, JobShape, NoJob, JobKind
    <3>3. CASE ~Claim /\ ~Assign
      <4>1. sleepJob' \in {sleepJob, "Nothing"}
        BY <2>1, <3>3 DEF Watchdog, TakeRequest, Decide, Settle, Peek, Poll, Mark, Launch,
               ReadNextStep, ResetOrder, ChooseNextStep, ConsumeNextStep, orders
      <4>2. job[t].kind # "Nothing"
        BY <1>1 DEF IInv, JobShape, JobKind, Live
      <4>3. QED
        BY <1>1, <1>2, <4>1, <4>2 DEF Ending
    <3>4. QED
      BY <3>1, <3>2, <3>3
  <2>2. CASE UNCHANGED sleepJob
    BY <1>1, <1>2, <2>2 DEF Ending
  <2>3. QED
    BY <2>1, <2>2, OtherEffect DEF Next, vars, orders
<1>3. CASE job[t].kind = "Prepare" \/ job[t].pc \in {"unmute", "release", "ask", "report"}
  BY <1>1, <1>3 DEF Ending
<1>4. CASE InMuted(t) /\ newSleepCondition # "None"
  <2>1. newSleepCondition' # "None"
    <3>1. CASE Watchdog
      BY <1>4, <3>1 DEF Watchdog, TakeRequest, Decide, Settle, Claim, Peek, Poll, Mark, Launch,
             ReadNextStep, ResetOrder, ChooseNextStep, Assign, ConsumeNextStep, requests
    <3>2. CASE MonitorNote
      BY <3>2 DEF MonitorNote, IInv, TypeOK
    <3>3. CASE IdleStep \/ ConfigStep
      BY <1>4, <3>3
         DEF IdleStep, IdleReadsNextStep, IdleReadsThread, IdleLooksForSsh, IdleNotes,
             IdleRaises, ConfigStep, CallSetsDeepSleep, CallForbidsAnother, CallRaises,
             CallNotes, UpdateTakesLed, UpdateGivesLed, requests
    <3>4. CASE Request \/ LeaveLockscreen \/ Wake \/ UNCHANGED vars
      BY <1>4, <3>4 DEF Request, PowerButton, HallSensor, IdleExpires, SleepCall, UpdateConfig,
                        LeaveLockscreen, Wake, requests, vars
    <3>5. QED
      BY <3>1, <3>2, <3>3, <3>4 DEF Next
  <2>2. QED
    BY <1>1, <1>4, <2>1 DEF Ending
<1>5. QED
  BY <1>2, <1>3, <1>4 DEF Ending

(* A job that has been told to end, or whose buttons have left a note,     *)
(* ends: no way leads it back, whatever the other threads do meanwhile.    *)
THEOREM EndingAdvances == Spec => EndingJobAdvances
<1> DEFINE Advances(t) ==
        Ending(t) /\ Live(t)' =>
            /\ Ending(t)'
            /\ IF job'[t] = job[t] THEN Remaining(t)' = Remaining(t)
                                   ELSE Remaining(t)' < Remaining(t)
<1>1. ASSUME IInv, Positions, [Next]_vars, NEW t \in Thread
      PROVE  Advances(t)
  <2>1. SUFFICES ASSUME Ending(t), Live(t)' PROVE Advances(t)
    OBVIOUS
  <2>2. CASE Job(t)
    <3>1. ~Report(t)
      BY <1>1, <2>1 DEF Report, Live, IInv, TypeOK
    <3>2. Ending(t)'
      BY <1>1, <2>1, <2>2, <3>1, StaysEnding
    <3>3. job[t].kind \in BlockJob \/ job[t].kind = "GoingSleep"
      BY <1>1, <2>1 DEF Ending, Live, IInv, JobShape, JobKind, BlockJob
    <3>4. Remaining(t)' < Remaining(t)
      BY <1>1, <2>1, <2>2, <3>1, <3>3, BlocksAdvance, GoSleepAdvances
    <3>5. job'[t] # job[t]
      BY <2>2, JobMovesOn, <1>1, <3>1
    <3>6. QED
      BY <3>2, <3>4, <3>5
  <2>3. CASE ~Job(t)
    <3>1. \A u \in Thread \ {t} : ~Job(u)
      BY <1>1, <2>1, Alone DEF Ending, Live
    <3>2. UNCHANGED die /\ job'[t] = job[t]
      <4>1. CASE Watchdog
        <5>1. CASE Launch
          BY <2>1, <5>1, <1>1 DEF Launch, Ending, Live, IInv, TypeOK
        <5>2. QED
          BY <4>1, <5>1, WatchdogEffect
      <4>2. CASE UNCHANGED <<job, die>>
        BY <4>2
      <4>3. QED
        BY <1>1, <2>3, <3>1, <4>1, <4>2, OtherEffect DEF Next, vars, jobs
    <3>3. Ending(t)'
      BY <1>1, <2>1, <2>3, <3>1, <3>2, OthersLetEnd
    <3>4. Remaining(t)' = Remaining(t)
      BY <3>2 DEF Remaining
    <3>5. QED
      BY <3>2, <3>3, <3>4
  <2>4. QED
    BY <2>2, <2>3
<1>2. IInv /\ Positions /\ [Next]_vars => [\A t \in Thread : Advances(t)]_vars
  BY <1>1
<1>3. QED
  BY <1>2, Invariance, PlacesKept, PTL DEF Spec, EndingJobAdvances

=============================================================================
