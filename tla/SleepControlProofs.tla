------------------------- MODULE SleepControlProofs -------------------------
(***************************************************************************)
(* What holds of SleepControl for any set of threads, any sources of       *)
(* requests and any options.                                               *)
(***************************************************************************)
EXTENDS SleepControl, TLAPS

JobRecord == [kind : SleepBool, pc : JobPc, at : Nat]

-----------------------------------------------------------------------------
(* Type correctness.                                                       *)

(* Where a step of a job leads: to one of three positions, the kind kept.  *)
LEMMA ArriveType ==
    ASSUME NEW k \in SleepBool, NEW i \in Nat
    PROVE  /\ Arrive(k, i) \in JobRecord
           /\ Arrive(k, i).kind = k
           /\ Arrive(k, i).pc \in {"release", "act", "check"}
  BY DEF Arrive, JobPc, JobRecord

(* The watchdog's steps keep the types.                                    *)
LEMMA WatchdogType ==
    ASSUME TypeOK, Watchdog
    PROVE  TypeOK'
<1> USE DEF TypeOK, WatchdogTo, WatchdogPc, requests, deep, raisers, kernel, jobs, orders, mutexes
<1>1. CASE TakeRequest
  <2>1. watchdogStartJob' \in BOOLEAN
    BY <1>1 DEF TakeRequest
  <2>2. watchdog' \in [pc : WatchdogPc, want : SleepBool, from : {"start", "next"}]
    BY <1>1 DEF TakeRequest
  <2>3. QED
    BY <1>1, <2>1, <2>2 DEF TakeRequest
<1>2. CASE Decide            BY <1>2 DEF Decide, Launching, SleepBool, JobKind
<1>3. CASE Settle            BY <1>3 DEF Settle, Launching, SleepBool, JobKind
<1>4. CASE Claim             BY <1>4 DEF Claim
<1>5. CASE Peek              BY <1>5 DEF Peek
<1>6. CASE Poll              BY <1>6 DEF Poll
<1>7. CASE Mark              BY <1>7 DEF Mark
<1>8. CASE Launch
  <2>1. job' \in [Thread -> [kind : SleepBool, pc : JobPc, at : Nat]]
    BY <1>8 DEF Launch, JobPc
  <2>2. QED
    BY <1>8, <2>1 DEF Launch
<1>9. CASE ReadNextStep      BY <1>9 DEF ReadNextStep
<1>10. CASE ResetOrder       BY <1>10 DEF ResetOrder, Launching, SleepBool
<1>11. CASE ChooseNextStep   BY <1>11 DEF ChooseNextStep, Launching, SleepBool, JobKind
<1>12. CASE Assign           BY <1>12 DEF Assign
<1>13. CASE ConsumeNextStep  BY <1>13 DEF ConsumeNextStep
<1>14. QED
  BY <1>1, <1>2, <1>3, <1>4, <1>5, <1>6, <1>7, <1>8, <1>9, <1>10, <1>11, <1>12, <1>13
     DEF Watchdog

(* A job step moves its own thread only, to a record of the right type.    *)
LEMMA JobMoves ==
    ASSUME TypeOK, NEW t \in Thread, Job(t)
    PROVE  /\ job' \in [Thread -> JobRecord]
           /\ \A u \in Thread \ {t} : job'[u] = job[u]
           /\ job'[t].kind = job[t].kind \/ job'[t] = NoJob
<1> USE DEF TypeOK, JobRecord
<1>1. CASE JobStart(t)    BY <1>1, ArriveType DEF JobStart, JobPc
<1>2. CASE CheckOrder(t)  BY <1>2, ArriveType DEF CheckOrder, JobPc, Goto
<1>3. CASE Act(t)         BY <1>3, ArriveType DEF Act, JobPc, Goto
<1>4. CASE Release(t)     BY <1>4 DEF Release, JobPc, Goto
<1>5. CASE Report(t)      BY <1>5 DEF Report, JobPc, NoJob, SleepBool
<1>6. CASE GoSleep(t)
  BY <1>6 DEF GoSleep, Forget, Mute, CEG, AfterCEG, Extend, SuspendLoop, Retake, Suspend,
              Judge, Unmute, AskForAfter, GoStep, JobPc, Goto
<1>7. QED
  BY <1>1, <1>2, <1>3, <1>4, <1>5, <1>6 DEF Job

(* The steps of a job keep the types.                                      *)
LEMMA JobType ==
    ASSUME TypeOK, NEW t \in Thread, Job(t)
    PROVE  TypeOK'
<1> USE DEF requests, deep, raisers, kernel, orders, mutexes
<1>1. job' \in [Thread -> JobRecord]
  BY JobMoves
<1>2. die' \in [JobKind -> BOOLEAN]
  BY DEF TypeOK, Job, JobStart, CheckOrder, Act, Release, Report, GoSleep, Forget, Mute, CEG,
         Extend, SuspendLoop, Retake, Suspend, Judge, Unmute, AskForAfter
<1>3. CASE JobStart(t)
  BY <1>1, <1>2, <1>3 DEF TypeOK, JobRecord, JobStart
<1>4. CASE CheckOrder(t)
  BY <1>1, <1>2, <1>4 DEF TypeOK, JobRecord, CheckOrder
<1>5. CASE Act(t)
  <2>1. deepSleep' \in BOOLEAN /\ deepSleepPermission' \in BOOLEAN
    BY <1>5 DEF Act, StepDeep
  <2>2. lockscreenUp' \in BOOLEAN
    BY <1>5, ConstantsAssumption DEF TypeOK, Act, StepLockscreen
  <2>3. QED
    BY <1>1, <1>2, <1>5, <2>1, <2>2 DEF TypeOK, JobRecord, Act, StepOrders, SleepBool
<1>6. CASE Release(t)
  BY <1>1, <1>2, <1>6 DEF TypeOK, JobRecord, Release
<1>7. CASE Report(t)
  BY <1>1, <1>2, <1>7 DEF TypeOK, JobRecord, Report, SleepBool
<1>8. CASE GoSleep(t)
  <2>1. /\ ignoreEvents' \in BOOLEAN /\ suspended' \in BOOLEAN
        /\ chargerChanged' \in BOOLEAN
    BY <1>8 DEF TypeOK, GoSleep, Forget, Mute, CEG, Extend, SuspendLoop, Retake, Suspend,
                Judge, Unmute, AskForAfter
  <2>2. QED
    BY <1>1, <1>2, <1>8, <2>1
       DEF TypeOK, JobRecord, GoSleep, Forget, Mute, CEG, Extend, SuspendLoop, Retake,
           Suspend, Judge, Unmute, AskForAfter, GoSleepCondition
<1>9. QED
  BY <1>3, <1>4, <1>5, <1>6, <1>7, <1>8 DEF Job

(* So do those of the other threads, of the user and of the kernel.        *)
LEMMA OtherType ==
    ASSUME TypeOK,
           Request \/ MonitorNote \/ IdleStep \/ ConfigStep \/ LeaveLockscreen \/ Wake
    PROVE  TypeOK'
<1> USE DEF requests, deep, raisers, kernel, orders, mutexes, jobs, IdleUnchanged, ConfigUnchanged
<1>1. CASE PowerButton \/ HallSensor
  <2>1. watchdogStartJob' \in BOOLEAN
    BY <1>1 DEF TypeOK, PowerButton, HallSensor, EventHandler
  <2>2. QED
    BY <1>1, <2>1 DEF TypeOK, PowerButton, HallSensor
<1>2. CASE IdleExpires \/ SleepCall \/ UpdateConfig
  BY <1>2 DEF TypeOK, IdleExpires, SleepCall, UpdateConfig
<1>3. CASE MonitorNote
  BY <1>3 DEF TypeOK, MonitorNote
<1>4. CASE IdleStep
  <2>1. watchdogStartJob' \in BOOLEAN
    BY <1>4 DEF TypeOK, IdleStep, IdleReadsNextStep, IdleReadsThread, IdleLooksForSsh,
                IdleNotes, IdleRaises
  <2>2. QED
    BY <1>4, <2>1 DEF TypeOK, IdleStep, IdleReadsNextStep, IdleReadsThread, IdleLooksForSsh,
                      IdleNotes, IdleRaises, GoSleepCondition
<1>5. CASE ConfigStep
  <2>1. /\ watchdogStartJob' \in BOOLEAN
        /\ deepSleep' \in BOOLEAN /\ deepSleepPermission' \in BOOLEAN
    BY <1>5 DEF TypeOK, ConfigStep, CallSetsDeepSleep, CallForbidsAnother, CallRaises,
                CallNotes, UpdateTakesLed, UpdateGivesLed
  <2>2. QED
    BY <1>5, <2>1 DEF TypeOK, ConfigStep, CallSetsDeepSleep, CallForbidsAnother, CallRaises,
                      CallNotes, UpdateTakesLed, UpdateGivesLed, GoSleepCondition
<1>6. CASE LeaveLockscreen
  <2>1. lockscreenUp' \in BOOLEAN
    BY <1>6 DEF LeaveLockscreen
  <2>2. QED
    BY <1>6, <2>1 DEF TypeOK, LeaveLockscreen
<1>7. CASE Wake
  <2>1. suspended' \in BOOLEAN /\ chargerChanged' \in BOOLEAN
    BY <1>7 DEF Wake
  <2>2. QED
    BY <1>7, <2>1 DEF TypeOK, Wake
<1>8. QED
  BY <1>1, <1>2, <1>3, <1>4, <1>5, <1>6, <1>7 DEF Request

(* The daemon starts in range.                                             *)
LEMMA TypeInit == Init => TypeOK
<1> SUFFICES ASSUME Init PROVE TypeOK
  OBVIOUS
<1>1. /\ watchdogStartJob \in BOOLEAN /\ ignoreEvents \in BOOLEAN
      /\ deepSleep \in BOOLEAN /\ deepSleepPermission \in BOOLEAN
      /\ lockscreenUp \in BOOLEAN /\ suspended \in BOOLEAN
      /\ chargerChanged \in BOOLEAN
  BY DEF Init
<1>2. QED
  BY <1>1 DEF Init, TypeOK, NoJob, SleepBool, GoSleepCondition, WatchdogPc, JobPc

(* Every step stays in range.                                              *)
LEMMA TypeStep ==
    ASSUME TypeOK, [Next]_vars
    PROVE  TypeOK'
<1>1. CASE UNCHANGED vars
  BY <1>1 DEF vars, TypeOK, requests, deep, raisers, kernel, orders, mutexes, jobs
<1>2. CASE Next
  BY <1>2, WatchdogType, JobType, OtherType DEF Next
<1>3. QED
  BY <1>1, <1>2

(* Every variable stays in its range, whatever the constants.              *)
THEOREM TypeCorrect == Spec => []TypeOK
  BY TypeInit, TypeStep, PTL DEF Spec

-----------------------------------------------------------------------------
(* The inductive invariant.  AtMostOneJob holds because the watchdog       *)
(* announces and launches only when currentActiveThread has been cleared,  *)
(* which the leaving job does last; the invariant says at which of the     *)
(* watchdog's positions which of this is known.                            *)

GoSleepPc == {"forget", "mute", "entered", "extend", "waited", "loop", "retake", "mem",
              "failed", "woken", "judge", "unmute", "ask"}

(* A thread is at no position exactly when it has no job; the positions of *)
(* goSleep are taken by a goSleep.                                         *)
JobShape ==
    \A t \in Thread :
        /\ job[t].pc = "none" => job[t] = NoJob
        /\ job[t].pc # "none" => job[t].kind \in JobKind
        /\ job[t].pc \in GoSleepPc => job[t].kind = "GoingSleep"

(* What the watchdog knows at each position about the slot and its launch. *)
SlotShape ==
    /\ watchdog.pc \in {"mark", "choose", "assign"} => currentActiveThread = "Nothing"
    /\ watchdog.pc = "launch" =>
         currentActiveThread = watchdog.want /\ \A t \in Thread : ~Live(t)
    /\ watchdog.pc \in {"claim", "peek"} => watchdog.from = "start"
    /\ \/ watchdog.pc \in {"claim", "peek", "mark", "launch", "assign"}
       \/ watchdog.pc = "poll" /\ watchdog.from = "start"
       => watchdog.want \in JobKind

(* A next step that was asked for is not withdrawn before it is chosen.    *)
NextShape ==
    \/ watchdog.pc \in {"reset", "choose"}
    \/ watchdog.pc = "poll" /\ watchdog.from = "next"
    => watchdogNextStep # "Nothing"

(* A job inside its body, and an update in the section of                  *)
(* ledManagerAccurate(), have occupyLed.  This is about the mutex: it does *)
(* not say that nobody else drives the light, for which an update needs no *)
(* mutex (functions.cpp:277, devices.cpp:135-138).                         *)
LedShape ==
    /\ \A t \in Thread : InLed(t) => occupyLed = t
    /\ config = "ledHeld" => occupyLed = "config"

(* How the order relates to the launch under way and to the live job.      *)
OrderShape ==
    /\ watchdog.pc \in {"settle", "claim"} => sleep_mtx = "watchdog"
    /\ watchdog.pc = "settle" => sleepJob = "GoingSleep"
    /\ watchdog.pc \in {"peek", "poll", "mark", "launch"} =>
         sleepJob \in {"Nothing", watchdog.want}
    /\ \/ watchdog.pc \in {"choose", "assign"}
       \/ watchdog.pc = "poll" /\ watchdog.from = "next"
       => sleepJob = "Nothing"
    /\ \A t \in Thread : Live(t) /\ job[t].kind # "Prepare" =>
         /\ watchdog.pc \in {"peek", "poll"} \/ sleepJob \in {"Nothing", job[t].kind}
         /\ watchdog.pc = "claim" => watchdog.want # job[t].kind

IInv ==
    TypeOK /\ JobShape /\ AtMostOneJob /\ SlotShape /\ NextShape /\ NeverExits
    /\ MutedOnlyInGoSleep /\ LedShape /\ OrderShape /\ PolledJobIsTold

(* What a step of a job is to the rest: it keeps its kind or leaves by     *)
(* Report, may withdraw the order or ask for a next step, and leaves the   *)
(* watchdog and its mutexes alone.                                         *)
LEMMA JobEffect ==
    ASSUME TypeOK, NEW t \in Thread, Job(t)
    PROVE  /\ Live(t)
           /\ UNCHANGED <<watchdog, sleep_mtx, config>>
           /\ \/ Report(t)
              \/ /\ UNCHANGED currentActiveThread
                 /\ job'[t].pc # "none" /\ job'[t].kind = job[t].kind
           /\ \A u \in Thread \ {t} : job'[u] = job[u]
           /\ sleepJob' # sleepJob => sleepJob' = "Nothing" /\ sleep_mtx = "free"
           /\ watchdogNextStep' \in {watchdogNextStep, "GoingSleep", "After"}
<1>1. \A u \in Thread \ {t} : job'[u] = job[u]
  BY JobMoves
<1>2. CASE JobStart(t)
  <2>1. job'[t].pc # "none" /\ job'[t].kind = job[t].kind
    BY <1>2, ArriveType DEF JobStart, TypeOK
  <2>2. QED
    BY <1>1, <1>2, <2>1 DEF JobStart, Live, NoJob, JobAt, orders, raisers, kernel
<1>3. CASE CheckOrder(t)
  <2>1. job'[t].pc # "none" /\ job'[t].kind = job[t].kind
    <3> DEFINE next == Arrive(job[t].kind, job[t].at + 1)
    <3>1. next.kind = job[t].kind /\ next.pc # "none"
      BY ArriveType DEF TypeOK
    <3>2. job' = [job EXCEPT ![t] = next] \/ Goto(t, "act")
      BY <1>3 DEF CheckOrder
    <3>3. QED
      BY <3>1, <3>2 DEF TypeOK, Goto
  <2>2. QED
    BY <1>1, <1>3, <2>1 DEF CheckOrder, Live, NoJob, JobAt, orders, raisers, kernel, mutexes
<1>4. CASE Act(t)
  <2>1. job'[t].pc # "none" /\ job'[t].kind = job[t].kind
    <3> DEFINE next == Arrive(job[t].kind, job[t].at + 1)
    <3>1. next.kind = job[t].kind /\ next.pc # "none"
      BY ArriveType DEF TypeOK
    <3>2. job' = [job EXCEPT ![t] = next] \/ Goto(t, "check")
      BY <1>4 DEF Act
    <3>3. QED
      BY <3>1, <3>2 DEF TypeOK, Goto
  <2>2. QED
    BY <1>1, <1>4, <2>1 DEF Act, StepOrders, Live, NoJob, JobAt, orders, raisers, kernel, mutexes
<1>5. CASE Release(t)
  <2>1. job'[t].pc # "none" /\ job'[t].kind = job[t].kind
    BY <1>5 DEF Release, TypeOK, Goto
  <2>2. QED
    BY <1>1, <1>5, <2>1 DEF Release, Live, NoJob, JobAt, orders, raisers, kernel
<1>6. CASE Report(t)
  BY <1>1, <1>6 DEF Report, Live, NoJob, JobAt, raisers, kernel, mutexes
<1>7. CASE GoSleep(t)
  <2>1. job'[t].pc # "none" /\ job'[t].kind = job[t].kind
    BY <1>7 DEF GoSleep, Forget, Mute, CEG, AfterCEG, Extend, SuspendLoop, Retake, Suspend,
                Judge, Unmute, AskForAfter, GoStep, Goto, TypeOK
  <2>2. job[t].pc # "none"
    BY <1>7 DEF GoSleep, Forget, Mute, CEG, AfterCEG, Extend, SuspendLoop, Retake, Suspend,
                Judge, Unmute, AskForAfter, GoStep, JobAt
  <2>3. QED
    BY <1>1, <1>7, <2>1, <2>2
       DEF GoSleep, Forget, Mute, CEG, Extend, SuspendLoop, Retake, Suspend, Judge, Unmute,
           AskForAfter, Live, NoJob, orders, raisers, kernel, mutexes
<1>8. QED
  BY <1>2, <1>3, <1>4, <1>5, <1>6, <1>7 DEF Job

(* The other threads, the user and the kernel touch neither orders nor jobs. *)
LEMMA OtherEffect ==
    ASSUME Request \/ MonitorNote \/ IdleStep \/ ConfigStep \/ LeaveLockscreen \/ Wake
    PROVE  UNCHANGED <<job, die, watchdog, orders, sleep_mtx, ignoreEvents>>
  BY DEF Request, PowerButton, HallSensor, IdleExpires, SleepCall, UpdateConfig, MonitorNote,
         IdleStep, IdleReadsNextStep, IdleReadsThread, IdleLooksForSsh, IdleNotes, IdleRaises,
         ConfigStep, CallSetsDeepSleep, CallForbidsAnother, CallRaises, CallNotes,
         UpdateTakesLed, UpdateGivesLed, LeaveLockscreen, Wake, IdleUnchanged,
         ConfigUnchanged, orders, mutexes, jobs

(* The watchdog touches the jobs only to launch one.                       *)
LEMMA WatchdogEffect ==
    ASSUME Watchdog
    PROVE  /\ UNCHANGED <<die, ignoreEvents, occupyLed, config>>
           /\ UNCHANGED job \/ Launch
  BY DEF Watchdog, TakeRequest, Decide, Settle, Claim, Peek, Poll, Mark, Launch, ReadNextStep,
         ResetOrder, ChooseNextStep, Assign, ConsumeNextStep, mutexes, jobs, raisers, kernel

(* Each thread is left at a position that fits its job.                    *)
LEMMA JobShapeStep ==
    ASSUME TypeOK, JobShape, SlotShape, [Next]_vars
    PROVE  JobShape'
<1>1. CASE Launch
  <2>1. PICK t \in Thread :
          job' = [job EXCEPT ![t] = [kind |-> watchdog.want, pc |-> "start", at |-> 0]]
    BY <1>1 DEF Launch
  <2>2. watchdog.want \in JobKind
    BY <1>1 DEF Launch, WatchdogAt, SlotShape
  <2>3. QED
    BY <2>1, <2>2 DEF JobShape, TypeOK, GoSleepPc
<1>2. ASSUME NEW t \in Thread, Job(t)
      PROVE  JobShape'
  <2> SUFFICES /\ job'[t].pc = "none" => job'[t] = NoJob
               /\ job'[t].pc # "none" => job'[t].kind \in JobKind
               /\ job'[t].pc \in GoSleepPc => job'[t].kind = "GoingSleep"
    BY <1>2, JobEffect DEF JobShape
  <2>1. CASE Report(t)
    BY <2>1 DEF Report, TypeOK, NoJob, GoSleepPc
  <2>2. CASE ~Report(t)
    <3>1. job'[t].pc # "none" /\ job'[t].kind = job[t].kind /\ job[t].kind \in JobKind
      BY <1>2, <2>2, JobEffect DEF JobShape, Live
    <3>2. CASE JobStart(t)
      <4>1. CASE job[t].kind = "GoingSleep"
        BY <3>1, <4>1
      <4>2. CASE job[t].kind # "GoingSleep"
        <5>1. job'[t] = Arrive(job[t].kind, 1)
          BY <3>2, <4>2 DEF JobStart, TypeOK
        <5>2. Arrive(job[t].kind, 1).pc \in {"release", "act", "check"}
          BY ArriveType DEF TypeOK
        <5>3. QED
          BY <3>1, <5>1, <5>2 DEF GoSleepPc
      <4>3. QED
        BY <4>1, <4>2
    <3>3. CASE CheckOrder(t) \/ Act(t)
      <4> DEFINE next == Arrive(job[t].kind, job[t].at + 1)
      <4>1. next.pc \in {"release", "act", "check"}
        BY ArriveType DEF TypeOK
      <4>2. job' = [job EXCEPT ![t] = next] \/ Goto(t, "act") \/ Goto(t, "check")
        BY <3>3 DEF CheckOrder, Act
      <4>3. QED
        BY <3>1, <4>1, <4>2 DEF TypeOK, Goto, GoSleepPc
    <3>4. CASE Release(t)
      BY <3>1, <3>4 DEF Release, TypeOK, Goto, GoSleepPc
    <3>5. CASE GoSleep(t)
      <4>1. job[t].pc \in GoSleepPc
        BY <3>5 DEF GoSleep, Forget, Mute, CEG, AfterCEG, Extend, SuspendLoop, Retake, Suspend,
                    Judge, Unmute, AskForAfter, GoStep, JobAt, GoSleepPc
      <4>2. QED
        BY <3>1, <4>1 DEF JobShape
    <3>6. QED
      BY <1>2, <2>2, <3>2, <3>3, <3>4, <3>5 DEF Job
  <2>3. QED
    BY <2>1, <2>2
<1>3. CASE UNCHANGED job
  BY <1>3 DEF JobShape
<1>4. QED
  BY <1>1, <1>2, <1>3, WatchdogEffect, OtherEffect DEF Next, vars, jobs

(* A job that runs is the announced one, and nobody else's.                *)
LEMMA SlotStep ==
    ASSUME TypeOK, JobShape, AtMostOneJob, SlotShape, NextShape, [Next]_vars
    PROVE  AtMostOneJob' /\ SlotShape'
<1>1. CASE Watchdog
  <2> USE DEF TypeOK, SlotShape, WatchdogAt, WatchdogTo, orders, jobs
  <2>1. CASE TakeRequest
    BY <1>1, <2>1 DEF TakeRequest, AtMostOneJob, Live
  <2>2. CASE Decide
    BY <1>1, <2>2 DEF Decide, AtMostOneJob, Live, Launching, JobKind
  <2>3. CASE Settle
    BY <1>1, <2>3 DEF Settle, AtMostOneJob, Live, Launching, JobKind
  <2>4. CASE Claim
    BY <1>1, <2>4 DEF Claim, AtMostOneJob, Live
  <2>5. CASE Peek
    BY <1>1, <2>5 DEF Peek, AtMostOneJob, Live
  <2>6. CASE Poll
    BY <1>1, <2>6 DEF Poll, AtMostOneJob, Live
  <2>7. CASE Mark
    <3>1. \A t \in Thread : ~Live(t)
      BY <2>7 DEF Mark, AtMostOneJob, JobShape, Live, NoJob, JobKind
    <3>2. QED
      BY <2>7, <3>1 DEF Mark, AtMostOneJob, Live
  <2>8. CASE Launch
    <3>1. PICK t \in Thread :
            job' = [job EXCEPT ![t] = [kind |-> watchdog.want, pc |-> "start", at |-> 0]]
      BY <2>8 DEF Launch
    <3>2. /\ currentActiveThread' = watchdog.want /\ \A u \in Thread : ~Live(u)
          /\ watchdog'.pc \in {"next", "consume"}
      BY <2>8 DEF Launch
    <3>3. QED
      BY <3>1, <3>2 DEF AtMostOneJob, Live
  <2>9. CASE ReadNextStep
    BY <1>1, <2>9 DEF ReadNextStep, AtMostOneJob, Live
  <2>10. CASE ResetOrder
    BY <1>1, <2>10 DEF ResetOrder, AtMostOneJob, Live, Launching
  <2>11. CASE ChooseNextStep
    BY <1>1, <2>11 DEF ChooseNextStep, AtMostOneJob, Live, Launching, JobKind
  <2>12. CASE Assign
    BY <1>1, <2>12 DEF Assign, AtMostOneJob, Live
  <2>13. CASE ConsumeNextStep
    BY <1>1, <2>13 DEF ConsumeNextStep, AtMostOneJob, Live
  <2>14. QED
    BY <1>1, <2>1, <2>2, <2>3, <2>4, <2>5, <2>6, <2>7, <2>8, <2>9, <2>10, <2>11, <2>12, <2>13
       DEF Watchdog
<1>2. ASSUME NEW t \in Thread, Job(t)
      PROVE  AtMostOneJob' /\ SlotShape'
  <2>1. Live(t) /\ watchdog' = watchdog /\ \A u \in Thread \ {t} : job'[u] = job[u]
    BY <1>2, JobEffect
  <2>2. currentActiveThread = job[t].kind /\ \A u \in Thread \ {t} : ~Live(u)
    BY <2>1 DEF AtMostOneJob
  <2>3. watchdog.pc \notin {"mark", "choose", "assign", "launch"}
    BY <2>1, <2>2 DEF SlotShape, JobShape, Live, NoJob, JobKind
  <2>4. AtMostOneJob'
    <3>1. CASE Report(t)
      BY <2>1, <2>2, <3>1 DEF AtMostOneJob, Live, Report, TypeOK
    <3>2. CASE ~Report(t)
      BY <1>2, <2>1, <2>2, <3>2, JobEffect DEF AtMostOneJob, Live
    <3>3. QED
      BY <3>1, <3>2
  <2>5. SlotShape'
    BY <2>1, <2>3 DEF SlotShape
  <2>6. QED
    BY <2>4, <2>5
<1>3. CASE UNCHANGED <<job, watchdog, currentActiveThread>>
  BY <1>3 DEF AtMostOneJob, SlotShape, Live
<1>4. QED
  BY <1>1, <1>2, <1>3, OtherEffect DEF Next, vars, jobs, orders

(* Between the two reads of watchdogNextStep nobody clears it.             *)
LEMMA NextStep ==
    ASSUME TypeOK, SlotShape, NextShape, NeverExits, [Next]_vars
    PROVE  NextShape' /\ NeverExits'
<1>1. CASE Watchdog
  BY <1>1 DEF TypeOK, NextShape, NeverExits, SlotShape, Watchdog, TakeRequest, Decide, Settle,
              Claim, Peek, Poll, Mark, Launch, ReadNextStep, ResetOrder, ChooseNextStep,
              Assign, ConsumeNextStep, WatchdogAt, WatchdogTo, Launching, orders
<1>2. ASSUME NEW t \in Thread, Job(t)
      PROVE  NextShape' /\ NeverExits'
  <2>1. watchdog' = watchdog
    BY <1>2, JobEffect
  <2>2. watchdogNextStep' \in {watchdogNextStep, "GoingSleep", "After"}
    BY <1>2, JobEffect
  <2>3. QED
    BY <2>1, <2>2 DEF NextShape, NeverExits
<1>3. CASE UNCHANGED <<watchdog, watchdogNextStep>>
  BY <1>3 DEF NextShape, NeverExits
<1>4. QED
  BY <1>1, <1>2, <1>3, OtherEffect DEF Next, vars, orders

(* The order is that of the live job, withdrawn, or about to be another's. *)
LEMMA OrderStep ==
    ASSUME TypeOK, JobShape, AtMostOneJob, SlotShape, OrderShape, PolledJobIsTold,
           [Next]_vars
    PROVE  OrderShape' /\ PolledJobIsTold'
<1>1. CASE Watchdog
  <2> USE DEF TypeOK, OrderShape, PolledJobIsTold, WatchdogAt, WatchdogTo, orders, jobs, Live
  <2>1. CASE TakeRequest
    BY <2>1 DEF TakeRequest, mutexes
  <2>2. CASE Decide
    BY <2>2 DEF Decide, Launching, SleepBool, JobKind
  <2>3. CASE Settle
    BY <2>3 DEF Settle, Launching
  <2>4. CASE Claim
    BY <2>4 DEF Claim
  <2>5. CASE Peek
    <3>1. currentActiveThread = "Nothing" => \A t \in Thread : ~Live(t)
      BY DEF AtMostOneJob, JobShape, NoJob, JobKind
    <3>2. QED
      BY <2>5, <3>1 DEF Peek, SlotShape
  <2>6. CASE Poll
    <3>1. \A t \in Thread : ~Live(t)
      BY <2>6 DEF Poll, AtMostOneJob, JobShape, NoJob, JobKind
    <3>2. QED
      BY <2>6, <3>1 DEF Poll
  <2>7. CASE Mark
    BY <2>7 DEF Mark
  <2>8. CASE Launch
    <3>1. PICK t \in Thread :
            job' = [job EXCEPT ![t] = [kind |-> watchdog.want, pc |-> "start", at |-> 0]]
      BY <2>8 DEF Launch
    <3>2. /\ watchdog.pc = "launch" /\ \A u \in Thread : ~Live(u)
          /\ watchdog'.pc \in {"next", "consume"} /\ sleepJob' = sleepJob
      BY <2>8 DEF Launch, SlotShape
    <3>3. QED
      BY <3>1, <3>2
  <2>9. CASE ReadNextStep
    BY <2>9 DEF ReadNextStep
  <2>10. CASE ResetOrder
    <3>1. \A t \in Thread : Live(t) => job[t].kind # "Nothing"
      BY DEF JobShape, JobKind
    <3>2. /\ watchdog'.pc = "poll" /\ watchdog'.want = "Nothing"
          /\ sleepJob' = "Nothing" /\ job' = job
      BY <2>10 DEF ResetOrder, Launching
    <3>3. OrderShape' /\ PolledJobIsTold'
      BY <3>1, <3>2
    <3>4. QED
      BY <3>3
  <2>11. CASE ChooseNextStep
    BY <2>11 DEF ChooseNextStep, Launching
  <2>12. CASE Assign
    <3>1. \A t \in Thread : ~Live(t)
      BY <2>12 DEF Assign, SlotShape, AtMostOneJob, JobShape, NoJob, JobKind
    <3>2. QED
      BY <2>12, <3>1 DEF Assign
  <2>13. CASE ConsumeNextStep
    BY <2>13 DEF ConsumeNextStep
  <2>14. QED
    BY <1>1, <2>1, <2>2, <2>3, <2>4, <2>5, <2>6, <2>7, <2>8, <2>9, <2>10, <2>11, <2>12, <2>13
       DEF Watchdog
<1>2. ASSUME NEW t \in Thread, Job(t)
      PROVE  OrderShape' /\ PolledJobIsTold'
  <2>1. UNCHANGED <<watchdog, sleep_mtx>> /\ \A u \in Thread \ {t} : job'[u] = job[u]
    BY <1>2, JobEffect
  <2>2. sleepJob' = sleepJob \/ (sleepJob' = "Nothing" /\ sleep_mtx = "free")
    BY <1>2, JobEffect
  <2>3. job'[t] = NoJob \/ (job'[t].kind = job[t].kind /\ Live(t))
    BY <1>2, JobEffect DEF Report, TypeOK
  <2>4. \A u \in Thread : Live(u) => job[u].kind # "Nothing"
    BY DEF JobShape, Live, JobKind, NoJob
  <2>5. \A u \in Thread : Live(u)' => Live(u) /\ job'[u].kind = job[u].kind
    BY <2>1, <2>3 DEF Live
  <2>6. OrderShape'
    <3>1. /\ watchdog.pc \in {"settle", "claim"} => sleep_mtx = "watchdog"
          /\ watchdog.pc = "settle" => sleepJob' = "GoingSleep"
          /\ watchdog.pc \in {"peek", "poll", "mark", "launch"} =>
               sleepJob' \in {"Nothing", watchdog.want}
          /\ \/ watchdog.pc \in {"choose", "assign"}
             \/ watchdog.pc = "poll" /\ watchdog.from = "next"
             => sleepJob' = "Nothing"
      BY <2>2 DEF OrderShape
    <3>2. ASSUME NEW u \in Thread, Live(u)', job'[u].kind # "Prepare"
          PROVE  /\ watchdog.pc \in {"peek", "poll"} \/ sleepJob' \in {"Nothing", job'[u].kind}
                 /\ watchdog.pc = "claim" => watchdog.want # job'[u].kind
      BY <2>2, <2>5, <3>2 DEF OrderShape
    <3>3. QED
      BY <2>1, <3>1, <3>2 DEF OrderShape
  <2>7. PolledJobIsTold'
    BY <2>1, <2>2, <2>4, <2>5 DEF PolledJobIsTold, Live
  <2>8. QED
    BY <2>6, <2>7
<1>3. CASE UNCHANGED <<job, watchdog, sleepJob, sleep_mtx>>
  BY <1>3 DEF OrderShape, PolledJobIsTold, Live
<1>4. QED
  BY <1>1, <1>2, <1>3, OtherEffect DEF Next, vars, jobs, orders, mutexes

(* The muting goSleep does not leave the stretch between Mute and Unmute   *)
(* but by Unmute.                                                          *)
LEMMA MutedStep ==
    ASSUME TypeOK, JobShape, MutedOnlyInGoSleep, [Next]_vars
    PROVE  MutedOnlyInGoSleep'
<1>1. CASE Launch
  <2>1. PICK t \in Thread :
          /\ job[t] = NoJob
          /\ job' = [job EXCEPT ![t] = [kind |-> watchdog.want, pc |-> "start", at |-> 0]]
    BY <1>1 DEF Launch
  <2>2. \A u \in Thread : InMuted(u) => job'[u] = job[u]
    BY <2>1 DEF InMuted, NoJob, TypeOK
  <2>3. ignoreEvents' = ignoreEvents
    BY <1>1 DEF Launch
  <2>4. QED
    BY <2>2, <2>3 DEF MutedOnlyInGoSleep, InMuted
<1>2. ASSUME NEW t \in Thread, Job(t)
      PROVE  MutedOnlyInGoSleep'
  <2>1. \A u \in Thread \ {t} : job'[u] = job[u]
    BY <1>2, JobEffect
  <2>2. CASE ~InMuted(t) /\ ~Mute(t) /\ UNCHANGED ignoreEvents
    <3>1. \A u \in Thread : InMuted(u) => job'[u] = job[u]
      BY <2>1, <2>2
    <3>2. QED
      BY <2>2, <3>1 DEF MutedOnlyInGoSleep, InMuted
  <2>3. CASE Mute(t) \/ CEG(t) \/ Extend(t) \/ SuspendLoop(t) \/ Retake(t) \/ Suspend(t)
             \/ Judge(t)
    <3>1. job[t].pc \in GoSleepPc /\ InMuted(t)'
      BY <2>3 DEF Mute, CEG, AfterCEG, Extend, SuspendLoop, Retake, Suspend, Judge, GoStep,
                  JobAt, Goto, GoSleepPc, InMuted, TypeOK
    <3>2. job'[t].kind = "GoingSleep"
      <4>1. job'[t].kind = job[t].kind
        BY <2>3 DEF Mute, CEG, Extend, SuspendLoop, Retake, Suspend, Judge, GoStep, Goto, TypeOK
      <4>2. QED
        BY <3>1, <4>1 DEF JobShape
    <3>3. QED
      BY <3>1, <3>2 DEF MutedOnlyInGoSleep
  <2>4. CASE Unmute(t)
    BY <2>4 DEF Unmute, MutedOnlyInGoSleep
  <2>5. CASE JobStart(t) \/ CheckOrder(t) \/ Act(t) \/ Release(t) \/ Report(t)
             \/ Forget(t) \/ AskForAfter(t)
    <3>1. ~InMuted(t) /\ ~Mute(t) /\ UNCHANGED ignoreEvents
      BY <2>5 DEF JobStart, CheckOrder, Act, Release, Report, Forget, AskForAfter, GoStep,
                  JobAt, InMuted, Mute
    <3>2. QED
      BY <2>2, <3>1
  <2>6. QED
    BY <1>2, <2>3, <2>4, <2>5 DEF Job, GoSleep
<1>3. CASE UNCHANGED <<job, ignoreEvents>>
  BY <1>3 DEF MutedOnlyInGoSleep, InMuted
<1>4. QED
  BY <1>1, <1>2, <1>3, WatchdogEffect, OtherEffect DEF Next, vars, jobs

(* occupyLed is given away only by its owner, although nothing in unlock() *)
(* would prevent anyone else.                                              *)
LEMMA LedStep ==
    ASSUME TypeOK, LedShape, [Next]_vars
    PROVE  LedShape'
<1> USE ConstantsAssumption
<1>1. CASE Launch
  <2>1. PICK t \in Thread :
          job' = [job EXCEPT ![t] = [kind |-> watchdog.want, pc |-> "start", at |-> 0]]
    BY <1>1 DEF Launch
  <2>2. \A u \in Thread : InLed(u)' => InLed(u)
    BY <2>1 DEF InLed, TypeOK
  <2>3. UNCHANGED <<occupyLed, config>>
    BY <1>1 DEF Launch, mutexes, raisers, kernel
  <2>4. QED
    BY <2>2, <2>3 DEF LedShape
<1>2. ASSUME NEW t \in Thread, Job(t)
      PROVE  LedShape'
  <2>1. config' = config /\ \A u \in Thread \ {t} : job'[u] = job[u]
    BY <1>2, JobEffect
  <2>2. CASE InLed(t) /\ occupyLed' = occupyLed
    BY <2>1, <2>2 DEF LedShape, InLed
  <2>3. CASE ~InLed(t) /\ UNCHANGED occupyLed /\ ~InLed(t)'
    BY <2>1, <2>3 DEF LedShape, InLed
  <2>4. CASE occupyLed = "free" /\ occupyLed' = t
    BY <2>1, <2>4 DEF LedShape, InLed
  <2>5. CASE InLed(t) /\ occupyLed' = "free" /\ ~InLed(t)'
    BY <2>1, <2>5 DEF LedShape, InLed
  <2>6. CASE JobStart(t) \/ Retake(t)
    BY <2>4, <2>6 DEF JobStart, Retake
  <2>7. CASE Release(t)
    BY <2>5, <2>7 DEF Release, Goto, JobAt, InLed, TypeOK
  <2>8. CASE SuspendLoop(t)
    BY <2>2, <2>5, <2>8 DEF SuspendLoop, Goto, JobAt, InLed, TypeOK
  <2>9. CASE CheckOrder(t) \/ Act(t) \/ Forget(t) \/ Mute(t) \/ CEG(t) \/ Extend(t)
             \/ Suspend(t) \/ Judge(t) \/ Unmute(t)
    <3>1. InLed(t) /\ occupyLed' = occupyLed
      BY <2>9 DEF CheckOrder, Act, Forget, Mute, CEG, AfterCEG, Extend, Suspend, Judge, Unmute,
                  GoStep, JobAt, InLed, mutexes
    <3>2. QED
      BY <2>2, <3>1
  <2>10. CASE AskForAfter(t) \/ Report(t)
    <3>1. ~InLed(t) /\ UNCHANGED occupyLed /\ ~InLed(t)'
      BY <2>10 DEF AskForAfter, Report, GoStep, Goto, JobAt, InLed, NoJob, TypeOK, mutexes
    <3>2. QED
      BY <2>3, <3>1
  <2>11. QED
    BY <1>2, <2>6, <2>7, <2>8, <2>9, <2>10 DEF Job, GoSleep
<1>3. CASE UpdateTakesLed \/ UpdateGivesLed
  BY <1>3 DEF UpdateTakesLed, UpdateGivesLed, ConfigUnchanged, LedShape, InLed, jobs
<1>4. CASE UNCHANGED <<job, occupyLed>> /\ (config' = "ledHeld" => config = "ledHeld")
  BY <1>4 DEF LedShape, InLed
<1>5. CASE Request \/ MonitorNote \/ IdleStep \/ ConfigStep \/ LeaveLockscreen \/ Wake
  <2>1. CASE ~UpdateTakesLed /\ ~UpdateGivesLed
    <3>1. UNCHANGED occupyLed /\ (config' = "ledHeld" => config = "ledHeld")
      BY <1>5, <2>1
         DEF Request, PowerButton, HallSensor, IdleExpires, SleepCall, UpdateConfig,
             MonitorNote, IdleStep, IdleReadsNextStep, IdleReadsThread, IdleLooksForSsh,
             IdleNotes, IdleRaises, ConfigStep, CallSetsDeepSleep, CallForbidsAnother,
             CallRaises, CallNotes, LeaveLockscreen, Wake, IdleUnchanged, ConfigUnchanged,
             mutexes, raisers, kernel
    <3>2. QED
      BY <1>4, <1>5, <3>1, OtherEffect
  <2>2. QED
    BY <1>3, <2>1
<1>6. QED
  BY <1>1, <1>2, <1>4, <1>5, WatchdogEffect DEF Next, vars, jobs, mutexes, raisers, kernel

-----------------------------------------------------------------------------
(* The theorems.                                                           *)

(* The inductive invariant holds throughout.                               *)
THEOREM Invariance == Spec => []IInv
<1>1. Init => IInv
  <2> SUFFICES ASSUME Init PROVE IInv
    OBVIOUS
  <2>1. TypeOK
    BY TypeInit
  <2>2. \A t \in Thread : job[t] = NoJob
    BY DEF Init
  <2>3. /\ watchdog.pc = "top" /\ watchdog.from = "start"
        /\ ~ignoreEvents /\ config = "wait" /\ sleepJob = "Nothing"
    BY DEF Init
  <2>4. JobShape /\ AtMostOneJob /\ PolledJobIsTold
    BY <2>2 DEF JobShape, AtMostOneJob, PolledJobIsTold, Live, NoJob, GoSleepPc
  <2>5. SlotShape /\ NextShape /\ NeverExits /\ OrderShape
    BY <2>2, <2>3 DEF SlotShape, NextShape, NeverExits, OrderShape, Live
  <2>6. MutedOnlyInGoSleep /\ LedShape
    BY <2>2, <2>3 DEF MutedOnlyInGoSleep, LedShape, InLed, NoJob
  <2>7. QED
    BY <2>1, <2>4, <2>5, <2>6 DEF IInv
<1>2. IInv /\ [Next]_vars => IInv'
  BY TypeStep, JobShapeStep, SlotStep, NextStep, OrderStep, MutedStep, LedStep DEF IInv
<1>3. QED
  BY <1>1, <1>2, PTL DEF Spec

(* Never two jobs at work on the device, however many detached threads     *)
(* there are and whoever raises requests.                                  *)
THEOREM OneJob == Spec => []AtMostOneJob
<1>1. IInv => AtMostOneJob
  BY DEF IInv
<1>2. QED
  BY <1>1, Invariance, PTL

(* The process never runs into exit(EXIT_FAILURE).                         *)
THEOREM NoExit == Spec => []NeverExits
<1>1. IInv => NeverExits
  BY DEF IInv
<1>2. QED
  BY <1>1, Invariance, PTL

(* The buttons are muted only while a goSleep is there to notice a press.  *)
THEOREM Muted == Spec => []MutedOnlyInGoSleep
<1>1. IInv => MutedOnlyInGoSleep
  BY DEF IInv
<1>2. QED
  BY <1>1, Invariance, PTL

(* The watchdog waits only for jobs that were told to end, or that end by  *)
(* themselves.                                                             *)
THEOREM Told == Spec => []PolledJobIsTold
<1>1. IInv => PolledJobIsTold
  BY DEF IInv
<1>2. QED
  BY <1>1, Invariance, PTL

-----------------------------------------------------------------------------
(* The watchdog implements the slot.                                       *)

Workers == {t \in Thread : Live(t)}

(* A step of a job is nothing, Mute, Unmute or Finish to the slot.         *)
LEMMA JobOnSlot ==
    ASSUME IInv, NEW t \in Thread, Job(t)
    PROVE  \/ UNCHANGED <<currentActiveThread, Workers, ignoreEvents>>
           \/ Slot!Mute \/ Slot!Unmute \/ Slot!Finish
<1>1. Live(t) /\ \A u \in Thread \ {t} : job'[u] = job[u] /\ ~Live(u)
  BY JobEffect DEF IInv, AtMostOneJob
<1>2. CASE Report(t)
  <2>1. ~ignoreEvents
    BY <1>1, <1>2 DEF IInv, MutedOnlyInGoSleep, InMuted, Live, NoJob, Report, JobAt
  <2>2. currentActiveThread' = "Nothing" /\ ignoreEvents' = ignoreEvents /\ job'[t] = NoJob
    BY <1>2 DEF Report, IInv, TypeOK
  <2>3. Workers' = {} /\ Workers # {}
    BY <1>1, <2>2 DEF Workers, Live
  <2>4. QED
    BY <2>1, <2>2, <2>3 DEF Slot!Finish, Workers
<1>3. CASE ~Report(t)
  <2>1. currentActiveThread' = currentActiveThread /\ job'[t].pc # "none"
    BY <1>3, JobEffect DEF IInv
  <2>2. Workers' = Workers /\ Workers # {}
    BY <1>1, <2>1 DEF Workers, Live, NoJob
  <2>3. CASE UNCHANGED ignoreEvents
    BY <2>1, <2>2, <2>3
  <2>4. CASE Mute(t)
    <3>1. currentActiveThread = "GoingSleep"
      BY <1>1, <2>4 DEF Mute, GoStep, JobAt, IInv, JobShape, GoSleepPc, AtMostOneJob
    <3>2. QED
      BY <2>1, <2>2, <2>4, <3>1 DEF Mute, Slot!Mute, Workers
  <2>5. CASE Unmute(t)
    BY <2>1, <2>2, <2>5 DEF Unmute, Slot!Unmute, Workers
  <2>6. UNCHANGED ignoreEvents \/ Mute(t) \/ Unmute(t)
    BY DEF Job, JobStart, CheckOrder, Act, Release, Report, GoSleep, Forget, CEG, Extend,
           SuspendLoop, Retake, Suspend, Judge, AskForAfter
  <2>7. QED
    BY <2>3, <2>4, <2>5, <2>6
<1>4. QED
  BY <1>2, <1>3

(* A step of the watchdog is nothing, Announce or Begin to it.             *)
LEMMA WatchdogOnSlot ==
    ASSUME IInv, Watchdog
    PROVE  \/ UNCHANGED <<currentActiveThread, Workers, ignoreEvents>>
           \/ Slot!Announce \/ Slot!Begin
<1>1. CASE Mark
  <2>1. currentActiveThread = "Nothing" /\ watchdog.want \in JobKind
    BY <1>1 DEF Mark, WatchdogAt, IInv, SlotShape
  <2>2. Workers = {}
    BY <2>1 DEF Workers, IInv, AtMostOneJob, JobShape, Live, NoJob, JobKind
  <2>3. job' = job /\ ignoreEvents' = ignoreEvents /\ currentActiveThread' = watchdog.want
    BY <1>1 DEF Mark, jobs
  <2>4. QED
    BY <2>1, <2>2, <2>3 DEF Slot!Announce, Workers, Live
<1>2. CASE Launch
  <2>1. PICK t \in Thread :
          job' = [job EXCEPT ![t] = [kind |-> watchdog.want, pc |-> "start", at |-> 0]]
    BY <1>2 DEF Launch
  <2>2. /\ currentActiveThread \in JobKind /\ Workers = {}
        /\ UNCHANGED <<currentActiveThread, ignoreEvents>>
    BY <1>2 DEF Launch, WatchdogAt, IInv, SlotShape, orders, Workers
  <2>3. Workers' = {t}
    BY <2>1, <2>2 DEF Workers, Live, NoJob, IInv, TypeOK
  <2>4. QED
    BY <2>2, <2>3 DEF Slot!Begin, Workers, JobKind
<1>3. CASE ~Mark /\ ~Launch
  <2>1. UNCHANGED <<currentActiveThread, job, ignoreEvents>>
    BY <1>3 DEF Watchdog, TakeRequest, Decide, Settle, Claim, Peek, Poll, ReadNextStep,
                ResetOrder, ChooseNextStep, Assign, ConsumeNextStep, orders, jobs
  <2>2. QED
    BY <2>1 DEF Workers, Live
<1>4. QED
  BY <1>1, <1>2, <1>3

(* Detached threads, mutexes and polling together keep the promise of      *)
(* JobSlot, whatever the requests and their order.                         *)
THEOREM SlotImplemented == Spec => ImplementsJobSlot
<1>1. Init => Slot!Init
  BY DEF Init, Slot!Init, Live
<1>2. IInv /\ [Next]_vars => [Slot!Next]_<<currentActiveThread, Workers, ignoreEvents>>
  <2> SUFFICES ASSUME IInv, [Next]_vars
               PROVE  [Slot!Next]_<<currentActiveThread, Workers, ignoreEvents>>
    OBVIOUS
  <2>1. CASE Watchdog
    BY <2>1, WatchdogOnSlot DEF Slot!Next
  <2>2. ASSUME NEW t \in Thread, Job(t)
        PROVE  [Slot!Next]_<<currentActiveThread, Workers, ignoreEvents>>
    BY <2>2, JobOnSlot DEF Slot!Next
  <2>3. CASE UNCHANGED <<job, orders, ignoreEvents>>
    BY <2>3 DEF orders, Workers, Live
  <2>4. QED
    BY <2>1, <2>2, <2>3, OtherEffect DEF Next, vars, jobs
<1>3. QED
  BY <1>1, <1>2, Invariance, PTL DEF Spec, ImplementsJobSlot, Slot!Spec, Workers

=============================================================================
